------------------------------- MODULE Browser -------------------------------
(***************************************************************************)
(* Browser, BrowserContext and the page limit                              *)
(* (src/internal/browser/browser.go, context.go and Page.Close of          *)
(* src/internal/page/page.go): goroutines create contexts and pages and    *)
(* close pages, contexts and the browser itself, all at once.              *)
(*                                                                         *)
(* Browser.mu guards only sections that hold no other lock and call        *)
(* nothing, so each of them is one step.  BrowserContext.mu is held by     *)
(* NewPage across Browser.mu and the compare-and-swap on pageCount, so it  *)
(* is a variable.  The slices contexts and pages are sets: the code        *)
(* searches and copies them, and no result depends on their order.         *)
(***************************************************************************)
EXTENDS Integers, FiniteSets

CONSTANTS
    Threads,    \* goroutines that call the browser
    Contexts,   \* identities of the contexts, the default one included
    Default,    \* Browser.defaultCtx
    Pages,      \* identities of the pages: bounds how many are created
    MaxPages,   \* Options.MaxPages; 0 is unlimited
    None        \* no thread, no context, no page

ASSUME DefaultIsContext == Default \in Contexts
ASSUME NoneIsNone == None \notin Threads \cup Contexts \cup Pages
ASSUME MaxPagesIsNat == MaxPages \in Nat

VARIABLES
    bClosed,    \* Browser.closed
    bContexts,  \* Browser.contexts
    pageCount,  \* Browser.pageCount, the atomic counter
    created,    \* contexts that exist
    cClosed,    \* contexts with BrowserContext.closed set
    cPages,     \* BrowserContext.pages
    cMu,        \* holder of BrowserContext.mu
    owner,      \* the context a page was made by; None before that
    pClosed,    \* pages with Page.closed set
    pObs,       \* pages that still hold their close observer
    th          \* what each goroutine is doing

vars == <<bClosed, bContexts, pageCount, created, cClosed, cPages, cMu,
          owner, pClosed, pObs, th>>

browserVars == <<bClosed, bContexts>>
contextVars == <<created, cClosed, cPages, cMu>>
pageVars    == <<owner, pClosed, pObs>>

(* pc names the next step; op is the call to return from when the pages in *)
(* todo are closed: Page.Close, BrowserContext.Close or Browser.Close.     *)
PCs == {"idle", "newContext", "npCheck", "npLoad", "npCas", "npAppend",
        "closing", "release", "remove", "closeContexts", "unlink"}
Ops == {"none", "page", "context", "browser"}

Activities == [pc : PCs, op : Ops, ctx : Contexts \cup {None},
               page : Pages \cup {None}, cur : Nat,
               ctxs : SUBSET Contexts, todo : SUBSET Pages]

Idle == [pc |-> "idle", op |-> "none", ctx |-> None, page |-> None, cur |-> 0,
         ctxs |-> {}, todo |-> {}]

At(t, pc) == th[t].pc = pc
Goto(t, pc) == th' = [th EXCEPT ![t].pc = pc]
Return(t) == th' = [th EXCEPT ![t] = Idle]
Unlock(c) == cMu' = [cMu EXCEPT ![c] = None]

Init ==
    /\ bClosed = FALSE
    /\ bContexts = {Default}
    /\ pageCount = 0
    /\ created = {Default}
    /\ cClosed = {}
    /\ cPages = [c \in Contexts |-> {}]
    /\ cMu = [c \in Contexts |-> None]
    /\ owner = [p \in Pages |-> None]
    /\ pClosed = {}
    /\ pObs = {}
    /\ th = [t \in Threads |-> Idle]

-----------------------------------------------------------------------------
(* Browser.NewContext: closed is tested in one critical section and the    *)
(* context appended in another.                                            *)

NewContextCheck(t, c) ==
    /\ At(t, "idle")
    /\ ~bClosed
    /\ c \notin created \cup {th[u].ctx : u \in Threads}
    /\ th' = [th EXCEPT ![t].pc = "newContext", ![t].ctx = c]
    /\ UNCHANGED <<browserVars, pageCount, contextVars, pageVars>>

NewContextAppend(t) ==
    /\ At(t, "newContext")
    /\ created' = created \cup {th[t].ctx}
    /\ bContexts' = bContexts \cup {th[t].ctx}
    /\ Return(t)
    /\ UNCHANGED <<bClosed, pageCount, cClosed, cPages, cMu, pageVars>>

-----------------------------------------------------------------------------
(* BrowserContext.NewPage, which holds the context's lock from beginning   *)
(* to end.                                                                 *)

(* The bound on pages: a call starts only if an identity is left for it.   *)
PageIdLeft ==
    Cardinality({p \in Pages : owner[p] = None}) >
        Cardinality({u \in Threads : th[u].pc \in {"npCheck", "npLoad", "npCas"}})

(* A bug the properties must catch: the closed flag of the context is not  *)
(* tested.                                                                 *)
NewPageLock_Unchecked(t, c) ==
    /\ At(t, "idle") /\ PageIdLeft
    /\ c \in created
    /\ cMu[c] = None
    /\ cMu' = [cMu EXCEPT ![c] = t]
    /\ th' = [th EXCEPT ![t].pc = "npCheck", ![t].ctx = c]
    /\ UNCHANGED <<browserVars, pageCount, created, cClosed, cPages, pageVars>>

NewPageLock(t, c) ==
    /\ At(t, "idle") /\ PageIdLeft
    /\ c \in created \ cClosed
    /\ cMu[c] = None
    /\ cMu' = [cMu EXCEPT ![c] = t]
    /\ th' = [th EXCEPT ![t].pc = "npCheck", ![t].ctx = c]
    /\ UNCHANGED <<browserVars, pageCount, created, cClosed, cPages, pageVars>>

(* Bugs: the browser's flag is not looked at; the early return forgets the *)
(* lock.                                                                   *)
NewPageCheckBrowser_Skipped(t) ==
    /\ At(t, "npCheck")
    /\ Goto(t, "npLoad")
    /\ UNCHANGED <<browserVars, pageCount, contextVars, pageVars>>

NewPageCheckBrowser_KeepsLock(t) ==
    /\ At(t, "npCheck")
    /\ \/ ~bClosed /\ Goto(t, "npLoad")
       \/ bClosed /\ Return(t)
    /\ UNCHANGED <<browserVars, pageCount, contextVars, pageVars>>

NewPageCheckBrowser(t) ==
    /\ At(t, "npCheck")
    /\ \/ ~bClosed /\ Goto(t, "npLoad") /\ UNCHANGED cMu
       \/ bClosed /\ Return(t) /\ Unlock(th[t].ctx)
    /\ UNCHANGED <<browserVars, pageCount, created, cClosed, cPages, pageVars>>

(* page.New: page p now exists, and only this goroutine knows it. *)
MakePage(t, p) ==
    /\ owner[p] = None
    /\ owner' = [owner EXCEPT ![p] = th[t].ctx]
    /\ pageCount' = pageCount + 1
    /\ th' = [th EXCEPT ![t].pc = "npAppend", ![t].page = p]

AcquireUnlimited(t, p) ==
    /\ At(t, "npLoad")
    /\ MaxPages = 0
    /\ MakePage(t, p)
    /\ UNCHANGED <<browserVars, contextVars, pClosed, pObs>>

(* Bug: the counter is raised before the test and not put back. *)
AcquireLoad_Leaks(t) ==
    /\ At(t, "npLoad")
    /\ MaxPages > 0
    /\ \/ /\ pageCount >= MaxPages
          /\ pageCount' = pageCount + 1
          /\ Return(t)
          /\ Unlock(th[t].ctx)
       \/ /\ pageCount < MaxPages
          /\ th' = [th EXCEPT ![t].pc = "npCas", ![t].cur = pageCount]
          /\ UNCHANGED <<cMu, pageCount>>
    /\ UNCHANGED <<browserVars, created, cClosed, cPages, pageVars>>

(* acquirePage reads the counter ... *)
AcquireLoad(t) ==
    /\ At(t, "npLoad")
    /\ MaxPages > 0
    /\ \/ /\ pageCount >= MaxPages
          /\ Return(t)
          /\ Unlock(th[t].ctx)
       \/ /\ pageCount < MaxPages
          /\ th' = [th EXCEPT ![t].pc = "npCas", ![t].cur = pageCount]
          /\ UNCHANGED cMu
    /\ UNCHANGED <<browserVars, pageCount, created, cClosed, cPages, pageVars>>

(* Bug: the counter is raised whatever it has become meanwhile. *)
AcquireSwap_Blind(t, p) ==
    /\ At(t, "npCas")
    /\ MakePage(t, p)
    /\ UNCHANGED <<browserVars, contextVars, pClosed, pObs>>

(* ... and swaps in the successor if the counter still has that value; if  *)
(* it has not, the loop reads it again.                                    *)
AcquireSwap(t, p) ==
    /\ At(t, "npCas")
    /\ pageCount = th[t].cur
    /\ MakePage(t, p)
    /\ UNCHANGED <<browserVars, contextVars, pClosed, pObs>>

AcquireRetry(t) ==
    /\ At(t, "npCas")
    /\ pageCount # th[t].cur
    /\ Goto(t, "npLoad")
    /\ UNCHANGED <<browserVars, pageCount, contextVars, pageVars>>

(* SetCloseObserver, append to BrowserContext.pages, deferred unlock. *)
NewPageAppend(t) ==
    LET c == th[t].ctx
        p == th[t].page
    IN /\ At(t, "npAppend")
       /\ pObs' = pObs \cup {p}
       /\ cPages' = [cPages EXCEPT ![c] = @ \cup {p}]
       /\ Unlock(c)
       /\ Return(t)
       /\ UNCHANGED <<browserVars, pageCount, created, cClosed, owner, pClosed>>

-----------------------------------------------------------------------------
(* Page.Close marks the page closed and takes its observer; the observer   *)
(* then gives the permit back and drops the page from its context.         *)

MarkPageClosed(p) ==
    /\ pClosed' = pClosed \cup {p}
    /\ pObs' = pObs \ {p}

ClosePage(t, p) ==
    /\ At(t, "idle")
    /\ p \in pObs \ pClosed
    /\ MarkPageClosed(p)
    /\ th' = [th EXCEPT ![t].pc = "release", ![t].op = "page", ![t].page = p]
    /\ UNCHANGED <<browserVars, pageCount, contextVars, owner>>

ReleasePage(t) ==
    /\ At(t, "release")
    /\ pageCount' = pageCount - 1
    /\ Goto(t, "remove")
    /\ UNCHANGED <<browserVars, contextVars, pageVars>>

RemovePage(t) ==
    LET p == th[t].page
        c == owner[p]
    IN /\ At(t, "remove")
       /\ cMu[c] = None
       /\ cPages' = [cPages EXCEPT ![c] = @ \ {p}]
       /\ th' = [th EXCEPT ![t].pc = "closing", ![t].page = None]
       /\ UNCHANGED <<browserVars, pageCount, created, cClosed, cMu, pageVars>>

-----------------------------------------------------------------------------
(* closeInternal: the first caller marks the context closed and takes its  *)
(* pages, which it closes one by one after unlocking.                      *)

TakePages(t, c, op) ==
    /\ c \notin cClosed
    /\ cClosed' = cClosed \cup {c}
    /\ cPages' = [cPages EXCEPT ![c] = {}]
    /\ th' = [th EXCEPT ![t].pc = "closing", ![t].op = op, ![t].ctx = c,
                        ![t].ctxs = @ \ {c}, ![t].todo = cPages[c]]

ClosingNext(t, p) ==
    /\ At(t, "closing")
    /\ p \in th[t].todo
    /\ \/ /\ p \notin pClosed
          /\ MarkPageClosed(p)
          /\ th' = [th EXCEPT ![t].pc = "release", ![t].page = p,
                              ![t].todo = @ \ {p}]
       \/ /\ p \in pClosed
          /\ th' = [th EXCEPT ![t].todo = @ \ {p}]
          /\ UNCHANGED <<pClosed, pObs>>
    /\ UNCHANGED <<browserVars, pageCount, contextVars, owner>>

ClosingDone(t) ==
    /\ At(t, "closing")
    /\ th[t].todo = {}
    /\ \/ th[t].op = "page" /\ Return(t)
       \/ th[t].op = "context" /\ Goto(t, "unlink")
       \/ th[t].op = "browser" /\ Goto(t, "closeContexts")
    /\ UNCHANGED <<browserVars, pageCount, contextVars, pageVars>>

(* BrowserContext.Close, refused for the default context. *)
CloseContext(t, c) ==
    /\ At(t, "idle")
    /\ c \in created \ {Default}
    /\ cMu[c] = None
    /\ \/ TakePages(t, c, "context")
       \/ /\ c \in cClosed
          /\ th' = [th EXCEPT ![t].pc = "unlink", ![t].op = "context", ![t].ctx = c]
          /\ UNCHANGED <<cClosed, cPages>>
    /\ UNCHANGED <<browserVars, pageCount, created, cMu, pageVars>>

(* Browser.removeContext *)
UnlinkContext(t) ==
    /\ At(t, "unlink")
    /\ bContexts' = bContexts \ {th[t].ctx}
    /\ Return(t)
    /\ UNCHANGED <<bClosed, pageCount, contextVars, pageVars>>

(* Browser.Close: only the first caller closes anything. *)
CloseBrowser(t) ==
    /\ At(t, "idle")
    /\ ~bClosed
    /\ bClosed' = TRUE
    /\ bContexts' = {}
    /\ th' = [th EXCEPT ![t].pc = "closeContexts", ![t].op = "browser",
                        ![t].ctxs = bContexts]
    /\ UNCHANGED <<pageCount, contextVars, pageVars>>

CloseNextContext(t, c) ==
    /\ At(t, "closeContexts")
    /\ c \in th[t].ctxs
    /\ cMu[c] = None
    /\ \/ TakePages(t, c, "browser")
       \/ /\ c \in cClosed
          /\ th' = [th EXCEPT ![t].ctxs = @ \ {c}]
          /\ UNCHANGED <<cClosed, cPages>>
    /\ UNCHANGED <<browserVars, pageCount, created, cMu, pageVars>>

CloseBrowserReturn(t) ==
    /\ At(t, "closeContexts")
    /\ th[t].ctxs = {}
    /\ Return(t)
    /\ UNCHANGED <<browserVars, pageCount, contextVars, pageVars>>

-----------------------------------------------------------------------------
(* The calls that return at once: NewContext and Close of a closed         *)
(* browser, NewPage of a closed context, Close of a closed page or of the  *)
(* default context.                                                        *)
Refused(t) ==
    /\ At(t, "idle")
    /\ UNCHANGED vars

(* What a goroutine may start, and the rest of a call it has started. *)
Call(t) ==
    \/ Refused(t)
    \/ \E c \in Contexts : NewContextCheck(t, c)
    \/ \E c \in Contexts : NewPageLock(t, c)
    \/ \E p \in Pages : ClosePage(t, p)
    \/ \E c \in Contexts : CloseContext(t, c)
    \/ CloseBrowser(t)

Resume(t) ==
    \/ NewContextAppend(t)
    \/ NewPageCheckBrowser(t)
    \/ \E p \in Pages : AcquireUnlimited(t, p)
    \/ AcquireLoad(t)
    \/ \E p \in Pages : AcquireSwap(t, p)
    \/ AcquireRetry(t)
    \/ NewPageAppend(t)
    \/ ReleasePage(t)
    \/ RemovePage(t)
    \/ \E p \in Pages : ClosingNext(t, p)
    \/ ClosingDone(t)
    \/ UnlinkContext(t)
    \/ \E c \in Contexts : CloseNextContext(t, c)
    \/ CloseBrowserReturn(t)

Next == \E t \in Threads : Call(t) \/ Resume(t)

Spec == Init /\ [][Next]_vars

(* A goroutine that has entered a call goes on with it.  Strong fairness   *)
(* is for the steps that wait for BrowserContext.mu: a sync.Mutex hands    *)
(* itself over in FIFO order once a waiter has starved for a millisecond.  *)
(* Nobody is obliged to call anything.                                     *)
FairSpec == Spec /\ \A t \in Threads : SF_vars(Resume(t))

-----------------------------------------------------------------------------
(* Pages that exist and are not closed. *)
OpenPages == {p \in Pages : owner[p] # None} \ pClosed

(* Pages whose permit is out: the page still holds the observer that gives *)
(* it back, or a goroutine is making the page or about to give it back.    *)
HoldsPermit(t) == th[t].pc \in {"npAppend", "release"}
Charged == pObs \cup {p \in Pages : \E t \in Threads : HoldsPermit(t) /\ th[t].page = p}

(* Pages whose permit was given back. *)
Refunded == {p \in Pages : owner[p] # None} \ Charged

TypeOK ==
    /\ bClosed \in BOOLEAN
    /\ bContexts \subseteq Contexts
    /\ pageCount \in Nat
    /\ created \subseteq Contexts
    /\ cClosed \subseteq Contexts
    /\ cPages \in [Contexts -> SUBSET Pages]
    /\ cMu \in [Contexts -> Threads \cup {None}]
    /\ owner \in [Pages -> Contexts \cup {None}]
    /\ pClosed \subseteq Pages
    /\ pObs \subseteq Pages
    /\ th \in [Threads -> Activities]

(* The counter is the number of permits that are out, between any two      *)
(* steps of any goroutines: acquirePage and releasePage pair up one to one *)
(* whoever closes the page (Page.Close, BrowserContext.Close and           *)
(* Browser.Close may race for it).                                         *)
CountExact == pageCount = Cardinality(Charged)

(* "the maximum number of concurrent pages across all contexts"            *)
(* (WithMaxPages), though no lock is common to the contexts.               *)
PageLimit == MaxPages > 0 => Cardinality(OpenPages) <= MaxPages

(* An open page that its creator has handed out can still be found by a    *)
(* Close: it is listed in its context, and that context is not closed, or  *)
(* a closer has taken it and will come to it.  A page appended after       *)
(* closeInternal copied the list would be open forever.                    *)
NoStrandedPage ==
    \A p \in pObs :
        \/ p \in cPages[owner[p]] /\ owner[p] \notin cClosed
        \/ \E t \in Threads : p \in th[t].todo

(* The browser's pages take and give back permits as PagePool says. *)
Pool == INSTANCE PagePool WITH held <- Charged, spent <- Refunded
ImplementsPagePool == Pool!Spec

(* After Browser.Close no page stays open, also not the pages that NewPage *)
(* calls were making when the browser was closed.                          *)
CloseClosesEveryPage == bClosed ~> (OpenPages = {})

(* Every call returns: no goroutine waits forever for a context's lock,    *)
(* although closing calls back into the context from each page.            *)
CallsReturn == \A t \in Threads : ~At(t, "idle") ~> At(t, "idle")

(* "Returns nil if the browser is closed." (NewContext): a closed browser  *)
(* lists no contexts.  NewContext tests the flag and appends in two        *)
(* critical sections, so the code breaks this.                             *)
NoContextAfterClose == bClosed => bContexts = {}

=============================================================================
