-------------------------- MODULE BrowserMcpProofs --------------------------
(***************************************************************************)
(* The browser that keeps pages and the MCP server that opens them.        *)
(*                                                                         *)
(* 1. Browser.  For any numbers of goroutines, contexts and pages and any  *)
(* limit: the types of Browser.tla, the exactness of pageCount, the page   *)
(* limit, and that the browser implements PagePool.                        *)
(*                                                                         *)
(* 2. McpServer.  For any URLs, documents and maximal depths and any number *)
(* of messages: node:N reaches the element that was shown as N; the marks  *)
(* are cleared, and a URL is loaded once.                                  *)
(*                                                                         *)
(* 3. SemanticTree.  For any document and maximal depth: what Builder and  *)
(* CompressTree leave shows the elements that ShouldShow finds.            *)
(***************************************************************************)
EXTENDS Browser, McpServer, FiniteSetTheorems, SequenceTheorems, WellFoundedInduction, TLAPS

-----------------------------------------------------------------------------
(* The inductive invariant.  CountExact is not inductive alone: that       *)
(* giving a permit back removes exactly one page from Charged needs every  *)
(* permit to have a single holder.                                         *)

(* A permit is held by the page's observer or by one goroutine. *)
OneHolder ==
    /\ \A t \in Threads : HoldsPermit(t) =>
          /\ th[t].page \in Pages \ pObs
          /\ owner[th[t].page] # None
    /\ \A t, u \in Threads :
          HoldsPermit(t) /\ HoldsPermit(u) /\ th[t].page = th[u].page => t = u

(* An open page holds its permit; a page that holds its observer, or is    *)
(* about to get it, is open.                                               *)
OpenIsCharged ==
    /\ \A p \in pClosed : owner[p] # None
    /\ \A t \in Threads : At(t, "npAppend") => th[t].page \notin pClosed
    /\ \A p \in pObs : owner[p] # None /\ p \notin pClosed
    /\ \A p \in OpenPages :
          p \in pObs \/ \E t \in Threads : At(t, "npAppend") /\ th[t].page = p

(* What the steps of a call rely on. *)
Consistent(r) ==
    /\ r.pc \in {"newContext", "npCheck", "npLoad", "npCas", "npAppend"} => r.ctx \in Contexts
    /\ r.pc = "npCas" => MaxPages > 0 /\ r.cur < MaxPages

InCall == \A t \in Threads : Consistent(th[t])

(* Only pages that were handed out, open or closed, are listed anywhere. *)
Listed ==
    /\ \A c \in Contexts : cPages[c] \subseteq pObs \cup pClosed
    /\ \A t \in Threads : th[t].todo \subseteq pObs \cup pClosed

Counted ==
    /\ IsFiniteSet(Charged)
    /\ CountExact
    /\ MaxPages > 0 => pageCount <= MaxPages

IInv == TypeOK /\ OneHolder /\ OpenIsCharged /\ InCall /\ Listed /\ Counted

-----------------------------------------------------------------------------
(* The three things a step can do to the permits. *)

KeepsPermits ==
    /\ Charged' = Charged
    /\ UNCHANGED <<owner, pageCount>>

TakesPermit(p) ==
    /\ p \in Pages \ Charged
    /\ owner[p] = None
    /\ MaxPages = 0 \/ pageCount < MaxPages
    /\ Charged' = Charged \cup {p}
    /\ owner'[p] # None
    /\ \A q \in Pages \ {p} : owner'[q] = owner[q]
    /\ pageCount' = pageCount + 1

GivesPermitBack(p) ==
    /\ p \in Charged \cap Pages
    /\ owner[p] # None
    /\ Charged' = Charged \ {p}
    /\ UNCHANGED owner
    /\ pageCount' = pageCount - 1

(* A step of t that is outside the two places where a goroutine holds a    *)
(* permit.                                                                 *)
Quiet(t) ==
    /\ UNCHANGED <<owner, pageCount, pObs, pClosed>>
    /\ \A u \in Threads \ {t} : th'[u] = th[u]
    /\ ~HoldsPermit(t) /\ ~HoldsPermit(t)'

LEMMA QuietKeepsPermits ==
    ASSUME NEW t \in Threads, Quiet(t), TypeOK
    PROVE  KeepsPermits /\ (OneHolder => OneHolder') /\ (OpenIsCharged => OpenIsCharged')
<1>1. \A u \in Threads : HoldsPermit(u)' <=> HoldsPermit(u)
  BY DEF Quiet, HoldsPermit
<1>2. \A u \in Threads : HoldsPermit(u) => th'[u] = th[u]
  BY DEF Quiet
<1>3. KeepsPermits
  BY <1>1, <1>2 DEF KeepsPermits, Charged, Quiet
<1>4. OneHolder => OneHolder'
  BY <1>1, <1>2 DEF OneHolder, Quiet
<1>5. ASSUME OpenIsCharged
      PROVE  OpenIsCharged'
  <2>1. OpenPages' = OpenPages
    BY DEF OpenPages, Quiet
  <2>2. \A u \in Threads : At(u, "npAppend") => At(u, "npAppend")' /\ th'[u] = th[u]
    BY <1>2 DEF At, HoldsPermit
  <2>3. \A u \in Threads : At(u, "npAppend")' => At(u, "npAppend") /\ th'[u] = th[u]
    BY <1>1, <1>2 DEF At, HoldsPermit
  <2> QED
    BY <1>5, <2>1, <2>2, <2>3 DEF OpenIsCharged, Quiet
<1> QED
  BY <1>3, <1>4, <1>5

-----------------------------------------------------------------------------
(* The steps of a call that leave every permit where it is. *)
QuietStep(t) ==
    \/ \E c \in Contexts : NewContextCheck(t, c) \/ NewPageLock(t, c)
                           \/ CloseContext(t, c) \/ CloseNextContext(t, c)
    \/ NewContextAppend(t) \/ NewPageCheckBrowser(t) \/ AcquireLoad(t)
    \/ AcquireRetry(t) \/ RemovePage(t) \/ ClosingDone(t) \/ UnlinkContext(t)
    \/ CloseBrowser(t) \/ CloseBrowserReturn(t)
    \/ \E p \in Pages : ClosingNext(t, p) /\ p \in pClosed

LEMMA QuietStepIsQuiet ==
    ASSUME NEW t \in Threads, QuietStep(t), TypeOK
    PROVE  Quiet(t)
<1> USE DEF Quiet, HoldsPermit, TypeOK, Activities, At, Goto, Return, Idle, pageVars
<1>1. ASSUME NEW c \in Contexts, NewContextCheck(t, c)
      PROVE  Quiet(t)
  BY <1>1 DEF NewContextCheck
<1>2. ASSUME NEW c \in Contexts, NewPageLock(t, c)
      PROVE  Quiet(t)
  BY <1>2 DEF NewPageLock
<1>3. ASSUME NEW c \in Contexts, CloseContext(t, c)
      PROVE  Quiet(t)
  BY <1>3 DEF CloseContext, TakePages
<1>4. ASSUME NEW c \in Contexts, CloseNextContext(t, c)
      PROVE  Quiet(t)
  BY <1>4 DEF CloseNextContext, TakePages
<1>5. CASE NewContextAppend(t)
  BY <1>5 DEF NewContextAppend
<1>6. CASE NewPageCheckBrowser(t)
  BY <1>6 DEF NewPageCheckBrowser
<1>7. CASE AcquireLoad(t)
  BY <1>7 DEF AcquireLoad
<1>8. CASE AcquireRetry(t)
  BY <1>8 DEF AcquireRetry
<1>9. CASE RemovePage(t)
  BY <1>9 DEF RemovePage
<1>10. CASE ClosingDone(t)
  BY <1>10 DEF ClosingDone
<1>11. CASE UnlinkContext(t)
  BY <1>11 DEF UnlinkContext
<1>12. CASE CloseBrowser(t)
  BY <1>12 DEF CloseBrowser
<1>13. CASE CloseBrowserReturn(t)
  BY <1>13 DEF CloseBrowserReturn
<1>14. ASSUME NEW p \in Pages, ClosingNext(t, p), p \in pClosed
       PROVE  Quiet(t)
  BY <1>14 DEF ClosingNext
<1> QED
  BY <1>1, <1>2, <1>3, <1>4, <1>5, <1>6, <1>7, <1>8, <1>9, <1>10, <1>11, <1>12,
     <1>13, <1>14 DEF QuietStep

(* Every step of the browser is one of four kinds. *)
LEMMA StepKinds ==
    ASSUME NEW t \in Threads, Call(t) \/ Resume(t)
    PROVE  \/ QuietStep(t)
           \/ UNCHANGED vars
           \/ \E p \in Pages : AcquireUnlimited(t, p) \/ AcquireSwap(t, p)
           \/ NewPageAppend(t)
           \/ ReleasePage(t)
           \/ \E p \in Pages : ClosePage(t, p) \/ (ClosingNext(t, p) /\ p \notin pClosed)
BY Zenon DEF Call, Resume, QuietStep, Refused

-----------------------------------------------------------------------------
(* The steps that move a permit. *)

LEMMA MakePageTakesPermit ==
    ASSUME NEW t \in Threads, NEW p \in Pages, IInv,
           AcquireUnlimited(t, p) \/ AcquireSwap(t, p)
    PROVE  TakesPermit(p) /\ OneHolder' /\ OpenIsCharged'
<1>1. /\ owner[p] = None /\ th[t].ctx \in Contexts /\ th[t].pc \in {"npLoad", "npCas"}
      /\ owner' = [owner EXCEPT ![p] = th[t].ctx]
      /\ pageCount' = pageCount + 1
      /\ th' = [th EXCEPT ![t].pc = "npAppend", ![t].page = p]
      /\ UNCHANGED <<pObs, pClosed>>
      /\ MaxPages = 0 \/ pageCount < MaxPages
  BY DEF IInv, InCall, Consistent, AcquireUnlimited, AcquireSwap, MakePage, At
<1>2. p \notin Charged
  BY <1>1 DEF IInv, OneHolder, OpenIsCharged, Charged
<1>3. ~HoldsPermit(t) /\ HoldsPermit(t)' /\ th'[t].page = p /\ At(t, "npAppend")'
  BY <1>1 DEF HoldsPermit, At, IInv, TypeOK
<1>4. \A u \in Threads \ {t} : th'[u] = th[u] /\ (HoldsPermit(u)' <=> HoldsPermit(u))
  BY <1>1 DEF HoldsPermit, IInv, TypeOK
<1>5. Charged' = Charged \cup {p}
  BY <1>1, <1>3, <1>4 DEF Charged
<1>6. owner'[p] # None /\ \A q \in Pages \ {p} : owner'[q] = owner[q]
  BY <1>1, NoneIsNone DEF IInv, TypeOK
<1>7. OneHolder'
  <2>1. \A u \in Threads \ {t} : HoldsPermit(u)' =>
            /\ th'[u].page \in Pages \ pObs'
            /\ owner'[th'[u].page] # None
            /\ th'[u].page # p
    <3> SUFFICES ASSUME NEW u \in Threads \ {t}, HoldsPermit(u)'
                 PROVE  /\ th[u].page \in Pages \ pObs
                        /\ owner'[th[u].page] # None
                        /\ th[u].page # p
      BY <1>1, <1>4
    <3>1. th[u].page \in Pages \ pObs /\ owner[th[u].page] # None
      BY <1>4 DEF IInv, OneHolder
    <3> QED
      BY <1>1, <1>6, <3>1
  <2>2. p \in Pages \ pObs' /\ owner'[p] # None
    BY <1>1, <1>2, <1>6 DEF Charged
  <2>3. \A u, v \in Threads \ {t} :
            HoldsPermit(u)' /\ HoldsPermit(v)' /\ th'[u].page = th'[v].page => u = v
    BY <1>4 DEF IInv, OneHolder
  <2> QED
    BY <1>3, <2>1, <2>2, <2>3 DEF OneHolder
<1>8. OpenIsCharged'
  <2>1. OpenPages' \subseteq OpenPages \cup {p}
    BY <1>1, <1>6 DEF OpenPages
  <2>2. \A u \in Threads : At(u, "npAppend") => At(u, "npAppend")' /\ th'[u] = th[u]
    BY <1>3, <1>4 DEF At, HoldsPermit
  <2>3. \A u \in Threads \ {t} : At(u, "npAppend")' => At(u, "npAppend") /\ th'[u] = th[u]
    BY <1>4 DEF At, HoldsPermit
  <2>4. p \notin pClosed /\ p \notin pObs
    BY <1>1 DEF IInv, OpenIsCharged
  <2>5. \A q \in pClosed' : owner'[q] # None
    BY <1>1, <1>6, <2>4 DEF IInv, OpenIsCharged, TypeOK
  <2>6. \A q \in pObs' : owner'[q] # None /\ q \notin pClosed'
    BY <1>1, <1>6, <2>4 DEF IInv, OpenIsCharged, TypeOK
  <2>7. \A u \in Threads : At(u, "npAppend")' => th'[u].page \notin pClosed'
    <3>1. \A u \in Threads \ {t} : At(u, "npAppend")' => th'[u].page \notin pClosed
      BY <2>3 DEF IInv, OpenIsCharged
    <3>2. pClosed' = pClosed
      BY <1>1
    <3> QED
      BY <1>3, <2>4, <3>1, <3>2
  <2>8. \A q \in OpenPages' :
            q \in pObs' \/ \E u \in Threads : At(u, "npAppend")' /\ th'[u].page = q
    BY <1>1, <1>3, <2>1, <2>2 DEF IInv, OpenIsCharged
  <2> QED
    BY <2>5, <2>6, <2>7, <2>8 DEF OpenIsCharged
<1> QED
  BY <1>1, <1>2, <1>5, <1>6, <1>7, <1>8 DEF TakesPermit

LEMMA AppendKeepsPermits ==
    ASSUME NEW t \in Threads, IInv, NewPageAppend(t)
    PROVE  KeepsPermits /\ OneHolder' /\ OpenIsCharged'
<1> DEFINE p == th[t].page
<1>1. /\ At(t, "npAppend") /\ HoldsPermit(t) /\ ~HoldsPermit(t)'
      /\ p \in Pages \ pObs /\ owner[p] # None
      /\ pObs' = pObs \cup {p}
      /\ UNCHANGED <<owner, pClosed, pageCount>>
  BY DEF NewPageAppend, HoldsPermit, At, Return, Idle, IInv, TypeOK, OneHolder
<1>2. \A u \in Threads \ {t} : th'[u] = th[u] /\ (HoldsPermit(u)' <=> HoldsPermit(u))
  BY DEF NewPageAppend, HoldsPermit, Return, IInv, TypeOK
<1>3. KeepsPermits
  BY <1>1, <1>2 DEF KeepsPermits, Charged
<1>4. OneHolder'
  BY <1>1, <1>2 DEF IInv, OneHolder
<1>5. OpenIsCharged'
  <2>1. OpenPages' = OpenPages
    BY <1>1 DEF OpenPages
  <2>2. p \notin pClosed
    BY <1>1 DEF IInv, OpenIsCharged
  <2> QED
    BY <1>1, <1>2, <2>1, <2>2 DEF IInv, OpenIsCharged, At, HoldsPermit
<1> QED
  BY <1>3, <1>4, <1>5

LEMMA ReleaseGivesPermitBack ==
    ASSUME NEW t \in Threads, IInv, ReleasePage(t)
    PROVE  GivesPermitBack(th[t].page) /\ OneHolder' /\ OpenIsCharged'
<1> DEFINE p == th[t].page
<1>1. /\ HoldsPermit(t) /\ ~HoldsPermit(t)' /\ ~At(t, "npAppend") /\ ~At(t, "npAppend")'
      /\ pageCount' = pageCount - 1
      /\ UNCHANGED <<owner, pClosed, pObs>>
  BY DEF ReleasePage, HoldsPermit, At, Goto, IInv, TypeOK, pageVars
<1>2. p \in Pages \ pObs /\ owner[p] # None
  BY <1>1 DEF IInv, OneHolder
<1>3. \A u \in Threads \ {t} : th'[u] = th[u]
  BY DEF ReleasePage, Goto, IInv, TypeOK
<1>4. \A u \in Threads \ {t} : (HoldsPermit(u)' <=> HoldsPermit(u))
                                /\ (At(u, "npAppend")' <=> At(u, "npAppend"))
  BY <1>3 DEF HoldsPermit, At
<1>5. \A u \in Threads \ {t} : HoldsPermit(u) => th[u].page # p
  BY <1>1 DEF IInv, OneHolder
<1>6. Charged' = Charged \ {p}
  BY <1>1, <1>2, <1>3, <1>4, <1>5 DEF Charged
<1>7. p \in Charged
  BY <1>1, <1>2 DEF Charged
<1>8. OneHolder'
  BY <1>1, <1>3, <1>4 DEF IInv, OneHolder
<1>9. OpenIsCharged'
  <2>1. OpenPages' = OpenPages
    BY <1>1 DEF OpenPages
  <2> QED
    BY <1>1, <1>3, <1>4, <2>1 DEF IInv, OpenIsCharged
<1> QED
  BY <1>1, <1>2, <1>6, <1>7, <1>8, <1>9 DEF GivesPermitBack

(* Closing a page hands its permit from the observer to the closer. *)
LEMMA ClosingKeepsPermits ==
    ASSUME NEW t \in Threads, NEW p \in Pages, IInv,
           ClosePage(t, p) \/ (ClosingNext(t, p) /\ p \notin pClosed)
    PROVE  KeepsPermits /\ OneHolder' /\ OpenIsCharged'
<1>1. /\ ~HoldsPermit(t) /\ HoldsPermit(t)' /\ ~At(t, "npAppend") /\ ~At(t, "npAppend")'
      /\ th'[t].page = p
      /\ p \in pObs
      /\ pObs' = pObs \ {p}
      /\ pClosed' = pClosed \cup {p}
      /\ UNCHANGED <<owner, pageCount>>
  BY DEF ClosePage, ClosingNext, MarkPageClosed, HoldsPermit, At, IInv, TypeOK, Activities, Listed
<1>2. \A u \in Threads \ {t} : th'[u] = th[u]
  BY DEF ClosePage, ClosingNext, IInv, TypeOK
<1>3. \A u \in Threads \ {t} : (HoldsPermit(u)' <=> HoldsPermit(u))
                                /\ (At(u, "npAppend")' <=> At(u, "npAppend"))
  BY <1>2 DEF HoldsPermit, At
<1>4. \A u \in Threads \ {t} : HoldsPermit(u) => th[u].page # p
  BY <1>1 DEF IInv, OneHolder
<1>5. owner[p] # None /\ p \notin pClosed
  BY <1>1 DEF IInv, OpenIsCharged
<1>6. KeepsPermits
  BY <1>1, <1>2, <1>3, <1>4 DEF KeepsPermits, Charged
<1>7. OneHolder'
  <2>1. \A u \in Threads \ {t} : HoldsPermit(u)' =>
            th'[u].page \in Pages \ pObs' /\ owner'[th'[u].page] # None
            /\ th'[u].page # p
    BY <1>1, <1>2, <1>3, <1>4 DEF IInv, OneHolder
  <2>2. \A u, v \in Threads \ {t} :
            HoldsPermit(u)' /\ HoldsPermit(v)' /\ th'[u].page = th'[v].page => u = v
    BY <1>2, <1>3 DEF IInv, OneHolder
  <2>3. p \in Pages \ pObs' /\ owner'[p] # None
    BY <1>1, <1>5
  <2> QED
    BY <1>1, <2>1, <2>2, <2>3 DEF OneHolder
<1>8. OpenIsCharged'
  <2>1. OpenPages' = OpenPages \ {p}
    BY <1>1 DEF OpenPages
  <2>2. \A u \in Threads : At(u, "npAppend")' => th'[u].page \notin pClosed'
    <3>1. \A u \in Threads \ {t} : At(u, "npAppend")' => HoldsPermit(u) /\ At(u, "npAppend")
      BY <1>3 DEF At, HoldsPermit
    <3>2. \A u \in Threads \ {t} :
              At(u, "npAppend")' => th'[u].page # p /\ th'[u].page \notin pClosed
      BY <1>2, <1>4, <3>1 DEF IInv, OpenIsCharged
    <3>3. pClosed' = pClosed \cup {p}
      BY <1>1
    <3> QED
      BY <1>1, <3>2, <3>3
  <2>3. \A q \in OpenPages' :
            q \in pObs' \/ \E u \in Threads : At(u, "npAppend")' /\ th'[u].page = q
    BY <1>1, <1>2, <1>3, <2>1 DEF IInv, OpenIsCharged
  <2>4. \A q \in pObs' : owner'[q] # None /\ q \notin pClosed'
    BY <1>1 DEF IInv, OpenIsCharged
  <2>5. \A q \in pClosed' : owner'[q] # None
    BY <1>1, <1>5 DEF IInv, OpenIsCharged
  <2> QED
    BY <2>2, <2>3, <2>4, <2>5 DEF OpenIsCharged
<1> QED
  BY <1>6, <1>7, <1>8

-----------------------------------------------------------------------------
(* Types, and what the steps of a call rely on. *)

LEMMA SetPc ==
    ASSUME NEW r \in Activities, NEW pc \in PCs
    PROVE  [r EXCEPT !.pc = pc] \in Activities
BY DEF Activities

LEMMA SetCtx ==
    ASSUME NEW r \in Activities, NEW pc \in PCs, NEW c \in Contexts
    PROVE  [r EXCEPT !.pc = pc, !.ctx = c] \in Activities
BY DEF Activities

LEMMA SetPage ==
    ASSUME NEW r \in Activities, NEW pc \in PCs, NEW p \in Pages \cup {None}
    PROVE  [r EXCEPT !.pc = pc, !.page = p] \in Activities
BY DEF Activities

LEMMA SetOpPage ==
    ASSUME NEW r \in Activities, NEW pc \in PCs, NEW op \in Ops, NEW p \in Pages
    PROVE  [r EXCEPT !.pc = pc, !.op = op, !.page = p] \in Activities
BY DEF Activities

LEMMA SetCtxs ==
    ASSUME NEW r \in Activities, NEW pc \in PCs, NEW op \in Ops, NEW cs \in SUBSET Contexts
    PROVE  [r EXCEPT !.pc = pc, !.op = op, !.ctxs = cs] \in Activities
BY DEF Activities

LEMMA SetCur ==
    ASSUME NEW r \in Activities, NEW pc \in PCs, NEW n \in Nat
    PROVE  [r EXCEPT !.pc = pc, !.cur = n] \in Activities
BY DEF Activities

LEMMA SetTodo ==
    ASSUME NEW r \in Activities, NEW ps \in SUBSET Pages
    PROVE  [r EXCEPT !.todo = ps] \in Activities
BY DEF Activities

LEMMA IdleIsActivity == Idle \in Activities
BY DEF Idle, Activities, PCs, Ops

LEMMA ThreadUpdate ==
    ASSUME th \in [Threads -> Activities], NEW t \in Threads, NEW r \in Activities,
           th' = [th EXCEPT ![t] = r]
    PROVE  th' \in [Threads -> Activities]
OBVIOUS

(* What a goroutine remembers stays well typed. *)
LEMMA StepKeepsThreads ==
    ASSUME NEW t \in Threads, Call(t) \/ Resume(t), TypeOK, InCall
    PROVE  th' \in [Threads -> Activities]
<1>0. th \in [Threads -> Activities] /\ th[t] \in Activities
  BY DEF TypeOK
<1>b. /\ pageCount \in Nat
      /\ bContexts \subseteq Contexts
      /\ \A c \in Contexts : cPages[c] \subseteq Pages
  BY DEF TypeOK
<1>a. /\ "idle" \in PCs /\ "newContext" \in PCs /\ "npCheck" \in PCs /\ "npLoad" \in PCs
      /\ "npCas" \in PCs /\ "npAppend" \in PCs /\ "closing" \in PCs /\ "release" \in PCs
      /\ "remove" \in PCs /\ "closeContexts" \in PCs /\ "unlink" \in PCs
      /\ "none" \in Ops /\ "page" \in Ops /\ "context" \in Ops /\ "browser" \in Ops
  BY DEF PCs, Ops
<1> USE DEF Goto, Return
<1>1. ASSUME NEW c \in Contexts, NewContextCheck(t, c)
      PROVE  th' \in [Threads -> Activities]
  BY <1>1, <1>0, <1>a DEF NewContextCheck, Activities
<1>2. ASSUME NEW c \in Contexts, NewPageLock(t, c)
      PROVE  th' \in [Threads -> Activities]
  <2> DEFINE r == [th[t] EXCEPT !.pc = "npCheck", !.ctx = c]
  <2>1. r \in Activities
    BY <1>0, <1>a, SetCtx
  <2>2. th' = [th EXCEPT ![t] = r]
    BY <1>2, <1>0 DEF NewPageLock
  <2> QED
    BY <1>0, <2>1, <2>2, ThreadUpdate
<1>3. ASSUME NEW c \in Contexts, CloseContext(t, c)
      PROVE  th' \in [Threads -> Activities]
  BY <1>3, <1>0, <1>a, <1>b DEF CloseContext, TakePages, Activities
<1>4. ASSUME NEW c \in Contexts, CloseNextContext(t, c)
      PROVE  th' \in [Threads -> Activities]
  BY <1>4, <1>0, <1>a, <1>b DEF CloseNextContext, TakePages, Activities
<1>5. CASE NewContextAppend(t)
  <2>1. th' = [th EXCEPT ![t] = Idle]
    BY <1>5 DEF NewContextAppend
  <2> QED
    BY <1>0, <2>1, IdleIsActivity, ThreadUpdate
<1>6. CASE NewPageCheckBrowser(t)
  <2>1. \/ th' = [th EXCEPT ![t] = [th[t] EXCEPT !.pc = "npLoad"]]
        \/ th' = [th EXCEPT ![t] = Idle]
    BY <1>6, <1>0 DEF NewPageCheckBrowser
  <2> QED
    BY <1>0, <1>a, <2>1, SetPc, IdleIsActivity, ThreadUpdate
<1>7. CASE AcquireLoad(t)
  <2>1. \/ th' = [th EXCEPT ![t] = [th[t] EXCEPT !.pc = "npCas", !.cur = pageCount]]
        \/ th' = [th EXCEPT ![t] = Idle]
    BY <1>7, <1>0 DEF AcquireLoad
  <2>2. [th[t] EXCEPT !.pc = "npCas", !.cur = pageCount] \in Activities
    BY <1>0, <1>a, <1>b, SetCur
  <2> QED
    BY <1>0, <2>1, <2>2, IdleIsActivity, ThreadUpdate
<1>8. CASE AcquireRetry(t)
  <2>1. th' = [th EXCEPT ![t] = [th[t] EXCEPT !.pc = "npLoad"]]
    BY <1>8, <1>0 DEF AcquireRetry
  <2> QED
    BY <1>0, <1>a, <2>1, SetPc, ThreadUpdate
<1>9. CASE RemovePage(t)
  <2> DEFINE r == [th[t] EXCEPT !.pc = "closing", !.page = None]
  <2>1. r \in Activities
    BY <1>0, <1>a, SetPage
  <2>2. th' = [th EXCEPT ![t] = r]
    BY <1>9, <1>0 DEF RemovePage
  <2> QED
    BY <1>0, <2>1, <2>2, ThreadUpdate
<1>10. CASE ClosingDone(t)
  <2>1. \/ th' = [th EXCEPT ![t] = [th[t] EXCEPT !.pc = "unlink"]]
        \/ th' = [th EXCEPT ![t] = [th[t] EXCEPT !.pc = "closeContexts"]]
        \/ th' = [th EXCEPT ![t] = Idle]
    BY <1>10, <1>0 DEF ClosingDone
  <2> QED
    BY <1>0, <1>a, <2>1, SetPc, IdleIsActivity, ThreadUpdate
<1>11. CASE UnlinkContext(t)
  <2>1. th' = [th EXCEPT ![t] = Idle]
    BY <1>11 DEF UnlinkContext
  <2> QED
    BY <1>0, <2>1, IdleIsActivity, ThreadUpdate
<1>12. CASE CloseBrowser(t)
  <2> DEFINE r == [th[t] EXCEPT !.pc = "closeContexts", !.op = "browser", !.ctxs = bContexts]
  <2>1. r \in Activities
    BY <1>0, <1>a, <1>b, SetCtxs
  <2>2. th' = [th EXCEPT ![t] = r]
    BY <1>12, <1>0 DEF CloseBrowser
  <2> QED
    BY <1>0, <2>1, <2>2, ThreadUpdate
<1>13. CASE CloseBrowserReturn(t)
  <2>1. th' = [th EXCEPT ![t] = Idle]
    BY <1>13 DEF CloseBrowserReturn
  <2> QED
    BY <1>0, <2>1, IdleIsActivity, ThreadUpdate
<1>14. ASSUME NEW p \in Pages, ClosingNext(t, p)
       PROVE  th' \in [Threads -> Activities]
  BY <1>14, <1>0, <1>a DEF ClosingNext, MarkPageClosed, Activities
<1>15. ASSUME NEW p \in Pages, ClosePage(t, p)
       PROVE  th' \in [Threads -> Activities]
  <2> DEFINE r == [th[t] EXCEPT !.pc = "release", !.op = "page", !.page = p]
  <2>1. r \in Activities
    BY <1>0, <1>a, SetOpPage
  <2>2. th' = [th EXCEPT ![t] = r]
    BY <1>15, <1>0 DEF ClosePage
  <2> QED
    BY <1>0, <2>1, <2>2, ThreadUpdate
<1>16. ASSUME NEW p \in Pages, AcquireUnlimited(t, p)
       PROVE  th' \in [Threads -> Activities]
  <2> DEFINE r == [th[t] EXCEPT !.pc = "npAppend", !.page = p]
  <2>1. r \in Activities
    BY <1>0, <1>a, SetPage
  <2>2. th' = [th EXCEPT ![t] = r]
    BY <1>16, <1>0 DEF AcquireUnlimited, MakePage
  <2> QED
    BY <1>0, <2>1, <2>2, ThreadUpdate
<1>17. ASSUME NEW p \in Pages, AcquireSwap(t, p)
       PROVE  th' \in [Threads -> Activities]
  <2> DEFINE r == [th[t] EXCEPT !.pc = "npAppend", !.page = p]
  <2>1. r \in Activities
    BY <1>0, <1>a, SetPage
  <2>2. th' = [th EXCEPT ![t] = r]
    BY <1>17, <1>0 DEF AcquireSwap, MakePage
  <2> QED
    BY <1>0, <2>1, <2>2, ThreadUpdate
<1>18. CASE NewPageAppend(t)
  <2>1. th' = [th EXCEPT ![t] = Idle]
    BY <1>18 DEF NewPageAppend
  <2> QED
    BY <1>0, <2>1, IdleIsActivity, ThreadUpdate
<1>19. CASE ReleasePage(t)
  <2>1. th' = [th EXCEPT ![t] = [th[t] EXCEPT !.pc = "remove"]]
    BY <1>19, <1>0 DEF ReleasePage
  <2> QED
    BY <1>0, <1>a, <2>1, SetPc, ThreadUpdate
<1>20. CASE Refused(t)
  BY <1>20, <1>0, <1>a DEF Refused, vars, Activities
<1> QED
  BY <1>1, <1>2, <1>3, <1>4, <1>5, <1>6, <1>7, <1>8, <1>9, <1>10, <1>11, <1>12, <1>13,
     <1>14, <1>15, <1>16, <1>17, <1>18, <1>19, <1>20 DEF Call, Resume

LEMMA StepKeepsTypes ==
    ASSUME NEW t \in Threads, Call(t) \/ Resume(t), TypeOK, InCall, OneHolder,
           pageCount' \in Nat
    PROVE  TypeOK'
<1>0. th' \in [Threads -> Activities]
  BY StepKeepsThreads
<1> USE <1>0 DEF TypeOK, Unlock, browserVars, contextVars, pageVars
<1>1. ASSUME NEW c \in Contexts, NewContextCheck(t, c)
      PROVE  TypeOK'
  BY <1>1 DEF NewContextCheck
<1>2. ASSUME NEW c \in Contexts, NewPageLock(t, c)
      PROVE  TypeOK'
  BY <1>2 DEF NewPageLock
<1>3. ASSUME NEW c \in Contexts, CloseContext(t, c)
      PROVE  TypeOK'
  BY <1>3 DEF CloseContext, TakePages
<1>4. ASSUME NEW c \in Contexts, CloseNextContext(t, c)
      PROVE  TypeOK'
  BY <1>4 DEF CloseNextContext, TakePages
<1>5. CASE NewContextAppend(t)
  <2>1. th[t].ctx \in Contexts
    BY <1>5 DEF NewContextAppend, InCall, Consistent, At
  <2> QED
    BY <1>5, <2>1 DEF NewContextAppend
<1>6. CASE NewPageCheckBrowser(t)
  BY <1>6 DEF NewPageCheckBrowser
<1>7. CASE AcquireLoad(t)
  BY <1>7 DEF AcquireLoad
<1>8. CASE AcquireRetry(t)
  BY <1>8 DEF AcquireRetry
<1>9. CASE RemovePage(t)
  BY <1>9 DEF RemovePage
<1>10. CASE ClosingDone(t)
  BY <1>10 DEF ClosingDone
<1>11. CASE UnlinkContext(t)
  BY <1>11 DEF UnlinkContext
<1>12. CASE CloseBrowser(t)
  BY <1>12 DEF CloseBrowser
<1>13. CASE CloseBrowserReturn(t)
  BY <1>13 DEF CloseBrowserReturn
<1>14. ASSUME NEW p \in Pages, ClosingNext(t, p)
       PROVE  TypeOK'
  BY <1>14 DEF ClosingNext, MarkPageClosed
<1>15. ASSUME NEW p \in Pages, ClosePage(t, p)
       PROVE  TypeOK'
  BY <1>15 DEF ClosePage, MarkPageClosed
<1>16. ASSUME NEW p \in Pages, AcquireUnlimited(t, p)
       PROVE  TypeOK'
  <2>1. owner' = [owner EXCEPT ![p] = th[t].ctx] /\ th[t].ctx \in Contexts \cup {None}
    BY <1>16 DEF AcquireUnlimited, MakePage, Activities
  <2> QED
    BY <1>16, <2>1 DEF AcquireUnlimited
<1>17. ASSUME NEW p \in Pages, AcquireSwap(t, p)
       PROVE  TypeOK'
  <2>1. owner' = [owner EXCEPT ![p] = th[t].ctx] /\ th[t].ctx \in Contexts \cup {None}
    BY <1>17 DEF AcquireSwap, MakePage, Activities
  <2> QED
    BY <1>17, <2>1 DEF AcquireSwap
<1>18. CASE NewPageAppend(t)
  <2>1. th[t].page \in Pages
    BY <1>18 DEF NewPageAppend, OneHolder, HoldsPermit, At
  <2> QED
    BY <1>18, <2>1 DEF NewPageAppend
<1>19. CASE ReleasePage(t)
  BY <1>19 DEF ReleasePage
<1>20. CASE Refused(t)
  BY <1>20 DEF Refused, vars
<1> QED
  BY <1>1, <1>2, <1>3, <1>4, <1>5, <1>6, <1>7, <1>8, <1>9, <1>10, <1>11, <1>12, <1>13,
     <1>14, <1>15, <1>16, <1>17, <1>18, <1>19, <1>20 DEF Call, Resume

LEMMA StepKeepsInCall ==
    ASSUME NEW t \in Threads, Call(t) \/ Resume(t), IInv, TypeOK'
    PROVE  InCall'
<1>1. \A u \in Threads \ {t} : th'[u] = th[u]
  <2>1. CASE QuietStep(t)
    BY <2>1, QuietStepIsQuiet DEF Quiet, IInv
  <2>2. CASE UNCHANGED vars
    BY <2>2 DEF vars
  <2>3. ASSUME NEW p \in Pages, AcquireUnlimited(t, p) \/ AcquireSwap(t, p)
        PROVE  \A u \in Threads \ {t} : th'[u] = th[u]
    BY <2>3 DEF IInv, TypeOK, AcquireUnlimited, AcquireSwap, MakePage
  <2>4. CASE NewPageAppend(t) \/ ReleasePage(t)
    BY <2>4 DEF IInv, TypeOK, NewPageAppend, ReleasePage, Return, Goto
  <2>5. ASSUME NEW p \in Pages, ClosePage(t, p) \/ ClosingNext(t, p)
        PROVE  \A u \in Threads \ {t} : th'[u] = th[u]
    BY <2>5 DEF IInv, TypeOK, ClosePage, ClosingNext
  <2> QED
    BY <2>1, <2>2, <2>3, <2>4, <2>5, StepKinds
<1>2. Consistent(th'[t])
  <2> USE DEF IInv, TypeOK, Activities, InCall, Consistent, At, Goto, Return, Idle
  <2>1. ASSUME NEW c \in Contexts,
               NewContextCheck(t, c) \/ NewPageLock(t, c) \/ CloseContext(t, c)
               \/ CloseNextContext(t, c)
        PROVE  Consistent(th'[t])
    BY <2>1 DEF NewContextCheck, NewPageLock, CloseContext, CloseNextContext, TakePages
  <2>2. CASE NewPageCheckBrowser(t) \/ AcquireLoad(t) \/ AcquireRetry(t)
    BY <2>2, MaxPagesIsNat DEF NewPageCheckBrowser, AcquireLoad, AcquireRetry
  <2>3. ASSUME NEW p \in Pages, AcquireUnlimited(t, p) \/ AcquireSwap(t, p)
        PROVE  Consistent(th'[t])
    BY <2>3 DEF AcquireUnlimited, AcquireSwap, MakePage
  <2>4. ASSUME NEW p \in Pages, ClosePage(t, p) \/ ClosingNext(t, p)
        PROVE  Consistent(th'[t])
    BY <2>4 DEF ClosePage, ClosingNext
  <2>5. CASE NewContextAppend(t) \/ NewPageAppend(t) \/ ReleasePage(t) \/ RemovePage(t)
             \/ ClosingDone(t) \/ UnlinkContext(t) \/ CloseBrowser(t) \/ CloseBrowserReturn(t)
             \/ Refused(t)
    BY <2>5 DEF NewContextAppend, NewPageAppend, ReleasePage, RemovePage, ClosingDone,
                UnlinkContext, CloseBrowser, CloseBrowserReturn, Refused, vars
  <2> QED
    BY <2>1, <2>2, <2>3, <2>4, <2>5 DEF Call, Resume
<1> QED
  BY <1>1, <1>2 DEF IInv, InCall, Consistent

LEMMA StepKeepsListed ==
    ASSUME NEW t \in Threads, Call(t) \/ Resume(t), IInv
    PROVE  Listed'
<1> USE DEF IInv, Listed, TypeOK, Activities, At, Goto, Return, Idle,
            browserVars, contextVars, pageVars
<1>1. ASSUME NEW c \in Contexts, CloseContext(t, c) \/ CloseNextContext(t, c)
      PROVE  Listed'
  <2>1. UNCHANGED <<pObs, pClosed>>
    BY <1>1 DEF CloseContext, CloseNextContext
  <2>2. cPages' = cPages \/ cPages' = [cPages EXCEPT ![c] = {}]
    BY <1>1 DEF CloseContext, CloseNextContext, TakePages
  <2>3. th'[t].todo = th[t].todo \/ th'[t].todo = cPages[c]
    BY <1>1 DEF CloseContext, CloseNextContext, TakePages
  <2>4. \A u \in Threads \ {t} : th'[u] = th[u]
    BY <1>1 DEF CloseContext, CloseNextContext, TakePages
  <2> QED
    BY <2>1, <2>2, <2>3, <2>4
<1>2. ASSUME NEW c \in Contexts, NewContextCheck(t, c) \/ NewPageLock(t, c)
      PROVE  Listed'
  BY <1>2, SMTT(30) DEF NewContextCheck, NewPageLock
<1>3. CASE NewPageCheckBrowser(t) \/ AcquireLoad(t) \/ AcquireRetry(t) \/ ClosingDone(t)
  BY <1>3 DEF NewPageCheckBrowser, AcquireLoad, AcquireRetry, ClosingDone
<1>4. ASSUME NEW p \in Pages, AcquireUnlimited(t, p) \/ AcquireSwap(t, p)
      PROVE  Listed'
  BY <1>4 DEF AcquireUnlimited, AcquireSwap, MakePage
<1>5. ASSUME NEW p \in Pages, ClosePage(t, p) \/ ClosingNext(t, p)
      PROVE  Listed'
  BY <1>5, SMTT(30) DEF ClosePage, ClosingNext, MarkPageClosed
<1>6. CASE NewContextAppend(t) \/ ReleasePage(t) \/ UnlinkContext(t) \/ CloseBrowser(t)
           \/ CloseBrowserReturn(t) \/ Refused(t)
  BY <1>6 DEF NewContextAppend, ReleasePage, UnlinkContext, CloseBrowser, CloseBrowserReturn,
              Refused, vars
<1>7. CASE NewPageAppend(t)
  BY <1>7 DEF NewPageAppend
<1>8. CASE RemovePage(t)
  BY <1>8 DEF RemovePage
<1> QED
  BY <1>1, <1>2, <1>3, <1>4, <1>5, <1>6, <1>7, <1>8 DEF Call, Resume

-----------------------------------------------------------------------------
(* Every step treats the permits in one of the three ways, and the count   *)
(* follows.                                                                *)
LEMMA PermitStep ==
    ASSUME NEW t \in Threads, Call(t) \/ Resume(t), IInv
    PROVE  /\ OneHolder' /\ OpenIsCharged'
           /\ KeepsPermits \/ \E p \in Pages : TakesPermit(p) \/ GivesPermitBack(p)
<1>1. CASE QuietStep(t)
  BY <1>1, QuietStepIsQuiet, QuietKeepsPermits DEF IInv
<1>2. CASE UNCHANGED vars
  BY <1>2 DEF IInv, vars, OneHolder, OpenIsCharged, OpenPages, KeepsPermits, Charged,
              HoldsPermit, At
<1>3. ASSUME NEW p \in Pages, AcquireUnlimited(t, p) \/ AcquireSwap(t, p)
      PROVE  TakesPermit(p) /\ OneHolder' /\ OpenIsCharged'
  BY <1>3, MakePageTakesPermit
<1>4. CASE NewPageAppend(t)
  BY <1>4, AppendKeepsPermits
<1>5. CASE ReleasePage(t)
  BY <1>5, ReleaseGivesPermitBack DEF GivesPermitBack
<1>6. ASSUME NEW p \in Pages, ClosePage(t, p) \/ (ClosingNext(t, p) /\ p \notin pClosed)
      PROVE  KeepsPermits /\ OneHolder' /\ OpenIsCharged'
  BY <1>6, ClosingKeepsPermits
<1> QED
  BY <1>1, <1>2, <1>3, <1>4, <1>5, <1>6, StepKinds

LEMMA PermitStepCounts ==
    ASSUME Counted, pageCount \in Nat,
           KeepsPermits \/ \E p \in Pages : TakesPermit(p) \/ GivesPermitBack(p)
    PROVE  Counted' /\ pageCount' \in Nat
<1> USE DEF Counted, CountExact
<1>1. CASE KeepsPermits
  BY <1>1 DEF KeepsPermits
<1>2. ASSUME NEW p \in Pages, TakesPermit(p)
      PROVE  Counted' /\ pageCount' \in Nat
  <2>1. IsFiniteSet(Charged') /\ Cardinality(Charged') = Cardinality(Charged) + 1
    BY <1>2, FS_AddElement DEF TakesPermit
  <2> QED
    BY <1>2, <2>1, MaxPagesIsNat DEF TakesPermit
<1>3. ASSUME NEW p \in Pages, GivesPermitBack(p)
      PROVE  Counted' /\ pageCount' \in Nat
  <2>1. IsFiniteSet(Charged') /\ Cardinality(Charged') = Cardinality(Charged) - 1
    BY <1>3, FS_RemoveElement DEF GivesPermitBack
  <2>2. Cardinality(Charged') \in Nat
    BY <2>1, FS_CardinalityType
  <2> QED
    BY <1>3, <2>1, <2>2, MaxPagesIsNat DEF GivesPermitBack
<1> QED
  BY <1>1, <1>2, <1>3

-----------------------------------------------------------------------------
LEMMA InitInvariant == Init => IInv
<1> SUFFICES ASSUME Init PROVE IInv
  OBVIOUS
<1> USE DEF Init, Idle
<1>1. TypeOK
  BY DefaultIsContext DEF TypeOK, Activities, PCs, Ops
<1>2. \A t \in Threads : ~HoldsPermit(t) /\ ~At(t, "npAppend")
  BY DEF HoldsPermit, At
<1>3. Charged = {}
  BY <1>2 DEF Charged
<1>4. OneHolder /\ OpenIsCharged
  BY <1>2 DEF OneHolder, OpenIsCharged, OpenPages
<1>5. InCall /\ Listed
  BY DEF InCall, Consistent, Listed
<1>6. Counted
  BY <1>3, FS_EmptySet, MaxPagesIsNat DEF Counted, CountExact
<1> QED
  BY <1>1, <1>4, <1>5, <1>6 DEF IInv

LEMMA StepInvariant == IInv /\ [Next]_vars => IInv'
<1> SUFFICES ASSUME IInv, [Next]_vars PROVE IInv'
  OBVIOUS
<1>1. ASSUME NEW t \in Threads, Call(t) \/ Resume(t)
      PROVE  IInv'
  <2>1. /\ OneHolder' /\ OpenIsCharged'
        /\ KeepsPermits \/ \E p \in Pages : TakesPermit(p) \/ GivesPermitBack(p)
    BY <1>1, PermitStep
  <2>2. Counted' /\ pageCount' \in Nat
    BY <2>1, PermitStepCounts DEF IInv, TypeOK
  <2>3. TypeOK'
    BY <1>1, <2>2, StepKeepsThreads, StepKeepsTypes DEF IInv
  <2>4. InCall' /\ Listed'
    BY <1>1, <2>3, StepKeepsInCall, StepKeepsListed
  <2> QED
    BY <2>1, <2>2, <2>3, <2>4 DEF IInv
<1>2. CASE UNCHANGED vars
  BY <1>2 DEF IInv, vars, TypeOK, OneHolder, OpenIsCharged, OpenPages, InCall, Consistent,
              Listed, Counted, CountExact, Charged, HoldsPermit, At
<1> QED
  BY <1>1, <1>2 DEF Next

THEOREM Invariance == Spec => []IInv
BY InitInvariant, StepInvariant, PTL DEF Spec

(* Every variable has its type; in particular the counter never becomes    *)
(* negative, whoever closes what.                                          *)
THEOREM TypeCorrect == Spec => []TypeOK
<1>1. IInv => TypeOK
  BY DEF IInv
<1> QED
  BY <1>1, Invariance, PTL

(* The counter is the number of permits that are out.                      *)
THEOREM CountIsExact == Spec => []CountExact
<1>1. IInv => CountExact
  BY DEF IInv, Counted
<1> QED
  BY <1>1, Invariance, PTL

(* No more than MaxPages pages are open at any time, over all contexts.    *)
THEOREM LimitHolds == Spec => []PageLimit
<1>1. IInv => PageLimit
  <2> SUFFICES ASSUME IInv, MaxPages > 0 PROVE Cardinality(OpenPages) <= MaxPages
    BY DEF PageLimit
  <2>1. OpenPages \subseteq Charged
    BY DEF IInv, OpenIsCharged, OpenPages, Charged, HoldsPermit, At
  <2>2. IsFiniteSet(OpenPages) /\ Cardinality(OpenPages) <= Cardinality(Charged)
    BY <2>1, FS_Subset DEF IInv, Counted
  <2>3. Cardinality(OpenPages) \in Nat
    BY <2>2, FS_CardinalityType
  <2> QED
    BY <2>2, <2>3, MaxPagesIsNat DEF IInv, Counted, CountExact, TypeOK
<1> QED
  BY <1>1, Invariance, PTL

(* The browser implements the abstract pool of permits.                    *)
THEOREM PoolIsImplemented == Spec => ImplementsPagePool
<1>1. Init => Pool!Init
  <2> SUFFICES ASSUME Init PROVE Charged = {} /\ Refunded = {}
    BY DEF Pool!Init
  <2> QED
    BY DEF Init, Idle, Charged, HoldsPermit, Refunded
<1>2. IInv /\ [Next]_vars => [Pool!Next]_<<Charged, Refunded>>
  <2> SUFFICES ASSUME IInv, [Next]_vars
               PROVE  [Pool!Next]_<<Charged, Refunded>>
    OBVIOUS
  <2>1. CASE KeepsPermits
    BY <2>1 DEF KeepsPermits, Refunded
  <2>2. ASSUME NEW p \in Pages, TakesPermit(p)
        PROVE  Pool!Acquire(p)
    <3>1. p \notin Refunded /\ Refunded' = Refunded
      BY <2>2 DEF TakesPermit, Refunded
    <3>2. MaxPages = 0 \/ Cardinality(Charged) < MaxPages
      BY <2>2 DEF TakesPermit, IInv, Counted, CountExact
    <3>3. Pool!HasRoom
      BY <3>2 DEF Pool!HasRoom, Pool!Cardinality, Cardinality
    <3>4. p \notin Charged \cup Refunded /\ Charged' = Charged \cup {p}
      BY <2>2, <3>1 DEF TakesPermit
    <3> QED
      BY <3>1, <3>3, <3>4 DEF Pool!Acquire
  <2>3. ASSUME NEW p \in Pages, GivesPermitBack(p)
        PROVE  Pool!Release(p)
    BY <2>3 DEF Pool!Release, GivesPermitBack, Refunded
  <2>4. CASE UNCHANGED vars
    BY <2>4 DEF vars, Charged, Refunded, HoldsPermit
  <2> QED
    BY <2>1, <2>2, <2>3, <2>4, PermitStep DEF Next, Pool!Next
<1> QED
  BY <1>1, <1>2, Invariance, PTL DEF Spec, ImplementsPagePool, Pool!Spec, Pool!poolVars

-----------------------------------------------------------------------------
(* No open page is out of reach.  What makes it inductive: NewPage keeps   *)
(* the context's lock, so the context it tested is still open when it      *)
(* appends; and only a goroutine in the middle of closing has pages to do. *)

InNewPage(t) == th[t].pc \in {"npCheck", "npLoad", "npCas", "npAppend"}

LockHeld ==
    \A t \in Threads : InNewPage(t) =>
        /\ cMu[th[t].ctx] = t
        /\ th[t].ctx \notin cClosed
        /\ At(t, "npAppend") => owner[th[t].page] = th[t].ctx

ClosersKnow ==
    \A t \in Threads :
        /\ th[t].pc \in {"release", "remove"} => th[t].page \in pClosed
        /\ th[t].todo # {} => th[t].pc \in {"closing", "release", "remove"}

SInv == LockHeld /\ ClosersKnow /\ NoStrandedPage

(* A step that neither locks nor unlocks, and neither closes a context nor *)
(* changes lists, keeps SInv if the thread's own part of it holds after.   *)
LEMMA LocalStep ==
    ASSUME NEW t \in Threads, SInv, IInv,
           UNCHANGED <<cMu, cClosed, cPages, pObs>>,
           pClosed \subseteq pClosed',
           \A p \in Pages : owner[p] # None => owner'[p] = owner[p],
           \A u \in Threads \ {t} : th'[u] = th[u],
           th'[t].todo = th[t].todo,
           InNewPage(t)' => /\ InNewPage(t) /\ th'[t].ctx = th[t].ctx
                            /\ At(t, "npAppend")' => owner'[th'[t].page] = th'[t].ctx,
           th'[t].pc \in {"release", "remove"} => th'[t].page \in pClosed',
           th'[t].todo # {} => th'[t].pc \in {"closing", "release", "remove"}
    PROVE  SInv'
<1>1. LockHeld'
  <2>1. \A u \in Threads : At(u, "npAppend") => owner'[th[u].page] = owner[th[u].page]
    BY DEF IInv, OneHolder, HoldsPermit, At
  <2> QED
    BY <2>1 DEF SInv, LockHeld, InNewPage, At
<1>2. ClosersKnow'
  BY DEF SInv, ClosersKnow
<1>3. NoStrandedPage'
  <2>1. \A p \in pObs : owner'[p] = owner[p]
    BY DEF IInv, OpenIsCharged, TypeOK
  <2> QED
    BY <2>1 DEF SInv, NoStrandedPage
<1> QED
  BY <1>1, <1>2, <1>3 DEF SInv

(* NewPage takes, keeps or gives up the lock of context c. *)
LEMMA LockStep ==
    ASSUME NEW t \in Threads, NEW c \in Contexts, SInv, IInv,
           UNCHANGED <<cClosed, cPages, pObs, pClosed, owner>>,
           \A u \in Threads \ {t} : th'[u] = th[u],
           \A d \in Contexts \ {c} : cMu'[d] = cMu[d],
           th'[t].todo = {}, th[t].todo = {},
           th'[t].pc \notin {"release", "remove", "npAppend"},
           cMu[c] \in {None, t},
           InNewPage(t) => th[t].ctx = c,
           InNewPage(t)' => th'[t].ctx = c /\ cMu'[c] = t /\ c \notin cClosed
    PROVE  SInv'
<1>1. \A u \in Threads \ {t} : InNewPage(u) => th[u].ctx \in Contexts /\ th[u].ctx # c
  BY NoneIsNone DEF SInv, LockHeld, IInv, InCall, Consistent, InNewPage
<1>2. LockHeld'
  BY <1>1 DEF SInv, LockHeld, InNewPage, At
<1>3. ClosersKnow'
  BY DEF SInv, ClosersKnow
<1>4. NoStrandedPage'
  BY DEF SInv, NoStrandedPage
<1> QED
  BY <1>2, <1>3, <1>4 DEF SInv

(* The first closer of a context takes its list. *)
LEMMA TakeStep ==
    ASSUME NEW t \in Threads, NEW c \in Contexts, NEW op \in Ops, SInv, IInv,
           th[t].pc \in {"idle", "closeContexts"}, cMu[c] = None, TakePages(t, c, op),
           UNCHANGED <<cMu, owner, pClosed, pObs>>
    PROVE  SInv'
<1>1. /\ th'[t].pc = "closing" /\ th'[t].todo = cPages[c]
      /\ \A u \in Threads \ {t} : th'[u] = th[u]
      /\ cClosed' = cClosed \cup {c}
      /\ \A d \in Contexts \ {c} : cPages'[d] = cPages[d]
  BY DEF TakePages, IInv, TypeOK, Activities
<1>2. \A u \in Threads : InNewPage(u) => th[u].ctx # c
  BY NoneIsNone DEF SInv, LockHeld
<1>3. LockHeld'
  BY <1>1, <1>2 DEF SInv, LockHeld, InNewPage, At
<1>4. ClosersKnow'
  BY <1>1 DEF SInv, ClosersKnow
<1>5. NoStrandedPage'
  <2> SUFFICES ASSUME NEW p \in pObs
               PROVE  \/ p \in cPages'[owner[p]] /\ owner[p] \notin cClosed'
                      \/ \E u \in Threads : p \in th'[u].todo
    BY DEF NoStrandedPage
  <2>1. owner[p] \in Contexts
    BY DEF IInv, TypeOK, OpenIsCharged
  <2>2. th[t].todo = {}
    BY DEF SInv, ClosersKnow
  <2>3. CASE \E u \in Threads : p \in th[u].todo
    BY <1>1, <2>2, <2>3
  <2>4. CASE p \in cPages[owner[p]] /\ owner[p] \notin cClosed
    BY <1>1, <2>1, <2>4
  <2> QED
    BY <2>3, <2>4 DEF SInv, NoStrandedPage
<1> QED
  BY <1>3, <1>4, <1>5 DEF SInv

(* NewPage publishes its page, while it still holds the lock. *)
LEMMA AppendStep ==
    ASSUME NEW t \in Threads, SInv, IInv, NewPageAppend(t)
    PROVE  SInv'
<1> DEFINE c == th[t].ctx
           p == th[t].page
<1>1. /\ At(t, "npAppend") /\ c \in Contexts /\ p \in Pages \ pObs
      /\ cMu[c] = t /\ c \notin cClosed /\ owner[p] = c
  BY DEF NewPageAppend, SInv, LockHeld, InNewPage, At, IInv, InCall, Consistent, OneHolder,
         HoldsPermit
<1>2. /\ pObs' = pObs \cup {p}
      /\ cPages'[c] = cPages[c] \cup {p}
      /\ \A d \in Contexts \ {c} : cPages'[d] = cPages[d]
      /\ \A d \in Contexts \ {c} : cMu'[d] = cMu[d]
      /\ th'[t] = Idle
      /\ \A u \in Threads \ {t} : th'[u] = th[u]
      /\ UNCHANGED <<owner, pClosed, cClosed>>
  BY <1>1 DEF NewPageAppend, Return, Unlock, IInv, TypeOK
<1>3. th[t].todo = {}
  BY <1>1 DEF SInv, ClosersKnow, At
<1>4. \A u \in Threads \ {t} : InNewPage(u) => th[u].ctx \in Contexts /\ th[u].ctx # c
  BY <1>1 DEF SInv, LockHeld, IInv, InCall, Consistent, InNewPage
<1>5. LockHeld'
  BY <1>2, <1>4 DEF SInv, LockHeld, InNewPage, At, Idle
<1>6. ClosersKnow'
  BY <1>2 DEF SInv, ClosersKnow, Idle
<1>7. NoStrandedPage'
  <2> SUFFICES ASSUME NEW q \in pObs \cup {p}
               PROVE  \/ q \in cPages'[owner[q]] /\ owner[q] \notin cClosed
                      \/ \E u \in Threads : q \in th'[u].todo
    BY <1>2 DEF NoStrandedPage
  <2>1. CASE q = p
    BY <1>1, <1>2, <2>1
  <2>2. CASE q \in pObs
    <3>1. owner[q] \in Contexts
      BY <2>2 DEF IInv, TypeOK, OpenIsCharged
    <3>2. CASE \E u \in Threads : q \in th[u].todo
      BY <1>2, <1>3, <3>2
    <3>3. CASE q \in cPages[owner[q]] /\ owner[q] \notin cClosed
      BY <1>2, <3>1, <3>3
    <3> QED
      BY <2>2, <3>2, <3>3 DEF SInv, NoStrandedPage
  <2> QED
    BY <2>1, <2>2
<1> QED
  BY <1>5, <1>6, <1>7 DEF SInv

(* A page is closed, by its user or by a closer that has it to do. *)
LEMMA CloseStep ==
    ASSUME NEW t \in Threads, NEW p \in Pages, SInv, IInv,
           ClosePage(t, p) \/ ClosingNext(t, p)
    PROVE  SInv'
<1>1. /\ p \in pClosed' /\ p \notin pObs' /\ pObs' = pObs \ {p} /\ pClosed \subseteq pClosed'
      /\ UNCHANGED <<cMu, cClosed, cPages, owner>>
  BY DEF ClosePage, ClosingNext, MarkPageClosed, IInv, OpenIsCharged, contextVars
<1>2. /\ ~InNewPage(t) /\ ~InNewPage(t)'
      /\ th'[t].pc \in {"release", "remove"} => th'[t].page = p
      /\ th'[t].pc \in {"release", "closing"}
      /\ th'[t].todo = th[t].todo \ {p} \/ (th'[t].todo = th[t].todo /\ th[t].pc = "idle")
      /\ \A u \in Threads \ {t} : th'[u] = th[u]
  BY DEF ClosePage, ClosingNext, InNewPage, At, IInv, TypeOK, Activities
<1>3. LockHeld'
  BY <1>1, <1>2 DEF SInv, LockHeld, InNewPage, At
<1>4. ClosersKnow'
  BY <1>1, <1>2 DEF SInv, ClosersKnow
<1>5. NoStrandedPage'
  BY <1>1, <1>2 DEF SInv, NoStrandedPage, ClosersKnow
<1> QED
  BY <1>3, <1>4, <1>5 DEF SInv

(* The observer drops its page, which is closed, from the list. *)
LEMMA RemoveStep ==
    ASSUME NEW t \in Threads, SInv, IInv, RemovePage(t)
    PROVE  SInv'
<1> DEFINE p == th[t].page
<1>1. /\ p \in pClosed /\ p \notin pObs
      /\ \A d \in Contexts : cPages[d] \ {p} \subseteq cPages'[d]
      /\ UNCHANGED <<cMu, cClosed, owner, pClosed, pObs>>
  BY DEF RemovePage, SInv, ClosersKnow, At, IInv, OpenIsCharged, TypeOK, pageVars
<1>2. /\ ~InNewPage(t) /\ ~InNewPage(t)'
      /\ th'[t].pc = "closing"
      /\ th'[t].todo = th[t].todo
      /\ \A u \in Threads \ {t} : th'[u] = th[u]
  BY DEF RemovePage, InNewPage, At, IInv, TypeOK, Activities
<1>3. LockHeld'
  BY <1>1, <1>2 DEF SInv, LockHeld, InNewPage, At
<1>4. ClosersKnow'
  BY <1>1, <1>2 DEF SInv, ClosersKnow
<1>5. NoStrandedPage'
  <2>1. \A q \in pObs : owner[q] \in Contexts /\ q # p
    BY <1>1 DEF IInv, TypeOK, OpenIsCharged
  <2> QED
    BY <1>1, <1>2, <2>1 DEF SInv, NoStrandedPage
<1> QED
  BY <1>3, <1>4, <1>5 DEF SInv

LEMMA StepKeepsSInv ==
    ASSUME NEW t \in Threads, Call(t) \/ Resume(t), SInv, IInv
    PROVE  SInv'
<1> USE DEF At, Goto, Return, Idle, browserVars, contextVars, pageVars
<1>0. th \in [Threads -> Activities] /\ owner \in [Pages -> Contexts \cup {None}]
      /\ cMu \in [Contexts -> Threads \cup {None}]
  BY DEF IInv, TypeOK
<1>a. th[t].todo # {} => th[t].pc \in {"closing", "release", "remove"}
  BY DEF SInv, ClosersKnow
<1>b. InNewPage(t) => cMu[th[t].ctx] = t /\ th[t].ctx \notin cClosed /\ th[t].ctx \in Contexts
  BY DEF SInv, LockHeld, IInv, InCall, Consistent, InNewPage
<1>1. ASSUME NEW c \in Contexts, NewContextCheck(t, c)
      PROVE  SInv'
  BY <1>0, <1>a, <1>1, LocalStep DEF NewContextCheck, InNewPage, Activities
<1>2. CASE NewContextAppend(t) \/ UnlinkContext(t) \/ CloseBrowserReturn(t)
  <2>1. /\ th' = [th EXCEPT ![t] = Idle]
        /\ UNCHANGED <<cMu, cClosed, cPages, pObs, pClosed, owner>>
    BY <1>2 DEF NewContextAppend, UnlinkContext, CloseBrowserReturn
  <2>2. th[t].todo = {}
    BY <1>a, <1>2 DEF NewContextAppend, UnlinkContext, CloseBrowserReturn
  <2> QED
    BY <1>0, <2>1, <2>2, LocalStep DEF InNewPage
<1>3. ASSUME NEW c \in Contexts, NewPageLock(t, c)
      PROVE  SInv'
  BY <1>0, <1>a, <1>3, LockStep DEF NewPageLock, InNewPage, Activities
<1>4. CASE NewPageCheckBrowser(t)
  BY <1>0, <1>a, <1>b, <1>4, LockStep DEF NewPageCheckBrowser, Unlock, InNewPage, Activities
<1>5. CASE AcquireLoad(t)
  BY <1>0, <1>a, <1>b, <1>5, LockStep, SMTT(30) DEF AcquireLoad, Unlock, InNewPage, Activities
<1>6. CASE AcquireRetry(t)
  BY <1>0, <1>a, <1>6, LocalStep DEF AcquireRetry, InNewPage, Activities
<1>7. ASSUME NEW p \in Pages, AcquireUnlimited(t, p) \/ AcquireSwap(t, p)
      PROVE  SInv'
  <2>1. /\ owner' = [owner EXCEPT ![p] = th[t].ctx] /\ owner[p] = None
        /\ th' = [th EXCEPT ![t].pc = "npAppend", ![t].page = p]
        /\ InNewPage(t)
        /\ UNCHANGED <<cMu, cClosed, cPages, pObs, pClosed>>
    BY <1>7 DEF AcquireUnlimited, AcquireSwap, MakePage, InNewPage
  <2> QED
    BY <1>0, <1>a, <2>1, LocalStep DEF InNewPage, Activities
<1>8. CASE NewPageAppend(t)
  BY <1>8, AppendStep
<1>9. ASSUME NEW p \in Pages, ClosePage(t, p) \/ ClosingNext(t, p)
      PROVE  SInv'
  BY <1>9, CloseStep
<1>10. CASE ReleasePage(t)
  <2>1. th[t].page \in pClosed
    BY <1>10 DEF ReleasePage, SInv, ClosersKnow
  <2> QED
    BY <1>0, <1>a, <1>10, <2>1, LocalStep DEF ReleasePage, InNewPage, Activities
<1>11. CASE RemovePage(t)
  BY <1>11, RemoveStep
<1>12. CASE ClosingDone(t) \/ CloseBrowser(t)
  <2>1. th[t].todo = {} /\ UNCHANGED <<cMu, cClosed, cPages, pObs, pClosed, owner>>
    BY <1>a, <1>12 DEF ClosingDone, CloseBrowser
  <2>2. /\ th'[t].todo = {} /\ th'[t].pc \in {"idle", "unlink", "closeContexts"}
        /\ \A u \in Threads \ {t} : th'[u] = th[u]
    BY <1>0, <1>12, <2>1 DEF ClosingDone, CloseBrowser, Activities
  <2> QED
    BY <2>1, <2>2, LocalStep DEF InNewPage
<1>13. ASSUME NEW c \in Contexts, CloseContext(t, c)
       PROVE  SInv'
  <2>1. CASE TakePages(t, c, "context")
    BY <1>13, <2>1, TakeStep DEF CloseContext, Ops
  <2>2. CASE c \in cClosed
    BY <1>0, <1>a, <1>13, <2>2, LocalStep DEF CloseContext, TakePages, InNewPage, Activities
  <2> QED
    BY <1>13, <2>1, <2>2 DEF CloseContext
<1>14. ASSUME NEW c \in Contexts, CloseNextContext(t, c)
       PROVE  SInv'
  <2>1. CASE TakePages(t, c, "browser")
    BY <1>14, <2>1, TakeStep DEF CloseNextContext, Ops
  <2>2. CASE c \in cClosed
    BY <1>0, <1>a, <1>14, <2>2, LocalStep DEF CloseNextContext, TakePages, InNewPage, Activities
  <2> QED
    BY <1>14, <2>1, <2>2 DEF CloseNextContext
<1>15. CASE UNCHANGED vars
  BY <1>15 DEF vars, SInv, LockHeld, ClosersKnow, NoStrandedPage, InNewPage
<1> QED
  BY <1>1, <1>2, <1>3, <1>4, <1>5, <1>6, <1>7, <1>8, <1>9, <1>10, <1>11, <1>12, <1>13,
     <1>14, <1>15 DEF Call, Resume, Refused

(* No open page can get out of reach of a Close.                           *)
THEOREM NothingStranded == Spec => []NoStrandedPage
<1>1. Init => SInv
  BY DEF Init, SInv, LockHeld, ClosersKnow, NoStrandedPage, InNewPage, Idle
<1>2. SInv /\ IInv /\ [Next]_vars => SInv'
  <2> SUFFICES ASSUME SInv, IInv, [Next]_vars
               PROVE  SInv'
    OBVIOUS
  <2>1. CASE UNCHANGED vars
    BY <2>1 DEF vars, SInv, LockHeld, ClosersKnow, NoStrandedPage, InNewPage, At
  <2> QED
    BY <2>1, StepKeepsSInv DEF Next
<1>3. SInv => NoStrandedPage
  BY DEF SInv
<1> QED
  BY <1>1, <1>2, <1>3, Invariance, PTL DEF Spec

-----------------------------------------------------------------------------
(***************************************************************************)
(* 2. McpServer                                                            *)
(***************************************************************************)
LEMMA Least ==
    ASSUME NEW S \in SUBSET Nat, S # {}
    PROVE  \E n \in S : \A m \in S : n <= m
<1> DEFINE R == OpToRel(<, Nat)
<1>1. \A x, y \in Nat : <<x, y>> \in R <=> x < y
  BY DEF OpToRel
<1>2. IsWellFoundedOn(R, Nat)
  BY NatLessThanWellFounded
<1> HIDE DEF R
<1>3. PICK n \in S : \A m \in S : ~(<<m, n>> \in R)
  BY <1>2, WFMin
<1>4. \A m \in S : ~(m < n) /\ m \in Nat /\ n \in Nat
  BY <1>1, <1>3, Zenon
<1> QED
  BY <1>4, SMT

LEMMA Greatest ==
    ASSUME NEW N \in Nat, NEW S \in SUBSET (0..N), S # {}
    PROVE  \E n \in S : \A m \in S : m <= n
<1> DEFINE T == {N - n : n \in S}
<1>1. T \in SUBSET Nat /\ T # {}
  <2>1. \A n \in S : n \in Nat /\ n <= N /\ N - n \in Nat
    OBVIOUS
  <2> QED
    BY <2>1
<1>2. PICK t \in T : \A m \in T : t <= m
  BY <1>1, Least
<1>3. PICK n \in S : t = N - n
  BY <1>2
<1>4. \A m \in S : N - n <= N - m
  BY <1>2, <1>3
<1> QED
  BY <1>3, <1>4

LEMMA Induct ==
    ASSUME NEW P, 0 \in P, \A n \in Nat : n \in P => n + 1 \in P
    PROVE  Nat \subseteq P
<1> DEFINE S == Nat \ P
<1> SUFFICES ASSUME S # {} PROVE FALSE
  OBVIOUS
<1>1. PICK n \in S : \A m \in S : n <= m
  <2>1. S \in SUBSET Nat
    OBVIOUS
  <2> QED
    BY <2>1, Least
<1>2. n \in Nat /\ n # 0 /\ n \notin P
  BY <1>1
<1>3. n - 1 \in Nat /\ n - 1 + 1 = n /\ n - 1 < n
  BY <1>2
<1>4. n - 1 \in P
  BY <1>1, <1>3
<1> QED
  BY <1>2, <1>3, <1>4

-----------------------------------------------------------------------------
(* A list of numbers that has those of a set, in their order.              *)
Increasing(ix) == \A p, q \in DOMAIN ix : p < q => ix[p] < ix[q]
Lists(ix, S) == ix \in Seq(S) /\ Increasing(ix) /\ \A x \in S : \E k \in DOMAIN ix : ix[k] = x

LEMMA ListsCount ==
    ASSUME NEW S \in SUBSET Nat, NEW ix, Lists(ix, S)
    PROVE  IsFiniteSet(S) /\ Cardinality(S) = Len(ix)
<1>1. ix \in Seq(S) /\ Len(ix) \in Nat /\ DOMAIN ix = 1..Len(ix)
  BY DEF Lists
<1>2. ix \in [1..Len(ix) -> S]
  BY <1>1
<1>3. \A p, q \in 1..Len(ix) : ix[p] = ix[q] => p = q
  <2> SUFFICES ASSUME NEW p \in 1..Len(ix), NEW q \in 1..Len(ix), p < q PROVE ix[p] # ix[q]
    BY <1>1
  <2>1. ix[p] < ix[q]
    BY <1>1 DEF Lists, Increasing
  <2>2. ix[p] \in Nat /\ ix[q] \in Nat
    BY <1>2
  <2> QED
    BY <2>1, <2>2
<1>4. ix \in Bijection(1..Len(ix), S)
  BY <1>1, <1>2, <1>3 DEF Bijection, Injection, Surjection, IsInjective, Lists
<1>5. IsFiniteSet(1..Len(ix)) /\ Cardinality(1..Len(ix)) = Len(ix)
  <2>1. 1 \in Int /\ Len(ix) \in Int /\ (IF 1 > Len(ix) THEN 0 ELSE Len(ix) - 1 + 1) = Len(ix)
    BY <1>1
  <2> QED
    BY <2>1, FS_Interval
<1> QED
  BY <1>4, <1>5, FS_Bijection DEF ExistsBijection

(* One more element than there was.                                        *)
LEMMA ListsMore ==
    ASSUME NEW S \in SUBSET Nat, NEW ix, Lists(ix, S), NEW n \in Nat, \A x \in S : x < n,
           NEW more, more = Append(ix, n)
    PROVE  /\ Lists(more, S \cup {n})
           /\ Len(more) = Len(ix) + 1 /\ DOMAIN ix = 1..Len(ix) /\ Len(ix) \in Nat
           /\ DOMAIN more = 1..(Len(ix) + 1)
           /\ more[Len(ix) + 1] = n /\ \A k \in DOMAIN ix : more[k] = ix[k]
<1>1. ix \in Seq(S) /\ DOMAIN ix = 1..Len(ix) /\ Len(ix) \in Nat
  BY DEF Lists
<1>2. /\ more \in Seq(S \cup {n}) /\ DOMAIN more = 1..(Len(ix) + 1) /\ Len(more) = Len(ix) + 1
      /\ more[Len(ix) + 1] = n /\ \A k \in 1..Len(ix) : more[k] = ix[k]
  <2>1. ix \in Seq(S \cup {n})
    BY <1>1
  <2> QED
    BY <1>1, <2>1
<1>3. ASSUME NEW p \in DOMAIN more, NEW q \in DOMAIN more, p < q PROVE more[p] < more[q]
  <2>1. p \in DOMAIN ix /\ more[p] = ix[p] /\ ix[p] \in S
    BY <1>1, <1>2, <1>3
  <2>2. CASE q = Len(ix) + 1
    BY <1>2, <2>1, <2>2
  <2>3. CASE q # Len(ix) + 1
    <3>1. q \in DOMAIN ix /\ more[q] = ix[q]
      BY <1>1, <1>2, <2>3
    <3> QED
      BY <1>3, <2>1, <3>1 DEF Lists, Increasing
  <2> QED
    BY <2>2, <2>3
<1>4. ASSUME NEW x \in S \cup {n} PROVE \E k \in DOMAIN more : more[k] = x
  <2>1. CASE x = n
    BY <1>1, <1>2, <2>1
  <2>2. CASE x # n
    <3>1. PICK k \in DOMAIN ix : ix[k] = x
      BY <2>2 DEF Lists
    <3> QED
      BY <1>1, <1>2, <3>1
  <2> QED
    BY <2>1, <2>2
<1>5. Lists(more, S \cup {n})
  BY <1>2, <1>3, <1>4 DEF Lists, Increasing
<1> QED
  BY <1>1, <1>2, <1>5

-----------------------------------------------------------------------------
(* What Sublist does with the next element.                                *)
Take(list, S, upTo, n) == IF n \in S THEN Append(upTo, list[n]) ELSE upTo

LEMMA SublistUpToIs ==
    ASSUME NEW T, NEW list \in Seq(T), NEW S
    PROVE  /\ SublistUpTo(list, S)[0] = <<>>
           /\ \A n \in 1..Len(list) : SublistUpTo(list, S)[n] = Take(list, S, SublistUpTo(list, S)[n - 1], n)
<1> DEFINE N == Len(list)
           Upto(g, n) == g[0] = <<>> /\ \A i \in 1..n : g[i] = Take(list, S, g[i - 1], i)
           P == {n \in Nat : \E g : Upto(g, n)}
<1>1. 0 \in P
  <2>1. Upto([i \in {0} |-> <<>>], 0)
    OBVIOUS
  <2> QED
    BY <2>1
<1>2. ASSUME NEW n \in Nat, n \in P PROVE n + 1 \in P
  <2>1. PICK g : Upto(g, n)
    BY <1>2
  <2> DEFINE h == [i \in 0..(n + 1) |-> IF i = n + 1 THEN Take(list, S, g[n], n + 1) ELSE g[i]]
  <2>2. h[0] = <<>> /\ h[n + 1] = Take(list, S, g[n], n + 1) /\ \A i \in 0..n : h[i] = g[i]
    BY <2>1
  <2> HIDE DEF h
  <2>3. ASSUME NEW i \in 1..(n + 1) PROVE h[i] = Take(list, S, h[i - 1], i)
    <3>1. CASE i = n + 1
      <4>1. i - 1 = n /\ n \in 0..n
        BY <3>1
      <4> QED
        BY <2>2, <3>1, <4>1
    <3>2. CASE i # n + 1
      <4>1. i \in 1..n /\ i \in 0..n /\ i - 1 \in 0..n
        BY <3>2
      <4> QED
        BY <2>1, <2>2, <4>1
    <3> QED
      BY <3>1, <3>2
  <2> QED
    BY <2>2, <2>3
<1>3. N \in Nat
  OBVIOUS
<1>4. PICK g : Upto(g, N)
  <2> HIDE DEF P
  <2>1. N \in P
    BY <1>1, <1>2, <1>3, Induct
  <2> QED
    BY <2>1 DEF P
<1> DEFINE h == [i \in 0..N |-> g[i]]
           F(f) == [n \in 0..N |-> IF n = 0 THEN <<>> ELSE IF n \in S THEN Append(f[n - 1], list[n]) ELSE f[n - 1]]
<1>5. h = F(h)
  <2>1. ASSUME NEW n \in 0..N PROVE h[n] = IF n = 0 THEN <<>> ELSE Take(list, S, h[n - 1], n)
    <3>1. CASE n = 0
      BY <1>4, <3>1
    <3>2. CASE n # 0
      <4>1. n \in 1..N /\ n - 1 \in 0..N
        BY <3>2
      <4> QED
        BY <1>4, <3>2, <4>1
    <3> QED
      BY <3>1, <3>2
  <2> QED
    BY <2>1 DEF Take
<1>6. SublistUpTo(list, S) = CHOOSE f : f = F(f)
  BY DEF SublistUpTo
<1>7. SublistUpTo(list, S) = F(SublistUpTo(list, S))
  <2> HIDE DEF h, F
  <2> QED
    BY <1>5, <1>6
<1>8. ASSUME NEW n \in 0..N
      PROVE  SublistUpTo(list, S)[n] = IF n = 0 THEN <<>> ELSE Take(list, S, SublistUpTo(list, S)[n - 1], n)
  BY <1>7, Zenon DEF Take
<1> QED
  BY <1>3, <1>8

(* Which positions the elements of a sublist come from.                    *)
From(sub, list, ix) == DOMAIN sub = DOMAIN ix /\ \A k \in DOMAIN ix : sub[k] = list[ix[k]]

LEMMA SublistIs ==
    ASSUME NEW T, NEW list \in Seq(T), NEW S
    PROVE  /\ Sublist(list, S) \in Seq(T)
           /\ \E ix : Lists(ix, S \cap DOMAIN list) /\ From(Sublist(list, S), list, ix)
<1> DEFINE N == Len(list)
           sub == SublistUpTo(list, S)
           Good(n) == /\ sub[n] \in Seq(T)
                      /\ \E ix : Lists(ix, S \cap 1..n) /\ From(sub[n], list, ix)
           P == {n \in Nat : n <= N => Good(n)}
<1>1. N \in Nat /\ DOMAIN list = 1..N
  OBVIOUS
<1>2. 0 \in P
  <2>1. sub[0] = <<>>
    BY SublistUpToIs
  <2>2. Lists(<<>>, S \cap 1..0) /\ From(sub[0], list, <<>>)
    <3>1. 1..0 = {} /\ S \cap 1..0 = {}
      OBVIOUS
    <3> QED
      BY <2>1, <3>1 DEF Lists, Increasing, From
  <2>3. sub[0] \in Seq(T)
    BY <2>1
  <2> HIDE DEF sub
  <2> QED
    BY <2>2, <2>3
<1>3. ASSUME NEW n \in Nat, n \in P PROVE n + 1 \in P
  <2> SUFFICES ASSUME n + 1 <= N PROVE Good(n + 1)
    <3> HIDE DEF Good
    <3>1. n + 1 \in Nat
      OBVIOUS
    <3> QED
      BY <3>1
  <2>1. n + 1 \in 1..N /\ n <= N /\ (n + 1) - 1 = n
    BY <1>1
  <2>2. sub[n + 1] = Take(list, S, sub[n], n + 1)
    BY <2>1, SublistUpToIs
  <2>3. sub[n] \in Seq(T)
    BY <1>3, <2>1
  <2>4. PICK ix : Lists(ix, S \cap 1..n) /\ From(sub[n], list, ix)
    BY <1>3, <2>1
  <2> HIDE DEF sub
  <2>5. CASE n + 1 \in S
    <3> DEFINE more == Append(ix, n + 1)
    <3>1. (S \cap 1..n) \cup {n + 1} = S \cap 1..(n + 1) /\ \A x \in S \cap 1..n : x < n + 1
      BY <2>5
    <3>2. /\ Lists(more, S \cap 1..(n + 1)) /\ Len(ix) \in Nat /\ DOMAIN ix = 1..Len(ix)
          /\ DOMAIN more = 1..(Len(ix) + 1) /\ more[Len(ix) + 1] = n + 1
          /\ \A k \in DOMAIN ix : more[k] = ix[k]
      <4>1. S \cap 1..n \in SUBSET Nat /\ n + 1 \in Nat
        OBVIOUS
      <4> DEFINE Some == S \cap 1..n
                 next == n + 1
      <4>2. Some \in SUBSET Nat /\ next \in Nat /\ Lists(ix, Some) /\ \A x \in Some : x < next
        BY <2>4, <3>1, <4>1
      <4> HIDE DEF Some, next
      <4>3. more = Append(ix, next)
        BY DEF next
      <4> HIDE DEF more
      <4>4. Lists(more, Some \cup {next}) /\ DOMAIN ix = 1..Len(ix) /\ Len(ix) \in Nat
        BY <4>2, <4>3, ListsMore
      <4>5. DOMAIN more = 1..(Len(ix) + 1) /\ more[Len(ix) + 1] = next
        BY <4>2, <4>3, ListsMore
      <4>6. \A k \in DOMAIN ix : more[k] = ix[k]
        BY <4>2, <4>3, ListsMore
      <4> QED
        BY <3>1, <4>4, <4>5, <4>6 DEF Some, next
    <3> HIDE DEF more
    <3>3. sub[n + 1] = Append(sub[n], list[n + 1])
      BY <2>2, <2>5 DEF Take
    <3>4. list[n + 1] \in T /\ Len(sub[n]) = Len(ix) /\ DOMAIN sub[n] = 1..Len(ix)
      BY <1>1, <2>1, <2>3, <2>4, <3>2 DEF From
    <3>5. /\ sub[n + 1] \in Seq(T) /\ DOMAIN sub[n + 1] = 1..(Len(ix) + 1)
          /\ sub[n + 1][Len(ix) + 1] = list[n + 1] /\ \A k \in 1..Len(ix) : sub[n + 1][k] = sub[n][k]
      BY <2>3, <3>2, <3>3, <3>4
    <3>6. From(sub[n + 1], list, more)
      BY <2>4, <3>2, <3>5 DEF From
    <3> QED
      BY <3>2, <3>5, <3>6
  <2>6. CASE n + 1 \notin S
    <3>1. S \cap 1..(n + 1) = S \cap 1..n
      BY <2>6
    <3>2. sub[n + 1] = sub[n]
      BY <2>2, <2>6 DEF Take
    <3> QED
      BY <2>3, <2>4, <3>1, <3>2
  <2> QED
    BY <2>5, <2>6
<1>4. Good(N)
  <2> HIDE DEF P, Good
  <2>1. N \in P
    BY <1>1, <1>2, <1>3, Induct
  <2> QED
    BY <1>1, <2>1 DEF P
<1> QED
  BY <1>1, <1>4 DEF Sublist

-----------------------------------------------------------------------------
(* The builder: one element of the document after the other.               *)
LEMMA BuildUpToIs ==
    ASSUME NEW T, NEW doc \in Seq(T)
    PROVE  /\ BuildUpTo(doc)[0] = BuilderStart
           /\ \A n \in 1..Len(doc) : BuildUpTo(doc)[n] = ProcessNode(BuildUpTo(doc)[n - 1], doc[n])
<1> DEFINE N == Len(doc)
           Upto(g, n) == g[0] = BuilderStart /\ \A i \in 1..n : g[i] = ProcessNode(g[i - 1], doc[i])
           P == {n \in Nat : \E g : Upto(g, n)}
<1>1. 0 \in P
  <2>1. Upto([i \in {0} |-> BuilderStart], 0)
    OBVIOUS
  <2> QED
    BY <2>1
<1>2. ASSUME NEW n \in Nat, n \in P PROVE n + 1 \in P
  <2>1. PICK g : Upto(g, n)
    BY <1>2
  <2> DEFINE h == [i \in 0..(n + 1) |-> IF i = n + 1 THEN ProcessNode(g[n], doc[n + 1]) ELSE g[i]]
  <2>2. h[0] = BuilderStart /\ h[n + 1] = ProcessNode(g[n], doc[n + 1]) /\ \A i \in 0..n : h[i] = g[i]
    BY <2>1
  <2> HIDE DEF h
  <2>3. ASSUME NEW i \in 1..(n + 1) PROVE h[i] = ProcessNode(h[i - 1], doc[i])
    <3>1. CASE i = n + 1
      <4>1. i - 1 = n /\ n \in 0..n
        BY <3>1
      <4> QED
        BY <2>2, <3>1, <4>1
    <3>2. CASE i # n + 1
      <4>1. i \in 1..n /\ i \in 0..n /\ i - 1 \in 0..n
        BY <3>2
      <4> QED
        BY <2>1, <2>2, <4>1
    <3> QED
      BY <3>1, <3>2
  <2> QED
    BY <2>2, <2>3
<1>3. N \in Nat
  OBVIOUS
<1>4. PICK g : Upto(g, N)
  <2> HIDE DEF P
  <2>1. N \in P
    BY <1>1, <1>2, <1>3, Induct
  <2> QED
    BY <2>1 DEF P
<1> DEFINE h == [i \in 0..N |-> g[i]]
           F(f) == [n \in 0..N |-> IF n = 0 THEN BuilderStart ELSE ProcessNode(f[n - 1], doc[n])]
<1>5. h = F(h)
  <2>1. ASSUME NEW n \in 0..N PROVE h[n] = IF n = 0 THEN BuilderStart ELSE ProcessNode(h[n - 1], doc[n])
    <3>1. CASE n = 0
      BY <1>4, <3>1
    <3>2. CASE n # 0
      <4>1. n \in 1..N /\ n - 1 \in 0..N
        BY <3>2
      <4> QED
        BY <1>4, <3>2, <4>1
    <3> QED
      BY <3>1, <3>2
  <2> QED
    BY <2>1
<1>6. BuildUpTo(doc) = CHOOSE f : f = F(f)
  BY DEF BuildUpTo
<1>7. BuildUpTo(doc) = F(BuildUpTo(doc))
  <2> HIDE DEF h, F
  <2> QED
    BY <1>5, <1>6
<1>8. ASSUME NEW n \in 0..N
      PROVE  BuildUpTo(doc)[n] = IF n = 0 THEN BuilderStart ELSE ProcessNode(BuildUpTo(doc)[n - 1], doc[n])
  BY <1>7, Zenon
<1> QED
  BY <1>3, <1>8

(* The elements of a document are some of E, the nodes of a tree are of    *)
(* them, and a node with a number stands in the map under it.              *)
Element(E) == [el : E, depth : Nat \ {0}, kind : Kinds, hidden : BOOLEAN]
TreeNode(E) == [role : Kinds \cup {"listitem"}, id : Nat, el : E, hidden : BOOLEAN, depth : Nat]
Numbered(E, map) == {t \in TreeNode(E) : t.role # "listitem" => t.id \in DOMAIN map /\ map[t.id] = t.el}

BuilderOK(b, E) ==
    /\ b \in [nodes : Seq(TreeNode(E)), map : Seq(E), cut : Nat, list : BOOLEAN, levels : Seq(Nat)]
    /\ b.nodes \in Seq(Numbered(E, b.map))

LEMMA NumberedMore ==
    ASSUME NEW E, NEW map \in Seq(E), NEW el \in E
    PROVE  Numbered(E, map) \subseteq Numbered(E, Append(map, el))
<1>1. ASSUME NEW t \in Numbered(E, map) PROVE t \in Numbered(E, Append(map, el))
  <2>1. t \in TreeNode(E)
    BY <1>1 DEF Numbered
  <2>2. CASE t.role # "listitem"
    <3>1. t.id \in 1..Len(map) /\ map[t.id] = t.el
      BY <1>1, <2>2 DEF Numbered
    <3>2. t.id \in DOMAIN Append(map, el) /\ Append(map, el)[t.id] = t.el
      BY <3>1
    <3> QED
      BY <2>1, <3>2 DEF Numbered
  <2> QED
    BY <2>1, <2>2 DEF Numbered
<1> QED
  BY <1>1

LEMMA SeqSubset ==
    ASSUME NEW S, NEW T, S \subseteq T, NEW s \in Seq(S)
    PROVE  s \in Seq(T)
  OBVIOUS

LEMMA CameToOK ==
    ASSUME NEW E, NEW e \in Element(E), NEW b, BuilderOK(b, E), NEW levels,
           levels = Sublist(b.levels, {k \in DOMAIN b.levels : b.levels[k] < e.depth}),
           NEW here, here = CameTo(b, e)
    PROVE  /\ BuilderOK(here, E) /\ here.nodes = b.nodes /\ here.levels = levels
           /\ here.cut = IF e.depth > b.cut THEN b.cut ELSE 0
<1> DEFINE M == Seq(TreeNode(E))
           c == [b EXCEPT !.cut = IF e.depth > b.cut THEN b.cut ELSE 0]
<1>1. levels \in Seq(Nat)
  BY SublistIs DEF BuilderOK
<1>2. here = [c EXCEPT !.levels = Sublist(c.levels, {k \in DOMAIN c.levels : c.levels[k] < e.depth})]
  BY DEF CameTo
<1>3. b \in [nodes : M, map : Seq(E), cut : Nat, list : BOOLEAN, levels : Seq(Nat)]
  BY DEF BuilderOK
<1> HIDE DEF M
<1>4. c = [nodes |-> b.nodes, map |-> b.map, cut |-> IF e.depth > b.cut THEN b.cut ELSE 0,
           list |-> b.list, levels |-> b.levels]
  BY <1>3
<1> HIDE DEF c
<1>5. here = [c EXCEPT !.levels = levels]
  <2>1. c.levels = b.levels
    BY <1>4
  <2> QED
    BY <1>2, <2>1
<1>6. here = [nodes |-> b.nodes, map |-> b.map, cut |-> IF e.depth > b.cut THEN b.cut ELSE 0,
              list |-> b.list, levels |-> levels]
  BY <1>4, <1>5
<1>7. e.depth \in Nat
  BY DEF Element
<1>8. b.nodes \in Seq(Numbered(E, b.map))
  BY DEF BuilderOK
<1> QED
  BY <1>1, <1>3, <1>6, <1>7, <1>8 DEF BuilderOK, M

(* What an element does to the builder that came to it.                    *)
NodeOf(b, e) == [role |-> e.kind, id |-> Len(b.map) + 1, el |-> e.el, hidden |-> e.hidden, depth |-> Len(b.levels) + 1]
ItemOf(b, e) == [role |-> "listitem", id |-> 0, el |-> e.el, hidden |-> FALSE, depth |-> Len(b.levels) + 2]
IsItem(b, e) == e.kind = "item" /\ b.list /\ e.depth = b.cut + 1

Processed(here, e, c) ==
    /\ here.cut # 0 /\ ~IsItem(here, e) => c = here
    /\ here.cut # 0 /\ IsItem(here, e) =>
         c = [nodes |-> Append(here.nodes, ItemOf(here, e)), map |-> here.map, cut |-> here.cut,
              list |-> here.list, levels |-> here.levels]
    /\ here.cut = 0 /\ Opens(e.kind) =>
         c = [nodes |-> Append(here.nodes, NodeOf(here, e)), map |-> Append(here.map, e.el), cut |-> 0,
              list |-> here.list, levels |-> Append(here.levels, e.depth)]
    /\ here.cut = 0 /\ Leaf(e.kind) =>
         c = [nodes |-> Append(here.nodes, NodeOf(here, e)), map |-> Append(here.map, e.el), cut |-> e.depth,
              list |-> (e.kind = "list"), levels |-> here.levels]
    /\ here.cut = 0 /\ ~MakesNode(e.kind) => c = here

LEMMA ProcessIs ==
    ASSUME NEW E, NEW e \in Element(E), NEW b, BuilderOK(b, E),
           NEW here, here = CameTo(b, e), NEW c, c = ProcessNode(b, e)
    PROVE  Processed(here, e, c)
<1> DEFINE M == Seq(TreeNode(E))
<1>1. here \in [nodes : M, map : Seq(E), cut : Nat, list : BOOLEAN, levels : Seq(Nat)]
  <2> DEFINE levels == Sublist(b.levels, {k \in DOMAIN b.levels : b.levels[k] < e.depth})
  <2>1. BuilderOK(here, E)
    <3>1. levels = Sublist(b.levels, {k \in DOMAIN b.levels : b.levels[k] < e.depth})
      OBVIOUS
    <3> HIDE DEF levels
    <3> QED
      BY <3>1, CameToOK, Zenon
  <2> QED
    BY <2>1, Zenon DEF BuilderOK
<1> HIDE DEF M
<1>2. c = IF here.cut # 0
          THEN IF IsItem(here, e) THEN ListItem(here, e) ELSE here
          ELSE CASE Opens(e.kind) -> [MakeNode(here, e) EXCEPT !.levels = Append(@, e.depth)]
                 [] Leaf(e.kind) -> [MakeNode(here, e) EXCEPT !.cut = e.depth, !.list = e.kind = "list"]
                 [] OTHER -> here
  <2>1. c = ProcessHere(here, e)
    BY DEF ProcessNode
  <2> QED
    BY <2>1, Zenon DEF ProcessHere, IsItem
<1>3. ~(Opens(e.kind) /\ Leaf(e.kind)) /\ (MakesNode(e.kind) <=> Opens(e.kind) \/ Leaf(e.kind))
  BY DEF Opens, Leaf, MakesNode
<1>4. ListItem(here, e) =
        [nodes |-> Append(here.nodes, ItemOf(here, e)), map |-> here.map, cut |-> here.cut,
         list |-> here.list, levels |-> here.levels]
  <2> DEFINE node == ItemOf(here, e)
  <2>1. ListItem(here, e) = [here EXCEPT !.nodes = Append(here.nodes, node)]
    BY DEF ListItem, ItemOf
  <2> HIDE DEF node
  <2> QED
    BY <1>1, <2>1 DEF node
<1>5. MakeNode(here, e) =
        [nodes |-> Append(here.nodes, NodeOf(here, e)), map |-> Append(here.map, e.el), cut |-> here.cut,
         list |-> here.list, levels |-> here.levels]
  <2> DEFINE node == NodeOf(here, e)
  <2>1. MakeNode(here, e) = [here EXCEPT !.nodes = Append(here.nodes, node), !.map = Append(here.map, e.el)]
    <3> DEFINE d == [here EXCEPT !.nodes = Append(here.nodes, node)]
    <3>1. d.map = here.map
      BY <1>1
    <3>2. MakeNode(here, e) = [d EXCEPT !.map = Append(d.map, e.el)]
      BY DEF MakeNode, NodeOf
    <3> HIDE DEF d
    <3>3. MakeNode(here, e) = [d EXCEPT !.map = Append(here.map, e.el)]
      BY <3>1, <3>2
    <3> QED
      BY <3>3 DEF d
  <2> HIDE DEF node
  <2> QED
    BY <1>1, <2>1 DEF node
<1> DEFINE node == MakeNode(here, e)
           nodes == Append(here.nodes, NodeOf(here, e))
           map == Append(here.map, e.el)
           item == ListItem(here, e)
<1>6. node = [nodes |-> nodes, map |-> map, cut |-> here.cut, list |-> here.list, levels |-> here.levels]
  BY <1>5
<1>7. c = IF here.cut # 0 THEN IF IsItem(here, e) THEN item ELSE here
          ELSE CASE Opens(e.kind) -> [node EXCEPT !.levels = Append(@, e.depth)]
                 [] Leaf(e.kind) -> [node EXCEPT !.cut = e.depth, !.list = e.kind = "list"]
                 [] OTHER -> here
  BY <1>2
<1> HIDE DEF node, nodes, map, item
<1>8. /\ [node EXCEPT !.levels = Append(@, e.depth)] =
           [nodes |-> nodes, map |-> map, cut |-> here.cut, list |-> here.list, levels |-> Append(here.levels, e.depth)]
      /\ [node EXCEPT !.cut = e.depth, !.list = e.kind = "list"] =
           [nodes |-> nodes, map |-> map, cut |-> e.depth, list |-> (e.kind = "list"), levels |-> here.levels]
  <2>1. node.levels = here.levels
    BY <1>6
  <2> DEFINE levels == Append(here.levels, e.depth)
  <2>2. [node EXCEPT !.levels = Append(@, e.depth)] = [node EXCEPT !.levels = levels]
    BY <2>1
  <2> HIDE DEF levels
  <2>3. [node EXCEPT !.levels = levels] =
          [nodes |-> nodes, map |-> map, cut |-> here.cut, list |-> here.list, levels |-> levels]
    BY <1>6
  <2> DEFINE isList == e.kind = "list"
  <2> HIDE DEF isList
  <2>4. [node EXCEPT !.cut = e.depth, !.list = isList] =
          [nodes |-> nodes, map |-> map, cut |-> e.depth, list |-> isList, levels |-> here.levels]
    <3> DEFINE leaf == [node EXCEPT !.cut = e.depth]
    <3>1. leaf = [nodes |-> nodes, map |-> map, cut |-> e.depth, list |-> here.list, levels |-> here.levels]
      BY <1>6
    <3>2. [node EXCEPT !.cut = e.depth, !.list = isList] = [leaf EXCEPT !.list = isList]
      OBVIOUS
    <3> HIDE DEF leaf
    <3> QED
      BY <3>1, <3>2
  <2> QED
    BY <2>2, <2>3, <2>4, Zenon DEF levels, isList
<1> DEFINE opened == [node EXCEPT !.levels = Append(@, e.depth)]
           leaf == [node EXCEPT !.cut = e.depth, !.list = e.kind = "list"]
<1>9. c = IF here.cut # 0 THEN IF IsItem(here, e) THEN item ELSE here
          ELSE IF Opens(e.kind) THEN opened ELSE IF Leaf(e.kind) THEN leaf ELSE here
  BY <1>3, <1>7, Zenon
<1> HIDE DEF opened, leaf
<1>10. /\ here.cut # 0 /\ ~IsItem(here, e) => c = here
       /\ here.cut # 0 /\ IsItem(here, e) => c = item
       /\ here.cut = 0 /\ Opens(e.kind) => c = opened
       /\ here.cut = 0 /\ Leaf(e.kind) => c = leaf
       /\ here.cut = 0 /\ ~MakesNode(e.kind) => c = here
  BY <1>3, <1>9, Zenon
<1>11. ASSUME here.cut = 0, Opens(e.kind)
       PROVE  c = [nodes |-> nodes, map |-> map, cut |-> 0, list |-> here.list, levels |-> Append(here.levels, e.depth)]
  BY <1>8, <1>10, <1>11, Zenon DEF opened
<1>12. ASSUME here.cut = 0, Leaf(e.kind)
       PROVE  c = [nodes |-> nodes, map |-> map, cut |-> e.depth, list |-> (e.kind = "list"), levels |-> here.levels]
  BY <1>8, <1>10, <1>12, Zenon DEF leaf
<1>13. ASSUME here.cut # 0, IsItem(here, e)
       PROVE  c = [nodes |-> Append(here.nodes, ItemOf(here, e)), map |-> here.map, cut |-> here.cut,
                   list |-> here.list, levels |-> here.levels]
  BY <1>4, <1>10, <1>13, Zenon DEF item
<1> QED
  BY <1>10, <1>11, <1>12, <1>13, Zenon DEF nodes, map, Processed

LEMMA ProcessOK ==
    ASSUME NEW E, NEW e \in Element(E), NEW b, BuilderOK(b, E)
    PROVE  BuilderOK(ProcessNode(b, e), E)
<1> DEFINE here == CameTo(b, e)
           c == ProcessNode(b, e)
           node == NodeOf(here, e)
           item == ItemOf(here, e)
           map == Append(here.map, e.el)
<1>1. BuilderOK(here, E)
  BY CameToOK
<1>2. /\ here.cut # 0 /\ ~IsItem(here, e) => c = here
      /\ here.cut # 0 /\ IsItem(here, e) =>
           c = [nodes |-> Append(here.nodes, item), map |-> here.map, cut |-> here.cut,
                list |-> here.list, levels |-> here.levels]
      /\ here.cut = 0 /\ Opens(e.kind) =>
           c = [nodes |-> Append(here.nodes, node), map |-> map, cut |-> 0,
                list |-> here.list, levels |-> Append(here.levels, e.depth)]
      /\ here.cut = 0 /\ Leaf(e.kind) =>
           c = [nodes |-> Append(here.nodes, node), map |-> map, cut |-> e.depth,
                list |-> (e.kind = "list"), levels |-> here.levels]
      /\ here.cut = 0 /\ ~MakesNode(e.kind) => c = here
  <2>1. Processed(here, e, c)
    BY <1>1, ProcessIs, Zenon
  <2> QED
    BY <2>1, Zenon DEF Processed
<1>3. e.el \in E /\ e.depth \in Nat /\ e.kind \in Kinds /\ e.hidden \in BOOLEAN
  BY DEF Element
<1>4. /\ here.map \in Seq(E) /\ here.nodes \in Seq(Numbered(E, here.map)) /\ here.nodes \in Seq(TreeNode(E))
      /\ here.cut \in Nat /\ here.list \in BOOLEAN /\ here.levels \in Seq(Nat)
  BY <1>1 DEF BuilderOK
<1> HIDE DEF here, c
<1>5. Len(here.map) \in Nat /\ Len(here.levels) \in Nat
  BY <1>4
<1>6. item \in TreeNode(E) /\ item.role = "listitem"
  BY <1>3, <1>5 DEF TreeNode, ItemOf
<1>7. item \in Numbered(E, here.map)
  BY <1>6 DEF Numbered
<1>8. map \in Seq(E) /\ Len(here.map) + 1 \in DOMAIN map /\ map[Len(here.map) + 1] = e.el
  BY <1>3, <1>4
<1>9. node \in TreeNode(E) /\ node.id = Len(here.map) + 1 /\ node.el = e.el
  BY <1>3, <1>5 DEF TreeNode, NodeOf
<1> HIDE DEF node, item
<1>10. node \in Numbered(E, map)
  BY <1>8, <1>9, Zenon DEF Numbered
<1>11. here.nodes \in Seq(Numbered(E, map))
  <2>1. Numbered(E, here.map) \subseteq Numbered(E, map)
    BY <1>3, <1>4, NumberedMore
  <2> HIDE DEF map
  <2> QED
    BY <1>4, <2>1, SeqSubset
<1> HIDE DEF map
<1>12. /\ Append(here.nodes, node) \in Seq(Numbered(E, map)) /\ Append(here.nodes, node) \in Seq(TreeNode(E))
       /\ Append(here.nodes, item) \in Seq(Numbered(E, here.map)) /\ Append(here.nodes, item) \in Seq(TreeNode(E))
       /\ Append(here.levels, e.depth) \in Seq(Nat)
  BY <1>3, <1>4, <1>6, <1>7, <1>9, <1>10, <1>11
<1> DEFINE isList == e.kind = "list"
           made1 == Append(here.nodes, node)
           made2 == Append(here.nodes, item)
           opened == Append(here.levels, e.depth)
           N == Seq(TreeNode(E))
           Ok(d) == d \in [nodes : N, map : Seq(E), cut : Nat, list : BOOLEAN, levels : Seq(Nat)]
<1>13. isList \in BOOLEAN
  OBVIOUS
<1>14. \A d : BuilderOK(d, E) <=> Ok(d) /\ d.nodes \in Seq(Numbered(E, d.map))
  BY DEF BuilderOK
<1>15. /\ made1 \in N /\ made2 \in N /\ opened \in Seq(Nat)
       /\ made1 \in Seq(Numbered(E, map)) /\ made2 \in Seq(Numbered(E, here.map))
  BY <1>12
<1> HIDE DEF isList, N, made1, made2, opened
<1>16. ASSUME here.cut = 0, Opens(e.kind) PROVE BuilderOK(c, E)
  <2>1. c = [nodes |-> made1, map |-> map, cut |-> 0, list |-> here.list, levels |-> opened]
    BY <1>2, <1>16 DEF made1, opened
  <2>2. Ok(c) /\ c.nodes = made1 /\ c.map = map
    BY <1>4, <1>8, <1>15, <2>1
  <2> QED
    BY <1>14, <1>15, <2>2
<1>17. ASSUME here.cut = 0, Leaf(e.kind) PROVE BuilderOK(c, E)
  <2>1. c = [nodes |-> made1, map |-> map, cut |-> e.depth, list |-> isList, levels |-> here.levels]
    BY <1>2, <1>17, Zenon DEF made1, isList
  <2>2. Ok(c) /\ c.nodes = made1 /\ c.map = map
    BY <1>3, <1>4, <1>8, <1>13, <1>15, <2>1
  <2> QED
    BY <1>14, <1>15, <2>2
<1>18. ASSUME here.cut # 0, IsItem(here, e) PROVE BuilderOK(c, E)
  <2>1. c = [nodes |-> made2, map |-> here.map, cut |-> here.cut, list |-> here.list, levels |-> here.levels]
    BY <1>2, <1>18 DEF made2
  <2>2. Ok(c) /\ c.nodes = made2 /\ c.map = here.map
    BY <1>4, <1>15, <2>1
  <2> QED
    BY <1>14, <1>15, <2>2
<1>19. ASSUME c = here PROVE BuilderOK(c, E)
  BY <1>1, <1>19
<1> QED
  BY <1>2, <1>16, <1>17, <1>18, <1>19, Zenon DEF c, MakesNode

(* Whatever the document, a node that one can interact with has a number   *)
(* that stands for its element in the map.                                 *)
LEMMA BuildOK ==
    ASSUME NEW E, NEW doc \in Seq(Element(E))
    PROVE  \A n \in 0..Len(doc) : BuilderOK(BuildUpTo(doc)[n], E)
<1> DEFINE P == {n \in Nat : n <= Len(doc) => BuilderOK(BuildUpTo(doc)[n], E)}
<1>1. 0 \in P
  <2>1. <<>> \in Seq(E) /\ <<>> \in Seq(TreeNode(E)) /\ <<>> \in Seq(Numbered(E, <<>>)) /\ <<>> \in Seq(Nat)
    OBVIOUS
  <2>2. BuilderOK(BuilderStart, E)
    <3> DEFINE N == Seq(TreeNode(E))
               K == Seq(Numbered(E, <<>>))
               M == Seq(E)
    <3>1. <<>> \in N /\ <<>> \in K /\ <<>> \in M /\ <<>> \in Seq(Nat)
      BY <2>1
    <3>2. BuilderStart.map = <<>> /\ BuilderStart.nodes = <<>>
      BY DEF BuilderStart
    <3> HIDE DEF N, M
    <3>3. BuilderStart \in [nodes : N, map : M, cut : Nat, list : BOOLEAN, levels : Seq(Nat)]
      BY <3>1 DEF BuilderStart
    <3> QED
      BY <3>1, <3>2, <3>3 DEF BuilderOK, N, M
  <2> QED
    BY <2>2, BuildUpToIs
<1>2. ASSUME NEW n \in Nat, n \in P PROVE n + 1 \in P
  <2> SUFFICES ASSUME n + 1 <= Len(doc) PROVE BuilderOK(BuildUpTo(doc)[n + 1], E)
    OBVIOUS
  <2>1. n + 1 \in 1..Len(doc) /\ n <= Len(doc) /\ (n + 1) - 1 = n /\ Len(doc) \in Nat
    OBVIOUS
  <2>2. BuildUpTo(doc)[n + 1] = ProcessNode(BuildUpTo(doc)[n], doc[n + 1])
    BY <2>1, BuildUpToIs
  <2>3. doc[n + 1] \in Element(E)
    BY <2>1
  <2>4. BuilderOK(BuildUpTo(doc)[n], E)
    BY <1>2, <2>1
  <2> QED
    BY <2>2, <2>3, <2>4, ProcessOK
<1> HIDE DEF P
<1>3. Nat \subseteq P
  BY <1>1, <1>2, Induct
<1> QED
  BY <1>3 DEF P

LEMMA CompressOK ==
    ASSUME NEW T, NEW tree \in Seq(T), NEW maxDepth
    PROVE  CompressTree(tree, maxDepth) \in Seq(T)
<1>1. RemoveHiddenDOM(tree) \in Seq(T)
  BY SublistIs DEF RemoveHiddenDOM, Without
<1>2. ASSUME NEW t \in Seq(T) PROVE RemoveEmptyText(t) \in Seq(T)
  BY SublistIs DEF RemoveEmptyText, Without
<1>3. ASSUME NEW t \in Seq(T) PROVE MergeAdjacentText(t) \in Seq(T)
  BY SublistIs DEF MergeAdjacentText, Without
<1>4. ASSUME NEW t \in Seq(T) PROVE EnforceDepth(t, maxDepth) \in Seq(T)
  BY SublistIs DEF EnforceDepth
<1> QED
  BY <1>1, <1>2, <1>3, <1>4 DEF CompressTree

LEMMA ShownNumbers ==
    ASSUME NEW E, NEW doc \in Seq(Element(E)), NEW depth
    PROVE  /\ Build(doc).map \in Seq(E)
           /\ \A s \in Shown(CompressTree(Build(doc).nodes, depth)) :
                 s.id \in DOMAIN Build(doc).map /\ Build(doc).map[s.id] = s.el
<1> DEFINE b == Build(doc)
           T == Numbered(E, b.map)
           tree == CompressTree(b.nodes, depth)
<1>1. BuilderOK(b, E)
  BY BuildOK DEF Build
<1>2. b.map \in Seq(E) /\ b.nodes \in Seq(T)
  BY <1>1 DEF BuilderOK
<1>3. tree \in Seq(T)
  BY <1>2, CompressOK
<1>4. ASSUME NEW s \in Shown(tree) PROVE s.id \in DOMAIN b.map /\ b.map[s.id] = s.el
  <2>1. PICK i \in DOMAIN tree : HasInteractableRole(tree[i].role) /\ s = [id |-> tree[i].id, el |-> tree[i].el]
    BY <1>4 DEF Shown
  <2>2. tree[i] \in T
    BY <1>3
  <2>3. tree[i].role # "listitem"
    BY <2>1 DEF HasInteractableRole
  <2>4. tree[i].id \in DOMAIN b.map /\ b.map[tree[i].id] = tree[i].el
    BY <2>2, <2>3 DEF Numbered
  <2> QED
    BY <2>1, <2>4
<1> QED
  BY <1>2, <1>4

-----------------------------------------------------------------------------
(* The state between messages.                                             *)
PagesOK == pages \in [Urls -> [cached : BOOLEAN, doc : Seq(Element(1..elements))]]
NumbersOK == \A s \in seen : s.id \in DOMAIN nodeMap /\ nodeMap[s.id] = s.el
LoadsOK == /\ loads \in [Urls -> Nat] /\ \A u \in Urls : loads[u] = IF pages[u].cached THEN 1 ELSE 0
McpInv ==
    /\ elements \in Nat /\ messages \in 0..MaxMessages /\ PagesOK
    /\ nodeMap \in Seq(1..elements) /\ marked \subseteq 1..elements
    /\ NumbersOK /\ MarksCleared /\ NodeReached /\ LoadsOK

LEMMA ElementMore ==
    ASSUME NEW n \in Nat, NEW m \in Nat, n <= m
    PROVE  /\ Seq(Element(1..n)) \subseteq Seq(Element(1..m)) /\ Seq(1..n) \subseteq Seq(1..m)
           /\ 1..n \subseteq 1..m
<1>1. 1..n \subseteq 1..m
  OBVIOUS
<1>2. Element(1..n) \subseteq Element(1..m)
  BY <1>1 DEF Element
<1> QED
  BY <1>1, <1>2, SeqSubset

LEMMA GetOrNavigateIs ==
    ASSUME McpInv, NEW u \in Urls
    PROVE  /\ GetOrNavigate(u).next \in Nat /\ elements <= GetOrNavigate(u).next
           /\ GetOrNavigate(u).doc \in Seq(Element(1..GetOrNavigate(u).next))
           /\ GetOrNavigate(u).loaded = IF pages[u].cached THEN 0 ELSE 1
<1>1. elements \in Nat /\ pages[u].cached \in BOOLEAN /\ pages[u].doc \in Seq(Element(1..elements))
  BY DEF McpInv, PagesOK
<1>2. CASE pages[u].cached
  BY <1>1, <1>2 DEF GetOrNavigate
<1>3. CASE ~pages[u].cached
  <2> DEFINE src == Served[u]
             next == elements + Len(src)
             doc == [i \in DOMAIN src |-> [el |-> elements + i, depth |-> src[i].depth,
                                           kind |-> src[i].kind, hidden |-> src[i].hidden]]
  <2>1. src \in Seq([depth : Nat \ {0}, kind : Kinds, hidden : BOOLEAN])
    BY ServedAreDocuments
  <2>2. GetOrNavigate(u) = [doc |-> doc, next |-> next, loaded |-> 1]
    BY <1>3 DEF GetOrNavigate
  <2> HIDE DEF src
  <2>3. Len(src) \in Nat /\ DOMAIN src = 1..Len(src) /\ next \in Nat /\ elements <= next
    BY <1>1, <2>1
  <2>4. ASSUME NEW i \in 1..Len(src) PROVE doc[i] \in Element(1..next)
    <3>1. src[i] \in [depth : Nat \ {0}, kind : Kinds, hidden : BOOLEAN]
      <4> DEFINE R == [depth : Nat \ {0}, kind : Kinds, hidden : BOOLEAN]
      <4>1. src \in Seq(R)
        BY <2>1
      <4> HIDE DEF R
      <4>2. src[i] \in R
        BY <2>3, <4>1
      <4> QED
        BY <4>2 DEF R
    <3>2. elements + i \in 1..next
      BY <1>1, <2>3, <2>4
    <3>3. doc[i] = [el |-> elements + i, depth |-> src[i].depth, kind |-> src[i].kind, hidden |-> src[i].hidden]
      BY <2>3, <2>4
    <3> HIDE DEF next, doc
    <3> QED
      BY <3>1, <3>2, <3>3 DEF Element
  <2>5. doc \in Seq(Element(1..next))
    <3>1. doc \in [1..Len(src) -> Element(1..next)]
      <4> HIDE DEF next
      <4>1. doc = [i \in 1..Len(src) |-> doc[i]]
        BY <2>3
      <4> HIDE DEF doc
      <4> QED
        BY <2>4, <4>1
    <3> HIDE DEF next, doc
    <3> QED
      BY <2>3, <3>1
  <2> HIDE DEF next, doc
  <2> QED
    BY <1>3, <2>2, <2>3, <2>5
<1> QED
  BY <1>2, <1>3

(* What a tool keeps of the page.                                          *)
LEMMA KeepIs ==
    ASSUME McpInv, NEW u \in Urls, NEW next \in Nat, elements <= next,
           NEW doc \in Seq(Element(1..next)), Keep(u, doc, next)
    PROVE  /\ elements' = next /\ elements' \in Nat /\ PagesOK' /\ LoadsOK'
           /\ Seq(1..elements) \subseteq Seq(1..next) /\ 1..elements \subseteq 1..next
<1>1. elements \in Nat /\ elements' = next
  BY DEF McpInv, Keep
<1>2. /\ Seq(Element(1..elements)) \subseteq Seq(Element(1..next)) /\ Seq(1..elements) \subseteq Seq(1..next)
      /\ 1..elements \subseteq 1..next
  BY <1>1, ElementMore
<1>3. pages' = [pages EXCEPT ![u] = [cached |-> TRUE, doc |-> doc]]
  BY DEF Keep
<1>4. pages \in [Urls -> [cached : BOOLEAN, doc : Seq(Element(1..elements))]]
  BY DEF McpInv, PagesOK
<1> DEFINE D == Seq(Element(1..elements))
           E == Seq(Element(1..next))
<1>5. pages' \in [Urls -> [cached : BOOLEAN, doc : E]]
  <2>1. pages \in [Urls -> [cached : BOOLEAN, doc : D]] /\ D \subseteq E /\ doc \in E
    BY <1>2, <1>4
  <2> HIDE DEF D, E
  <2> QED
    BY <1>3, <2>1
<1>6. PagesOK'
  BY <1>1, <1>5 DEF PagesOK
<1>7. loads \in [Urls -> Nat] /\ \A v \in Urls : loads[v] = IF pages[v].cached THEN 1 ELSE 0
  BY DEF McpInv, LoadsOK
<1>8. loads' = [loads EXCEPT ![u] = @ + IF pages[u].cached THEN 0 ELSE 1]
  BY GetOrNavigateIs DEF Keep
<1>9. \A v \in Urls : pages'[v].cached = (v = u \/ pages[v].cached)
  <2> HIDE DEF E, D
  <2>1. pages \in [Urls -> [cached : BOOLEAN, doc : D]]
    BY <1>4 DEF D
  <2> QED
    BY <1>3, <2>1
<1>10. LoadsOK'
  <2>1. loads' \in [Urls -> Nat]
    BY <1>7, <1>8
  <2>2. ASSUME NEW v \in Urls PROVE loads'[v] = IF pages'[v].cached THEN 1 ELSE 0
    <3> DEFINE is == pages[v].cached
               was == pages[u].cached
    <3>1. is \in BOOLEAN /\ was \in BOOLEAN /\ loads[v] = IF is THEN 1 ELSE 0
      <4> HIDE DEF D
      <4>1. pages \in [Urls -> [cached : BOOLEAN, doc : D]]
        BY <1>4 DEF D
      <4> QED
        BY <1>7, <4>1
    <3>2. loads'[v] = IF v = u THEN loads[v] + IF was THEN 0 ELSE 1 ELSE loads[v]
      BY <1>7, <1>8
    <3>3. pages'[v].cached <=> v = u \/ is
      BY <1>9
    <3>4. v = u => (was <=> is)
      OBVIOUS
    <3> HIDE DEF is, was
    <3> QED
      BY <3>1, <3>2, <3>3, <3>4
  <2> QED
    BY <2>1, <2>2 DEF LoadsOK
<1> QED
  BY <1>1, <1>2, <1>6, <1>10

(* What i holds stands after it without a gap.                             *)
LEMMA BelowIs ==
    ASSUME NEW T, NEW doc \in Seq(T), NEW i \in DOMAIN doc
    PROVE  /\ IsFiniteSet(Below(doc, i)) /\ Cardinality(Below(doc, i)) \in Nat
           /\ \A k \in Below(doc, i) : k \in DOMAIN doc /\ k - i \in 1..Cardinality(Below(doc, i))
<1>1. DOMAIN doc = 1..Len(doc) /\ Len(doc) \in Nat /\ i \in Nat /\ i \in 1..Len(doc)
  OBVIOUS
<1>2. IsFiniteSet(Below(doc, i)) /\ Cardinality(Below(doc, i)) \in Nat
  <2>1. Below(doc, i) \subseteq 1..Len(doc)
    BY <1>1 DEF Below
  <2>2. IsFiniteSet(1..Len(doc))
    BY <1>1, FS_Interval
  <2> QED
    BY <2>1, <2>2, FS_Subset, FS_CardinalityType
<1>3. ASSUME NEW k \in Below(doc, i) PROVE k \in DOMAIN doc /\ k - i \in 1..Cardinality(Below(doc, i))
  <2>1. k \in 1..Len(doc) /\ k > i /\ Holds(doc, i, k)
    BY <1>1, <1>3 DEF Below
  <2>2. (i + 1)..k \subseteq Below(doc, i)
    <3>1. ASSUME NEW m \in (i + 1)..k PROVE m \in Below(doc, i)
      <4>1. m \in 1..Len(doc) /\ m > i /\ i <= m /\ (i + 1)..m \subseteq (i + 1)..k
        BY <1>1, <2>1, <3>1
      <4>2. Holds(doc, i, m)
        BY <2>1, <4>1 DEF Holds
      <4> QED
        BY <1>1, <4>1, <4>2 DEF Below
    <3> QED
      BY <3>1
  <2>3. Cardinality((i + 1)..k) = k - i
    <3>1. i + 1 \in Int /\ k \in Int /\ (IF i + 1 > k THEN 0 ELSE k - (i + 1) + 1) = k - i
      BY <1>1, <2>1
    <3> QED
      BY <3>1, FS_Interval
  <2>4. Cardinality((i + 1)..k) <= Cardinality(Below(doc, i))
    BY <1>2, <2>2, FS_Subset
  <2> QED
    BY <1>1, <1>2, <2>1, <2>3, <2>4
<1> QED
  BY <1>2, <1>3

(* Whatever a script does, the elements that get a mark by it are copies   *)
(* that it made.                                                           *)
LEMMA EffectsOK ==
    ASSUME NEW next \in Nat, NEW doc \in Seq(Element(1..next)), NEW marks,
           NEW after \in Effects([doc |-> doc, marks |-> marks, next |-> next])
    PROVE  /\ after.next \in Nat /\ next <= after.next
           /\ after.doc \in Seq(Element(1..after.next))
           /\ marks \subseteq after.marks /\ after.marks \subseteq marks \cup ((next + 1)..after.next)
<1> DEFINE state == [doc |-> doc, marks |-> marks, next |-> next]
<1>1. state.doc = doc /\ state.marks = marks /\ state.next = next
  OBVIOUS
<1>2. CASE after = state
  BY <1>1, <1>2
<1>3. ASSUME NEW i \in DOMAIN doc, after = Removed(state, i)
      PROVE  after.next = next /\ after.marks = marks /\ after.doc \in Seq(Element(1..next))
  <2>1. after.next = next /\ after.marks = marks /\ after.doc = Without(doc, {i})
    BY <1>3 DEF Removed
  <2> QED
    BY <2>1, SublistIs DEF Without
<1>4. ASSUME NEW i \in DOMAIN doc, after = Rewritten(state, i)
      PROVE  /\ after.next \in Nat /\ next <= after.next
             /\ after.doc \in Seq(Element(1..after.next))
             /\ marks \subseteq after.marks /\ after.marks \subseteq marks \cup ((next + 1)..after.next)
  <2> DEFINE below == Below(doc, i)
             Copy(k) == next + (k - i)
             newdoc == [k \in DOMAIN doc |-> IF k \in below THEN [doc[k] EXCEPT !.el = Copy(k)] ELSE doc[k]]
             newnext == next + Cardinality(below)
             newmarks == marks \cup {Copy(k) : k \in {k \in below : doc[k].el \in marks}}
  <2>1. after = [doc |-> newdoc, marks |-> newmarks, next |-> newnext]
    BY <1>1, <1>4, Zenon DEF Rewritten
  <2>2. after.doc = newdoc /\ after.marks = newmarks /\ after.next = newnext
    <3> HIDE DEF newdoc, newmarks, newnext
    <3> QED
      BY <2>1
  <2>3. /\ Cardinality(below) \in Nat
        /\ \A k \in below : k \in DOMAIN doc /\ k - i \in 1..Cardinality(below)
    BY BelowIs
  <2>4. newnext \in Nat /\ next <= newnext
    BY <2>3
  <2>5. ASSUME NEW k \in below PROVE Copy(k) \in (next + 1)..newnext /\ Copy(k) \in 1..newnext
    BY <2>3, <2>5
  <2>6. newmarks \subseteq marks \cup ((next + 1)..newnext)
    BY <2>5
  <2>7. newdoc \in Seq(Element(1..newnext))
    <3>1. DOMAIN doc = 1..Len(doc) /\ Len(doc) \in Nat /\ \A k \in 1..Len(doc) : doc[k] \in Element(1..next)
      OBVIOUS
    <3>2. ASSUME NEW k \in 1..Len(doc) PROVE newdoc[k] \in Element(1..newnext)
      <4>1. doc[k] \in Element(1..next)
        BY <3>1, <3>2
      <4>2. CASE k \in below
        <5>1. newdoc[k] = [doc[k] EXCEPT !.el = Copy(k)]
          BY <3>1, <4>2
        <5>2. Copy(k) \in 1..newnext
          BY <2>5, <4>2
        <5> HIDE DEF newdoc, newnext, Copy, below
        <5> QED
          BY <4>1, <5>1, <5>2 DEF Element
      <4>3. CASE k \notin below
        <5>1. newdoc[k] = doc[k]
          BY <3>1, <4>3
        <5>2. 1..next \subseteq 1..newnext
          BY <2>4
        <5> HIDE DEF newdoc, newnext, Copy, below
        <5> QED
          BY <4>1, <5>1, <5>2 DEF Element
      <4> QED
        BY <4>2, <4>3
    <3>3. newdoc = [k \in 1..Len(doc) |-> newdoc[k]]
      BY <3>1
    <3> HIDE DEF newdoc, newnext
    <3>4. newdoc \in [1..Len(doc) -> Element(1..newnext)]
      BY <3>2, <3>3
    <3> QED
      BY <3>1, <3>4
  <2> HIDE DEF newdoc, newmarks, newnext
  <2>8. marks \subseteq newmarks
    BY DEF newmarks
  <2> QED
    BY <2>2, <2>4, <2>6, <2>7, <2>8
<1>5. \/ after = state \/ \E i \in DOMAIN doc : after = Removed(state, i)
      \/ \E i \in DOMAIN doc : after = Rewritten(state, i)
  BY <1>1 DEF Effects
<1> HIDE DEF state
<1> QED
  BY <1>2, <1>3, <1>4, <1>5

LEMMA ScriptOK ==
    ASSUME McpInv, NEW u \in Urls, NEW page, page = GetOrNavigate(u), NEW marks, marks \subseteq 1..page.next,
           NEW after \in Effects([doc |-> page.doc, marks |-> marks, next |-> page.next]),
           Keep(u, after.doc, after.next), NEW unmark, marked' = after.marks \ unmark,
           made' = made \cup ((page.next + 1)..after.next)
    PROVE  /\ elements' \in Nat /\ elements <= elements' /\ PagesOK' /\ LoadsOK'
           /\ Seq(1..elements) \subseteq Seq(1..elements')
           /\ marked' \subseteq 1..elements' /\ marked' \subseteq (marks \ unmark) \cup made' /\ made \subseteq made'
<1>1. page.next \in Nat /\ elements <= page.next /\ page.doc \in Seq(Element(1..page.next)) /\ elements \in Nat
  BY GetOrNavigateIs DEF McpInv
<1>2. /\ after.next \in Nat /\ page.next <= after.next
      /\ after.doc \in Seq(Element(1..after.next))
      /\ marks \subseteq after.marks /\ after.marks \subseteq marks \cup ((page.next + 1)..after.next)
  BY <1>1, EffectsOK
<1>3. elements <= after.next
  BY <1>1, <1>2
<1>4. /\ elements' = after.next /\ elements' \in Nat /\ PagesOK' /\ LoadsOK'
      /\ Seq(1..elements) \subseteq Seq(1..after.next)
  BY <1>2, <1>3, KeepIs
<1>5. marked' \subseteq 1..after.next /\ marked' \subseteq (marks \ unmark) \cup made' /\ made \subseteq made'
  BY <1>1, <1>2
<1> QED
  BY <1>3, <1>4, <1>5

LEMMA DispatchOK ==
    ASSUME McpInv, NEW u \in Urls, NEW page, page = GetOrNavigate(u), NEW marks, marks \subseteq 1..page.next,
           NEW hit, NEW unmark, Dispatch(u, page, marks, hit, unmark)
    PROVE  /\ elements' \in Nat /\ elements <= elements' /\ PagesOK' /\ LoadsOK'
           /\ Seq(1..elements) \subseteq Seq(1..elements')
           /\ marked' \subseteq 1..elements' /\ marked' \subseteq (marks \ unmark) \cup made' /\ made \subseteq made'
<1> DEFINE state == [doc |-> page.doc, marks |-> marks, next |-> page.next]
<1>1. PICK after \in Effects(state) :
        Keep(u, after.doc, after.next) /\ marked' = after.marks \ unmark
        /\ made' = made \cup ((page.next + 1)..after.next)
  BY DEF Dispatch, Effects
<1> QED
  BY <1>1, ScriptOK

(* The first element of a document in which only one has the mark.         *)
LEMMA FirstIs ==
    ASSUME NEW E, NEW doc \in Seq(Element(E)), NEW S, NEW el, S \cap Els(doc) \subseteq {el}
    PROVE  First(doc, S) = IF el \in S /\ el \in Els(doc) THEN el ELSE Nothing
<1> DEFINE found == {i \in DOMAIN doc : doc[i].el \in S}
<1>1. CASE found = {}
  BY <1>1 DEF First, Els
<1>2. CASE found # {}
  <2>1. found \in SUBSET Nat
    BY DEF Element
  <2>2. \E i \in found : \A j \in found : i <= j
    <3> HIDE DEF found
    <3> QED
      BY <1>2, <2>1, Least
  <2> DEFINE least == CHOOSE i \in found : \A j \in found : i <= j
  <2>3. least \in found
    <3> HIDE DEF found
    <3> QED
      BY <2>2
  <2>4. First(doc, S) = doc[least].el
    BY <1>2 DEF First
  <2>5. doc[least].el \in S /\ doc[least].el \in Els(doc)
    <3> HIDE DEF least
    <3> QED
      BY <2>3 DEF Els
  <2> QED
    BY <2>4, <2>5
<1> QED
  BY <1>1, <1>2

LEMMA ActOK ==
    ASSUME McpInv, NEW u \in Urls, NEW n \in DOMAIN nodeMap, InteractNode(u, n)
    PROVE  NodeReached'
<1> DEFINE page == GetOrNavigate(u)
           el == nodeMap[n]
           marks == marked \cup {el}
           hit == First(page.doc, marks)
           named == {s.el : s \in {s \in seen : s.id = n}}
<1>1. act' = IF named = {} THEN NoAct
             ELSE [by |-> "node", wanted |-> CHOOSE w \in named : TRUE, hit |-> hit,
                   clean |-> marked \cap Els(page.doc) = {}, there |-> named \subseteq Els(page.doc)]
  BY DEF InteractNode
<1>2. named \subseteq {el}
  BY DEF McpInv, NumbersOK
<1>3. CASE named = {}
  BY <1>1, <1>3 DEF NoAct, NodeReached
<1>4. CASE named # {}
  <2>1. named = {el}
    <3> HIDE DEF named, el
    <3> QED
      BY <1>2, <1>4
  <2>2. page.doc \in Seq(Element(1..page.next))
    BY GetOrNavigateIs
  <2> DEFINE clean == marked \cap Els(page.doc) = {}
             there == named \subseteq Els(page.doc)
             wanted == CHOOSE w \in named : TRUE
  <2>3. wanted = el
    <3> HIDE DEF named, el
    <3> QED
      BY <2>1
  <2>4. there <=> el \in Els(page.doc)
    <3> HIDE DEF named, el
    <3> QED
      BY <2>1
  <2>5. clean => hit = IF el \in Els(page.doc) THEN el ELSE Nothing
    <3> HIDE DEF page, el
    <3> SUFFICES ASSUME clean PROVE hit = IF el \in Els(page.doc) THEN el ELSE Nothing
      OBVIOUS
    <3>1. marks \cap Els(page.doc) \subseteq {el} /\ el \in marks
      OBVIOUS
    <3> QED
      BY <2>2, <3>1, FirstIs
  <2>6. act' = [by |-> "node", wanted |-> wanted, hit |-> hit, clean |-> clean, there |-> there]
    BY <1>1, <1>4
  <2> HIDE DEF clean, there, wanted, hit, el
  <2>7. act'.clean = clean /\ act'.there = there /\ act'.wanted = wanted /\ act'.hit = hit
    BY <2>6
  <2> QED
    BY <2>3, <2>4, <2>5, <2>7 DEF NodeReached
<1> QED
  BY <1>3, <1>4

LEMMA McpInvInit == McpInit => McpInv
<1> SUFFICES ASSUME McpInit PROVE McpInv
  OBVIOUS
<1>1. PagesOK
  <2> DEFINE D == Seq(Element(1..elements))
  <2>1. <<>> \in D
    OBVIOUS
  <2> HIDE DEF D
  <2>2. pages \in [Urls -> [cached : BOOLEAN, doc : D]]
    BY <2>1 DEF McpInit
  <2> QED
    BY <2>2 DEF PagesOK, D
<1>2. LoadsOK
  BY DEF McpInit, LoadsOK
<1>3. NodeReached
  BY DEF McpInit, NodeReached, NoAct
<1>4. elements \in Nat /\ messages \in 0..MaxMessages /\ nodeMap \in Seq(1..elements) /\ marked \subseteq 1..elements
  BY MaxMessagesIsNat DEF McpInit
<1> QED
  BY <1>1, <1>2, <1>3, <1>4 DEF McpInit, McpInv, NumbersOK, MarksCleared

LEMMA McpInvNext == McpInv /\ [McpNext]_mcpVars => McpInv'
<1> SUFFICES ASSUME McpInv, [McpNext]_mcpVars PROVE McpInv'
  OBVIOUS
<1>1. CASE UNCHANGED mcpVars
  BY <1>1 DEF mcpVars, McpInv, PagesOK, NumbersOK, MarksCleared, NodeReached, LoadsOK
<1>2. /\ elements \in Nat /\ messages \in 0..MaxMessages /\ nodeMap \in Seq(1..elements)
      /\ marked \subseteq 1..elements /\ marked \subseteq made /\ NumbersOK /\ NodeReached
  BY DEF McpInv, MarksCleared
<1>3. Message => messages' \in 0..MaxMessages
  BY <1>2, MaxMessagesIsNat DEF Message
<1>4. ASSUME Message, UNCHANGED <<session, history>> PROVE McpInv'
  BY <1>2, <1>3, <1>4 DEF McpInv, session, history, PagesOK, NumbersOK, MarksCleared, NodeReached, LoadsOK
<1>5. ASSUME NEW u \in Urls, Message, Keep(u, GetOrNavigate(u).doc, GetOrNavigate(u).next),
             UNCHANGED <<nodeMap, marked, seen, made>>, NodeReached'
      PROVE  McpInv'
  <2>1. /\ elements' \in Nat /\ PagesOK' /\ LoadsOK' /\ Seq(1..elements) \subseteq Seq(1..elements')
        /\ 1..elements \subseteq 1..elements'
    BY <1>5, GetOrNavigateIs, KeepIs
  <2> QED
    BY <1>2, <1>3, <1>5, <2>1 DEF McpInv, NumbersOK, MarksCleared
<1>6. UNCHANGED act => NodeReached'
  BY <1>2 DEF NodeReached
<1>7. act' = NoAct => NodeReached'
  BY DEF NodeReached, NoAct
<1>8. ASSUME NEW u \in Urls, Browse(u) \/ Query(u) PROVE McpInv'
  BY <1>5, <1>6, <1>8 DEF Browse, Query
<1>9. ASSUME NEW u \in Urls, NEW n, NoElement(u, n) PROVE McpInv'
  BY <1>5, <1>7, <1>9 DEF NoElement
<1>10. ASSUME NEW u \in Urls, NEW depth \in Depths, SemanticTree(u, depth) PROVE McpInv'
  <2> DEFINE page == GetOrNavigate(u)
             built == Build(page.doc)
             shown == Shown(CompressTree(built.nodes, depth))
  <2>1. page.next \in Nat /\ elements <= page.next /\ page.doc \in Seq(Element(1..page.next))
    BY GetOrNavigateIs
  <2>2. Message /\ Keep(u, page.doc, page.next) /\ nodeMap' = built.map /\ seen' = shown /\ UNCHANGED <<marked, made, act>>
    BY <1>10 DEF SemanticTree
  <2>3. built.map \in Seq(1..page.next) /\ \A s \in shown : s.id \in DOMAIN built.map /\ built.map[s.id] = s.el
    BY <2>1, ShownNumbers
  <2> HIDE DEF page, built, shown
  <2>4. /\ elements' = page.next /\ elements' \in Nat /\ PagesOK' /\ LoadsOK' /\ 1..elements \subseteq 1..elements'
    BY <2>1, <2>2, KeepIs
  <2>5. NumbersOK'
    BY <2>2, <2>3 DEF NumbersOK
  <2> QED
    BY <1>2, <1>3, <1>6, <2>2, <2>3, <2>4, <2>5 DEF McpInv, MarksCleared
<1>11. ASSUME NEW u \in Urls, Evaluate(u) PROVE McpInv'
  <2> DEFINE page == GetOrNavigate(u)
  <2>1. PICK after \in Effects([doc |-> page.doc, marks |-> marked, next |-> page.next]) :
          /\ Keep(u, after.doc, after.next) /\ marked' = after.marks
          /\ made' = made \cup ((page.next + 1)..after.next)
    BY <1>11 DEF Evaluate
  <2>2. marked' = after.marks \ {}
    BY <2>1
  <2>3. marked \subseteq 1..page.next
    BY <1>2, GetOrNavigateIs
  <2>4. /\ elements' \in Nat /\ PagesOK' /\ LoadsOK' /\ Seq(1..elements) \subseteq Seq(1..elements')
        /\ marked' \subseteq 1..elements' /\ marked' \subseteq (marked \ {}) \cup made' /\ made \subseteq made'
    <3> HIDE DEF page
    <3>1. page = GetOrNavigate(u)
      BY DEF page
    <3> QED
      BY <2>1, <2>2, <2>3, <3>1, ScriptOK
  <2>5. Message /\ UNCHANGED <<nodeMap, seen, act>>
    BY <1>11 DEF Evaluate
  <2> QED
    BY <1>2, <1>3, <1>6, <2>4, <2>5 DEF McpInv, MarksCleared, NumbersOK
<1>12. ASSUME NEW u \in Urls, InteractCss(u) PROVE McpInv'
  <2> DEFINE page == GetOrNavigate(u)
  <2>1. PICK hit : Dispatch(u, page, marked, hit, {})
    BY <1>12 DEF InteractCss
  <2>2. marked \subseteq 1..page.next
    BY <1>2, GetOrNavigateIs
  <2>3. /\ elements' \in Nat /\ PagesOK' /\ LoadsOK' /\ Seq(1..elements) \subseteq Seq(1..elements')
        /\ marked' \subseteq 1..elements' /\ marked' \subseteq (marked \ {}) \cup made' /\ made \subseteq made'
    <3> HIDE DEF page
    <3>1. page = GetOrNavigate(u)
      BY DEF page
    <3> QED
      BY <2>1, <2>2, <3>1, DispatchOK
  <2>4. Message /\ act' = NoAct /\ UNCHANGED <<nodeMap, seen>>
    BY <1>12 DEF InteractCss
  <2> QED
    BY <1>2, <1>3, <1>7, <2>3, <2>4 DEF McpInv, MarksCleared, NumbersOK
<1>13. ASSUME NEW u \in Urls, NEW n, InteractNode(u, n) PROVE McpInv'
  <2> DEFINE page == GetOrNavigate(u)
             el == nodeMap[n]
             marks == marked \cup {el}
             hit == First(page.doc, marks)
  <2>1. Dispatch(u, page, marks, hit, {el}) /\ Message /\ n \in DOMAIN nodeMap /\ UNCHANGED <<nodeMap, seen>>
    BY <1>13 DEF InteractNode
  <2>2. el \in 1..elements
    BY <1>2, <2>1
  <2>3. marks \subseteq 1..page.next
    <3> HIDE DEF el
    <3>1. page.next \in Nat /\ elements <= page.next
      BY GetOrNavigateIs
    <3> HIDE DEF page
    <3> QED
      BY <1>2, <2>2, <3>1
  <2>4. /\ elements' \in Nat /\ PagesOK' /\ LoadsOK' /\ Seq(1..elements) \subseteq Seq(1..elements')
        /\ marked' \subseteq 1..elements' /\ marked' \subseteq (marks \ {el}) \cup made' /\ made \subseteq made'
    <3> HIDE DEF page, marks, el, hit
    <3>1. page = GetOrNavigate(u)
      BY DEF page
    <3> QED
      BY <2>1, <2>3, <3>1, DispatchOK
  <2>5. NodeReached'
    BY <1>13, <2>1, ActOK
  <2>6. marked' \subseteq made'
    BY <1>2, <2>4
  <2> QED
    BY <1>2, <1>3, <2>1, <2>4, <2>5, <2>6 DEF McpInv, MarksCleared, NumbersOK
<1>14. CASE McpNext
  BY <1>4, <1>8, <1>9, <1>10, <1>11, <1>12, <1>13, <1>14 DEF McpNext, NoTool, NavigateFails
<1> QED
  BY <1>1, <1>14

LEMMA McpInvImplies == McpInv => NumbersReach
<1> SUFFICES ASSUME McpInv PROVE NumbersReach
  OBVIOUS
<1>1. McpTypeOK
  <2>1. ASSUME NEW u \in Urls
        PROVE  pages[u].cached \in BOOLEAN /\ \A el \in Els(pages[u].doc) : el \in 1..elements
    <3> DEFINE D == Seq(Element(1..elements))
    <3>1. pages \in [Urls -> [cached : BOOLEAN, doc : D]]
      BY DEF McpInv, PagesOK
    <3>2. pages[u].cached \in BOOLEAN /\ pages[u].doc \in D
      <4> HIDE DEF D
      <4> QED
        BY <3>1
    <3>3. \A i \in DOMAIN pages[u].doc : pages[u].doc[i] \in Element(1..elements)
      BY <3>2
    <3> QED
      BY <3>2, <3>3 DEF Els, Element
  <2>2. \A n \in DOMAIN nodeMap : nodeMap[n] \in 1..elements
    BY DEF McpInv
  <2> QED
    BY <2>1, <2>2 DEF McpInv, McpTypeOK
<1>2. LoadedOnce
  BY DEF McpInv, LoadsOK, LoadedOnce
<1> QED
  BY <1>1, <1>2 DEF McpInv, NumbersReach

(* What the server of MCP answers with holds for every number of URLs,     *)
(* every document and every order of messages: node:N reaches the element  *)
(* that was shown as N, marks are cleared, a URL is loaded once.           *)
THEOREM NumbersReachHolds == McpSpec => []NumbersReach
<1> QED
  BY McpInvInit, McpInvNext, McpInvImplies, PTL DEF McpSpec

-----------------------------------------------------------------------------
(***************************************************************************)
(* 3. SemanticTree                                                         *)
(***************************************************************************)
(* What holds what, in a document or in a tree of it.                      *)
LEMMA HoldsWithin ==
    ASSUME NEW tree, NEW a \in Nat, NEW b \in Nat, NEW c \in Nat, a <= b, b <= c, Holds(tree, a, c)
    PROVE  Holds(tree, a, b)
  BY DEF Holds

LEMMA HoldsOver ==
    ASSUME NEW tree, NEW n \in Nat, \A i \in 1..n : tree[i].depth \in Nat,
           NEW a \in 1..n, NEW b \in 1..n, NEW c \in 1..n, Holds(tree, a, b), Holds(tree, b, c)
    PROVE  Holds(tree, a, c)
<1>1. a <= b /\ b <= c
  BY DEF Holds
<1>2. ASSUME NEW k \in (a + 1)..c PROVE tree[a].depth < tree[k].depth
  <2>1. CASE k <= b
    BY <1>2, <2>1 DEF Holds
  <2>2. CASE k > b
    <3>1. k \in (b + 1)..c /\ k \in 1..n
      BY <1>1, <1>2, <2>2
    <3>2. tree[b].depth < tree[k].depth
      BY <3>1 DEF Holds
    <3>3. a = b \/ b \in (a + 1)..b
      BY <1>1
    <3>4. a = b \/ tree[a].depth < tree[b].depth
      BY <3>3 DEF Holds
    <3>5. tree[a].depth \in Nat /\ tree[b].depth \in Nat /\ tree[k].depth \in Nat
      BY <3>1
    <3> QED
      BY <3>2, <3>4, <3>5
  <2> QED
    BY <1>2, <2>1, <2>2
<1> QED
  BY <1>1, <1>2 DEF Holds

-----------------------------------------------------------------------------
(* Documents                                                               *)
Docs == Seq(Element(Nat))

LEMMA DocIs ==
    ASSUME NEW doc \in Docs
    PROVE  /\ Len(doc) \in Nat /\ DOMAIN doc = 1..Len(doc)
           /\ \A i \in 1..Len(doc) : /\ i \in Nat /\ doc[i].depth \in Nat /\ doc[i].depth # 0
                                     /\ doc[i].kind \in Kinds /\ doc[i].hidden \in BOOLEAN
<1>1. Len(doc) \in Nat /\ DOMAIN doc = 1..Len(doc) /\ \A i \in 1..Len(doc) : doc[i] \in Element(Nat)
  BY DEF Docs
<1> QED
  BY <1>1 DEF Element

LEMMA AboveIs ==
    ASSUME NEW doc \in Docs, NEW i \in DOMAIN doc
    PROVE  /\ Above(doc, i) \subseteq 1..(i - 1) /\ Above(doc, i) \subseteq DOMAIN doc
           /\ \A j \in Above(doc, i) : j \in Nat /\ j < i /\ Holds(doc, j, i)
           /\ \A j \in DOMAIN doc : j < i /\ Holds(doc, j, i) => j \in Above(doc, i)
  BY DocIs DEF Above

LEMMA AboveAbove ==
    ASSUME NEW doc \in Docs, NEW i \in DOMAIN doc, NEW j \in Above(doc, i)
    PROVE  /\ Above(doc, j) \subseteq Above(doc, i)
           /\ \A k \in Above(doc, i) : k = j \/ k \in Above(doc, j) \/ j \in Above(doc, k)
           /\ \A k \in DOMAIN doc : j < k /\ k <= i => j \in Above(doc, k)
<1>1. i \in Nat /\ i \in 1..Len(doc) /\ j \in 1..Len(doc) /\ j < i /\ Holds(doc, j, i)
  BY AboveIs, DocIs
<1>2. ASSUME NEW k \in Above(doc, j) PROVE k \in Above(doc, i)
  <2>1. k \in 1..Len(doc) /\ k < j /\ Holds(doc, k, j)
    BY <1>1, <1>2, AboveIs, DocIs
  <2>2. Holds(doc, k, i)
    BY <1>1, <2>1, DocIs, HoldsOver
  <2> QED
    BY <1>1, <2>1, <2>2, AboveIs, DocIs
<1>3. ASSUME NEW k \in DOMAIN doc, j < k, k <= i PROVE j \in Above(doc, k)
  <2>1. k \in Nat /\ Holds(doc, j, k)
    BY <1>1, <1>3, HoldsWithin, DocIs
  <2> QED
    BY <1>1, <1>3, <2>1, AboveIs, DocIs
<1>4. ASSUME NEW k \in Above(doc, i) PROVE k = j \/ k \in Above(doc, j) \/ j \in Above(doc, k)
  <2>1. k \in 1..Len(doc) /\ k \in DOMAIN doc /\ k < i /\ Holds(doc, k, i)
    BY <1>1, <1>4, AboveIs, DocIs
  <2>2. CASE k < j
    <3>1. Holds(doc, k, j)
      BY <1>1, <2>1, <2>2, HoldsWithin
    <3> QED
      BY <1>1, <2>1, <2>2, <3>1, AboveIs, DocIs
  <2>3. CASE j < k
    BY <1>1, <1>3, <2>1, <2>3
  <2> QED
    BY <1>1, <2>1, <2>2, <2>3
<1> QED
  BY <1>2, <1>3, <1>4

LEMMA NodesAboveIs ==
    ASSUME NEW doc \in Docs, NEW i \in DOMAIN doc
    PROVE  /\ NodesAbove(doc, i) \subseteq Above(doc, i) /\ NodesAbove(doc, i) \subseteq DOMAIN doc
           /\ IsFiniteSet(NodesAbove(doc, i)) /\ Level(doc, i) \in Nat
<1>1. NodesAbove(doc, i) \subseteq 1..(i - 1) /\ i \in Nat
  BY AboveIs, DocIs DEF NodesAbove
<1>2. IsFiniteSet(1..(i - 1))
  BY <1>1, FS_Interval
<1> QED
  BY <1>1, <1>2, AboveIs, FS_Subset, FS_CardinalityType DEF NodesAbove, Level

(* The nodes above what has a node, or stands beside it, have nodes.       *)
LEMMA NodesHaveNodes ==
    ASSUME NEW doc \in Docs, NEW i \in DOMAIN doc, HasNode(doc, i), NEW j \in NodesAbove(doc, i)
    PROVE  /\ HasNode(doc, j) /\ j \in Above(doc, i) /\ j \in DOMAIN doc /\ j < i /\ ~Leaf(doc[j].kind)
           /\ NodesAbove(doc, j) \subseteq NodesAbove(doc, i) /\ j \notin NodesAbove(doc, j)
           /\ Level(doc, j) < Level(doc, i)
<1>1. j \in Above(doc, i) /\ j \in DOMAIN doc /\ j < i /\ Opens(doc[j].kind) /\ j \in Nat
  BY AboveIs, DocIs DEF NodesAbove
<1>2. Above(doc, j) \subseteq Above(doc, i)
  BY <1>1, AboveAbove
<1>3. HasNode(doc, j)
  BY <1>1, <1>2 DEF HasNode, MakesNode
<1>4. NodesAbove(doc, j) \subseteq NodesAbove(doc, i)
  BY <1>2 DEF NodesAbove
<1>5. j \notin NodesAbove(doc, j)
  BY <1>1, AboveIs DEF NodesAbove
<1>6. Level(doc, j) < Level(doc, i)
  <2>1. /\ IsFiniteSet(NodesAbove(doc, i)) /\ Cardinality(NodesAbove(doc, i)) \in Nat
        /\ IsFiniteSet(NodesAbove(doc, j)) /\ Cardinality(NodesAbove(doc, j)) \in Nat
    BY <1>1, NodesAboveIs DEF Level
  <2>2. Cardinality(NodesAbove(doc, j)) < Cardinality(NodesAbove(doc, i))
    <3>1. NodesAbove(doc, j) # NodesAbove(doc, i)
      BY <1>5
    <3>2. Cardinality(NodesAbove(doc, j)) <= Cardinality(NodesAbove(doc, i))
      BY <1>4, <2>1, FS_Subset
    <3>3. Cardinality(NodesAbove(doc, j)) # Cardinality(NodesAbove(doc, i))
      BY <1>4, <2>1, <3>1, FS_Subset
    <3> QED
      BY <2>1, <3>2, <3>3
  <2> QED
    BY <2>2 DEF Level
<1>7. ~Leaf(doc[j].kind)
  BY <1>1 DEF Opens, Leaf
<1> QED
  BY <1>1, <1>3, <1>4, <1>5, <1>6, <1>7

LEMMA LevelMonotone ==
    ASSUME NEW doc \in Docs, NEW i \in DOMAIN doc, NEW j \in DOMAIN doc, NodesAbove(doc, i) \subseteq NodesAbove(doc, j)
    PROVE  /\ Level(doc, i) <= Level(doc, j) /\ Level(doc, i) \in Nat /\ Level(doc, j) \in Nat
           /\ Level(doc, i) = Level(doc, j) => NodesAbove(doc, i) = NodesAbove(doc, j)
<1>1. /\ IsFiniteSet(NodesAbove(doc, i)) /\ Level(doc, i) \in Nat
      /\ IsFiniteSet(NodesAbove(doc, j)) /\ Level(doc, j) \in Nat
  BY NodesAboveIs
<1>2. Level(doc, i) <= Level(doc, j)
  BY <1>1, FS_Subset DEF Level
<1>3. Level(doc, i) = Level(doc, j) => NodesAbove(doc, i) = NodesAbove(doc, j)
  BY <1>1, FS_Subset DEF Level
<1> QED
  BY <1>1, <1>2, <1>3

LEMMA NodesInList ==
    ASSUME NEW doc \in Docs, NEW i \in DOMAIN doc, NEW l \in Above(doc, i), HasNode(doc, l), Leaf(doc[l].kind),
           NEW m \in Above(doc, i), HasNode(doc, m), Opens(doc[m].kind)
    PROVE  m \in NodesAbove(doc, l)
<1>1. m # l
  BY DEF Opens, Leaf
<1>2. l \notin Above(doc, m)
  BY DEF HasNode
<1> QED
  BY <1>1, <1>2, AboveAbove DEF NodesAbove

(* Where the walk comes to the next node outside i, it is no deeper than i. *)
LEMMA NextOutside ==
    ASSUME NEW doc \in Docs, NEW i \in DOMAIN doc, HasNode(doc, i), NEW j \in DOMAIN doc, HasNode(doc, j),
           i < j, i \notin Above(doc, j)
    PROVE  \E x \in DOMAIN doc : i < x /\ x <= j /\ HasNode(doc, x) /\ i \notin Above(doc, x) /\ Level(doc, x) <= Level(doc, i)
<1> DEFINE S == {x \in DOMAIN doc : i < x /\ x <= j /\ HasNode(doc, x) /\ i \notin Above(doc, x)}
<1>1. S \in SUBSET Nat /\ j \in S
  BY DocIs
<1>2. PICK x \in S : \A y \in S : x <= y
  <2> HIDE DEF S
  <2> QED
    BY <1>1, Least
<1>3. x \in DOMAIN doc /\ i < x /\ x <= j /\ HasNode(doc, x) /\ i \notin Above(doc, x) /\ x \in Nat /\ i \in Nat /\ j \in Nat
  BY DocIs
<1>4. ASSUME NEW m \in NodesAbove(doc, x) PROVE m \in NodesAbove(doc, i)
  <2>1. m \in DOMAIN doc /\ m < x /\ m \in Above(doc, x) /\ HasNode(doc, m) /\ Opens(doc[m].kind) /\ m \in Nat
    BY <1>3, <1>4, NodesHaveNodes, DocIs DEF NodesAbove
  <2>2. m # i
    BY <1>3, <2>1
  <2>3. CASE m < i
    <3>1. m \in Above(doc, i)
      BY <1>3, <2>1, <2>3, AboveAbove
    <3> QED
      BY <2>1, <3>1 DEF NodesAbove
  <2>4. CASE i < m
    <3>1. i \in Above(doc, m)
      BY <1>2, <1>3, <2>1, <2>4
    <3>2. i \in Above(doc, x)
      BY <1>3, <2>1, <3>1, AboveAbove
    <3> QED
      BY <1>3, <3>2
  <2> QED
    BY <1>3, <2>1, <2>2, <2>3, <2>4
<1>5. Level(doc, x) <= Level(doc, i)
  BY <1>3, <1>4, LevelMonotone
<1> QED
  BY <1>3, <1>5

-----------------------------------------------------------------------------
(* A tree reads a document: at which elements its nodes are.               *)
NodeDepth(doc, i, depth) ==
    IF HasNode(doc, i) THEN depth = Level(doc, i) + 1
    ELSE \E l \in Above(doc, i) : HasNode(doc, l) /\ Leaf(doc[l].kind) /\ depth = Level(doc, l) + 2

Describes(t, doc, i) ==
    /\ t.el = doc[i].el /\ NodeDepth(doc, i, t.depth)
    /\ t.role = IF HasNode(doc, i) THEN doc[i].kind ELSE "listitem"
    /\ HasNode(doc, i) => t.hidden = doc[i].hidden

Reads(tree, doc, at, P) ==
    /\ Lists(at, P) /\ P \subseteq DOMAIN doc /\ DOMAIN tree = DOMAIN at
    /\ \A p \in DOMAIN at : Describes(tree[p], doc, at[p])

Upward(doc, P) == \A i \in P : HasNode(doc, i) => NodesAbove(doc, i) \subseteq P
HoldsAsAbove(tree, doc, at) ==
    \A p, q \in DOMAIN at : p < q /\ HasNode(doc, at[q]) => (Holds(tree, p, q) <=> at[p] \in NodesAbove(doc, at[q]))

LEMMA ReadsIs ==
    ASSUME NEW doc \in Docs, NEW tree, NEW at, NEW P, Reads(tree, doc, at, P)
    PROVE  /\ Len(at) \in Nat /\ DOMAIN at = 1..Len(at) /\ DOMAIN tree = 1..Len(at)
           /\ \A p \in 1..Len(at) : /\ at[p] \in P /\ at[p] \in DOMAIN doc /\ at[p] \in Nat /\ tree[p].depth \in Nat
                                    /\ Describes(tree[p], doc, at[p])
           /\ \A p, q \in 1..Len(at) : (p < q <=> at[p] < at[q]) /\ (p = q <=> at[p] = at[q])
           /\ \A x \in P : \E p \in 1..Len(at) : at[p] = x
<1>1. at \in Seq(P) /\ Len(at) \in Nat /\ DOMAIN at = 1..Len(at) /\ DOMAIN tree = 1..Len(at)
  BY DEF Reads, Lists
<1>2. ASSUME NEW p \in 1..Len(at)
      PROVE  /\ at[p] \in P /\ at[p] \in DOMAIN doc /\ at[p] \in Nat /\ tree[p].depth \in Nat
             /\ Describes(tree[p], doc, at[p])
  <2>1. at[p] \in P /\ at[p] \in DOMAIN doc /\ at[p] \in Nat /\ Describes(tree[p], doc, at[p])
    BY <1>1, <1>2, DocIs DEF Reads
  <2>2. CASE HasNode(doc, at[p])
    BY <2>1, <2>2, NodesAboveIs DEF Describes, NodeDepth
  <2>3. CASE ~HasNode(doc, at[p])
    <3>1. PICK l \in Above(doc, at[p]) : tree[p].depth = Level(doc, l) + 2
      BY <2>1, <2>3 DEF Describes, NodeDepth
    <3>2. l \in DOMAIN doc
      BY <2>1, AboveIs
    <3> QED
      BY <2>1, <3>1, <3>2, NodesAboveIs
  <2> QED
    BY <2>1, <2>2, <2>3
<1>3. ASSUME NEW p \in 1..Len(at), NEW q \in 1..Len(at) PROVE (p < q <=> at[p] < at[q]) /\ (p = q <=> at[p] = at[q])
  <2>1. at[p] \in Nat /\ at[q] \in Nat
    BY <1>2
  <2>2. (p < q => at[p] < at[q]) /\ (q < p => at[q] < at[p])
    BY <1>1 DEF Reads, Lists, Increasing
  <2> QED
    BY <2>1, <2>2
<1>4. \A x \in P : \E p \in 1..Len(at) : at[p] = x
  BY <1>1 DEF Reads, Lists
<1> QED
  BY <1>1, <1>2, <1>3, <1>4

(* In the tree that the builder makes.                                     *)
LEMMA BuiltHolds ==
    ASSUME NEW doc \in Docs, NEW tree, NEW at, NEW P, Reads(tree, doc, at, P),
           \A i \in DOMAIN doc : HasNode(doc, i) => i \in P
    PROVE  HoldsAsAbove(tree, doc, at)
<1> SUFFICES ASSUME NEW p \in 1..Len(at), NEW q \in 1..Len(at), p < q, HasNode(doc, at[q])
             PROVE  Holds(tree, p, q) <=> at[p] \in NodesAbove(doc, at[q])
  BY ReadsIs DEF HoldsAsAbove
<1> DEFINE i == at[p]
           j == at[q]
<1>1. /\ i \in DOMAIN doc /\ j \in DOMAIN doc /\ i \in Nat /\ j \in Nat /\ i < j
      /\ Describes(tree[p], doc, i) /\ Describes(tree[q], doc, j)
  BY ReadsIs
<1>2. tree[q].depth = Level(doc, j) + 1
  BY <1>1 DEF Describes, NodeDepth
<1>3. ASSUME i \in NodesAbove(doc, j) PROVE Holds(tree, p, q)
  <2>1. HasNode(doc, i) /\ i \in Above(doc, j) /\ Opens(doc[i].kind)
    BY <1>1, <1>3, NodesHaveNodes DEF NodesAbove
  <2>2. tree[p].depth = Level(doc, i) + 1 /\ Level(doc, i) \in Nat
    BY <1>1, <2>1, NodesAboveIs DEF Describes, NodeDepth
  <2>3. ASSUME NEW r \in (p + 1)..q PROVE tree[p].depth < tree[r].depth
    <3> DEFINE k == at[r]
    <3>1. r \in 1..Len(at) /\ p < r /\ r <= q /\ (r < q \/ r = q)
      BY <2>3, ReadsIs
    <3>2. k \in DOMAIN doc /\ k \in Nat /\ i < k /\ k <= j /\ Describes(tree[r], doc, k)
      <4>1. i < k /\ (k < j \/ k = j) /\ k \in Nat /\ k \in DOMAIN doc /\ Describes(tree[r], doc, k)
        BY <3>1, ReadsIs
      <4> QED
        BY <1>1, <4>1
    <3>3. i \in Above(doc, k)
      BY <1>1, <2>1, <3>2, AboveAbove
    <3>4. CASE HasNode(doc, k)
      <4>1. tree[r].depth = Level(doc, k) + 1
        BY <3>2, <3>4 DEF Describes, NodeDepth
      <4>2. i \in NodesAbove(doc, k)
        BY <2>1, <3>3 DEF NodesAbove
      <4>3. Level(doc, i) < Level(doc, k) /\ Level(doc, k) \in Nat
        BY <3>2, <3>4, <4>2, NodesHaveNodes, NodesAboveIs
      <4> QED
        BY <2>2, <4>1, <4>3
    <3>5. CASE ~HasNode(doc, k)
      <4>1. PICK l \in Above(doc, k) : HasNode(doc, l) /\ Leaf(doc[l].kind) /\ tree[r].depth = Level(doc, l) + 2
        BY <3>2, <3>5 DEF Describes, NodeDepth
      <4>2. l \in DOMAIN doc
        BY <3>2, AboveIs
      <4>3. i \in NodesAbove(doc, l)
        BY <2>1, <3>2, <3>3, <4>1, NodesInList
      <4>4. Level(doc, i) < Level(doc, l) /\ Level(doc, l) \in Nat
        BY <4>1, <4>2, <4>3, NodesHaveNodes, NodesAboveIs
      <4> QED
        BY <2>2, <4>1, <4>4
    <3> QED
      BY <3>4, <3>5
  <2> QED
    BY <2>3 DEF Holds
<1>4. ASSUME i \notin NodesAbove(doc, j) PROVE ~Holds(tree, p, q)
  <2>1. PICK s \in DOMAIN doc : /\ HasNode(doc, s) /\ s <= i /\ s \notin Above(doc, j)
                                /\ s = i \/ (s \in Above(doc, i) /\ Leaf(doc[s].kind))
                                /\ Level(doc, s) + 1 <= tree[p].depth /\ s \in Nat
    <3>1. CASE HasNode(doc, i)
      <4>1. i \notin Above(doc, j)
        BY <1>1, <1>4, <3>1 DEF NodesAbove, HasNode, MakesNode
      <4>2. tree[p].depth = Level(doc, i) + 1 /\ Level(doc, i) \in Nat
        BY <1>1, <3>1, NodesAboveIs DEF Describes, NodeDepth
      <4>3. Level(doc, i) + 1 <= tree[p].depth /\ i <= i
        BY <1>1, <4>2
      <4>4. /\ i \in DOMAIN doc /\ HasNode(doc, i) /\ i <= i /\ i \notin Above(doc, j)
            /\ Level(doc, i) + 1 <= tree[p].depth /\ i \in Nat
        BY <1>1, <3>1, <4>1, <4>3
      <4> HIDE DEF i, j
      <4> QED
        BY <4>4, Zenon
    <3>2. CASE ~HasNode(doc, i)
      <4>1. PICK l \in Above(doc, i) : HasNode(doc, l) /\ Leaf(doc[l].kind) /\ tree[p].depth = Level(doc, l) + 2
        BY <1>1, <3>2 DEF Describes, NodeDepth
      <4>2. l \in DOMAIN doc /\ l < i /\ l \in Nat /\ Level(doc, l) \in Nat
        BY <1>1, AboveIs, DocIs, NodesAboveIs
      <4>3. l \notin Above(doc, j)
        BY <4>1 DEF HasNode
      <4> QED
        BY <1>1, <4>1, <4>2, <4>3
    <3> QED
      BY <3>1, <3>2
  <2>2. PICK x \in DOMAIN doc : s < x /\ x <= j /\ HasNode(doc, x) /\ s \notin Above(doc, x) /\ Level(doc, x) <= Level(doc, s)
    BY <1>1, <2>1, NextOutside
  <2>3. x \in Nat /\ Level(doc, x) \in Nat /\ Level(doc, s) \in Nat
    BY <2>1, <2>2, DocIs, NodesAboveIs
  <2>4. i < x
    <3> SUFFICES ASSUME x <= i PROVE FALSE
      BY <1>1, <2>3
    <3>1. s \in Above(doc, i) /\ s < x
      BY <1>1, <2>1, <2>2, <2>3
    <3>2. s \in Above(doc, x)
      BY <1>1, <2>2, <3>1, AboveAbove
    <3> QED
      BY <2>2, <3>2
  <2>5. PICK r \in 1..Len(at) : at[r] = x
    BY <2>2, ReadsIs
  <2>6. tree[r].depth = Level(doc, x) + 1
    <3>1. Describes(tree[r], doc, x)
      BY <2>5, ReadsIs
    <3> QED
      BY <2>2, <3>1 DEF Describes, NodeDepth
  <2>7. p < r /\ (r < q \/ r = q)
    <3>1. x < j \/ x = j
      BY <1>1, <2>2, <2>3
    <3> QED
      BY <2>4, <2>5, <3>1, ReadsIs
  <2>8. r \in (p + 1)..q
    BY <2>7
  <2>9. ~(tree[p].depth < tree[r].depth)
    <3>1. tree[p].depth \in Nat
      BY ReadsIs
    <3> QED
      BY <2>1, <2>2, <2>3, <2>6, <3>1
  <2> QED
    BY <2>8, <2>9 DEF Holds
<1> QED
  BY <1>3, <1>4

-----------------------------------------------------------------------------
(* What is left of a tree when nodes are dropped with what they hold.      *)
LEMMA ListsIs ==
    ASSUME NEW S, NEW ix, Lists(ix, S), S \subseteq Nat
    PROVE  /\ Len(ix) \in Nat /\ DOMAIN ix = 1..Len(ix)
           /\ \A p \in 1..Len(ix) : ix[p] \in S /\ ix[p] \in Nat
           /\ \A p, q \in 1..Len(ix) : (p < q <=> ix[p] < ix[q]) /\ (p = q <=> ix[p] = ix[q])
           /\ \A x \in S : \E p \in 1..Len(ix) : ix[p] = x
<1>1. ix \in Seq(S) /\ Len(ix) \in Nat /\ DOMAIN ix = 1..Len(ix)
  BY DEF Lists
<1>2. \A p \in 1..Len(ix) : ix[p] \in S /\ ix[p] \in Nat
  <2>1. \A p \in 1..Len(ix) : ix[p] \in S
    BY <1>1
  <2> QED
    BY <2>1
<1>3. ASSUME NEW p \in 1..Len(ix), NEW q \in 1..Len(ix) PROVE (p < q <=> ix[p] < ix[q]) /\ (p = q <=> ix[p] = ix[q])
  <2>1. ix[p] \in Nat /\ ix[q] \in Nat
    BY <1>2
  <2>2. (p < q => ix[p] < ix[q]) /\ (q < p => ix[q] < ix[p])
    BY <1>1 DEF Lists, Increasing
  <2> QED
    BY <2>1, <2>2
<1> QED
  BY <1>1, <1>2, <1>3 DEF Lists

LEMMA ListsOfLists ==
    ASSUME NEW S \in SUBSET Nat, NEW op, Lists(op, S), NEW K, K \subseteq DOMAIN op, NEW ix, Lists(ix, K),
           NEW at, at = [k \in DOMAIN ix |-> op[ix[k]]]
    PROVE  Lists(at, {op[k] : k \in K}) /\ DOMAIN at = DOMAIN ix
<1>1. /\ Len(op) \in Nat /\ DOMAIN op = 1..Len(op)
      /\ \A p \in 1..Len(op) : op[p] \in S /\ op[p] \in Nat
      /\ \A p, q \in 1..Len(op) : (p < q <=> op[p] < op[q])
  BY ListsIs
<1>2. /\ Len(ix) \in Nat /\ DOMAIN ix = 1..Len(ix)
      /\ \A p \in 1..Len(ix) : ix[p] \in K /\ ix[p] \in 1..Len(op)
      /\ \A p, q \in 1..Len(ix) : (p < q <=> ix[p] < ix[q])
      /\ \A x \in K : \E p \in 1..Len(ix) : ix[p] = x
  <2>1. K \subseteq Nat
    BY <1>1
  <2>2. /\ Len(ix) \in Nat /\ DOMAIN ix = 1..Len(ix)
        /\ \A p \in 1..Len(ix) : ix[p] \in K /\ ix[p] \in Nat
        /\ \A p, q \in 1..Len(ix) : (p < q <=> ix[p] < ix[q]) /\ (p = q <=> ix[p] = ix[q])
        /\ \A x \in K : \E p \in 1..Len(ix) : ix[p] = x
    BY <2>1, ListsIs
  <2> QED
    BY <1>1, <2>2
<1> DEFINE T == {op[k] : k \in K}
<1>3. DOMAIN at = 1..Len(ix) /\ \A k \in 1..Len(ix) : at[k] = op[ix[k]]
  BY <1>2
<1>4. at \in Seq(T)
  <2>1. \A k \in 1..Len(ix) : at[k] \in T
    BY <1>2, <1>3
  <2>2. at = [k \in 1..Len(ix) |-> at[k]]
    BY <1>2
  <2> HIDE DEF T
  <2>3. at \in [1..Len(ix) -> T]
    BY <2>1, <2>2
  <2> QED
    BY <1>2, <2>3
<1>5. Increasing(at)
  <2>1. ASSUME NEW p \in 1..Len(ix), NEW q \in 1..Len(ix), p < q PROVE at[p] < at[q]
    <3>1. ix[p] < ix[q] /\ ix[p] \in 1..Len(op) /\ ix[q] \in 1..Len(op)
      BY <1>2, <2>1
    <3>2. op[ix[p]] < op[ix[q]]
      BY <1>1, <3>1
    <3> QED
      BY <1>3, <3>2
  <2> QED
    BY <1>3, <2>1 DEF Increasing
<1>6. ASSUME NEW x \in T PROVE \E k \in DOMAIN at : at[k] = x
  <2>1. PICK k \in K : x = op[k]
    BY <1>6
  <2>2. PICK p \in 1..Len(ix) : ix[p] = k
    BY <1>2, <2>1
  <2> QED
    BY <1>3, <2>1, <2>2
<1> QED
  BY <1>2, <1>3, <1>4, <1>5, <1>6 DEF Lists

Kept(tree, dropped) == {i \in DOMAIN tree : \A j \in 1..i : Holds(tree, j, i) => j \notin dropped}

LEMMA HoldsKept ==
    ASSUME NEW tree, NEW n \in Nat, DOMAIN tree = 1..n, \A i \in 1..n : tree[i].depth \in Nat,
           NEW dropped, NEW ix, Lists(ix, Kept(tree, dropped)), NEW sub, From(sub, tree, ix),
           NEW p \in DOMAIN ix, NEW q \in DOMAIN ix, p < q
    PROVE  Holds(sub, p, q) <=> Holds(tree, ix[p], ix[q])
<1> DEFINE K == Kept(tree, dropped)
<1>1. /\ Len(ix) \in Nat /\ DOMAIN ix = 1..Len(ix)
      /\ \A k \in 1..Len(ix) : ix[k] \in K /\ ix[k] \in 1..n
      /\ \A k, l \in 1..Len(ix) : (k < l <=> ix[k] < ix[l]) /\ (k = l <=> ix[k] = ix[l])
      /\ \A x \in K : \E k \in 1..Len(ix) : ix[k] = x
  <2>1. K \subseteq 1..n
    BY DEF Kept
  <2>2. K \subseteq Nat
    BY <2>1
  <2>3. /\ Len(ix) \in Nat /\ DOMAIN ix = 1..Len(ix)
        /\ \A k \in 1..Len(ix) : ix[k] \in K /\ ix[k] \in Nat
        /\ \A k, l \in 1..Len(ix) : (k < l <=> ix[k] < ix[l]) /\ (k = l <=> ix[k] = ix[l])
        /\ \A x \in K : \E k \in 1..Len(ix) : ix[k] = x
    BY <2>2, ListsIs
  <2> QED
    BY <2>1, <2>3
<1>2. \A k \in 1..Len(ix) : sub[k] = tree[ix[k]]
  BY <1>1 DEF From
<1>3. p \in 1..Len(ix) /\ q \in 1..Len(ix) /\ ix[p] < ix[q] /\ ix[p] \in 1..n /\ ix[q] \in 1..n
  BY <1>1
<1>4. ASSUME Holds(tree, ix[p], ix[q]) PROVE Holds(sub, p, q)
  <2>1. ASSUME NEW k \in (p + 1)..q PROVE sub[p].depth < sub[k].depth
    <3>1. k \in 1..Len(ix) /\ p < k /\ (k < q \/ k = q)
      BY <1>3, <2>1
    <3>2. ix[p] < ix[k] /\ (ix[k] < ix[q] \/ ix[k] = ix[q]) /\ ix[k] \in 1..n
      BY <1>1, <1>3, <3>1
    <3>3. ix[k] \in (ix[p] + 1)..ix[q]
      BY <1>3, <3>2
    <3>4. tree[ix[p]].depth < tree[ix[k]].depth
      BY <1>4, <3>3 DEF Holds
    <3> QED
      BY <1>2, <1>3, <3>1, <3>4
  <2> QED
    BY <1>3, <2>1 DEF Holds
<1>5. ASSUME ~Holds(tree, ix[p], ix[q]) PROVE ~Holds(sub, p, q)
  <2> DEFINE M == {m \in (ix[p] + 1)..ix[q] : tree[m].depth <= tree[ix[p]].depth}
  <2>1. M # {} /\ M \in SUBSET (0..n)
    <3>1. PICK m \in (ix[p] + 1)..ix[q] : ~(tree[ix[p]].depth < tree[m].depth)
      BY <1>3, <1>5 DEF Holds
    <3>2. m \in 1..n /\ tree[m].depth \in Nat /\ tree[ix[p]].depth \in Nat
      BY <1>3, <3>1
    <3>3. M \subseteq 0..n
      BY <1>3
    <3> QED
      BY <3>1, <3>2, <3>3
  <2>2. PICK m \in M : \A k \in M : k <= m
    <3> HIDE DEF M
    <3> QED
      BY <2>1, Greatest
  <2>3. m \in 1..n /\ ix[p] < m /\ m <= ix[q] /\ tree[m].depth <= tree[ix[p]].depth
    BY <1>3
  <2>4. Holds(tree, m, ix[q])
    <3>1. ASSUME NEW k \in (m + 1)..ix[q] PROVE tree[m].depth < tree[k].depth
      <4>1. k \in (ix[p] + 1)..ix[q] /\ k \in 1..n /\ ~(k <= m)
        BY <1>3, <2>3, <3>1
      <4>2. ~(tree[k].depth <= tree[ix[p]].depth)
        BY <2>2, <4>1
      <4>3. tree[k].depth \in Nat /\ tree[m].depth \in Nat /\ tree[ix[p]].depth \in Nat
        BY <1>3, <2>3, <4>1
      <4> QED
        BY <2>3, <4>2, <4>3
    <3> QED
      BY <2>3, <3>1 DEF Holds
  <2>5. m \in K
    <3>1. ASSUME NEW j \in 1..m, Holds(tree, j, m) PROVE j \notin dropped
      <4>1. j \in 1..n /\ j \in 1..ix[q]
        BY <1>3, <2>3, <3>1
      <4>2. Holds(tree, j, ix[q])
        BY <1>3, <2>3, <2>4, <3>1, <4>1, HoldsOver
      <4>3. ix[q] \in K
        BY <1>1, <1>3
      <4> QED
        BY <4>1, <4>2, <4>3 DEF Kept
    <3> QED
      BY <2>3, <3>1 DEF Kept
  <2>6. PICK r \in 1..Len(ix) : ix[r] = m
    BY <1>1, <2>5
  <2>7. p < r /\ (r < q \/ r = q)
    <3>1. ix[p] < ix[r] /\ (ix[r] < ix[q] \/ ix[r] = ix[q])
      BY <1>3, <2>3, <2>6
    <3> HIDE DEF K, M
    <3> QED
      BY <1>1, <1>3, <3>1
  <2>8. r \in (p + 1)..q
    BY <1>1, <1>3, <2>7
  <2>9. sub[r].depth <= sub[p].depth /\ sub[r].depth \in Nat /\ sub[p].depth \in Nat
    BY <1>2, <1>3, <2>3, <2>6
  <2> QED
    BY <2>8, <2>9 DEF Holds
<1> QED
  BY <1>4, <1>5

LEMMA WithoutIs ==
    ASSUME NEW T, NEW tree \in Seq(T), NEW dropped
    PROVE  \E ix : Lists(ix, Kept(tree, dropped)) /\ From(Without(tree, dropped), tree, ix)
<1> DEFINE K == Kept(tree, dropped)
<1>1. Without(tree, dropped) = Sublist(tree, K)
  BY DEF Without, Kept
<1>2. K \cap DOMAIN tree = K
  BY DEF Kept
<1> HIDE DEF K
<1>3. \E ix : Lists(ix, K) /\ From(Without(tree, dropped), tree, ix)
  BY <1>1, <1>2, SublistIs
<1> QED
  BY <1>3 DEF K

(* A pass over the tree that drops the nodes of the elements Bad.          *)
LeftOf(doc, P, Bad, Q) ==
    \A x \in DOMAIN doc : HasNode(doc, x) => (x \in Q <=> x \in P /\ \A y \in NodesAbove(doc, x) \cup {x} : y \notin Bad)

LEMMA Pass ==
    ASSUME NEW doc \in Docs, NEW T, NEW tree \in Seq(T), NEW at, NEW P,
           Reads(tree, doc, at, P), Upward(doc, P), HoldsAsAbove(tree, doc, at),
           NEW dropped, NEW Bad,
           \A p \in DOMAIN at : HasNode(doc, at[p]) => (p \in dropped <=> at[p] \in Bad),
           NEW sub, NEW ix, Lists(ix, Kept(tree, dropped)), From(sub, tree, ix)
    PROVE  \E after, Q :
              /\ Reads(sub, doc, after, Q) /\ Upward(doc, Q) /\ HoldsAsAbove(sub, doc, after) /\ LeftOf(doc, P, Bad, Q)
<1> DEFINE K == Kept(tree, dropped)
           Q == {at[k] : k \in K}
<1>1. /\ Len(at) \in Nat /\ DOMAIN at = 1..Len(at) /\ DOMAIN tree = 1..Len(at)
      /\ \A p \in 1..Len(at) : /\ at[p] \in P /\ at[p] \in DOMAIN doc /\ at[p] \in Nat /\ tree[p].depth \in Nat
                               /\ Describes(tree[p], doc, at[p])
      /\ \A p, q \in 1..Len(at) : (p < q <=> at[p] < at[q]) /\ (p = q <=> at[p] = at[q])
      /\ \A x \in P : \E p \in 1..Len(at) : at[p] = x
  BY ReadsIs
<1>2. P \subseteq DOMAIN doc /\ P \in SUBSET Nat /\ Lists(at, P)
  <2>1. P \subseteq DOMAIN doc /\ Lists(at, P)
    BY DEF Reads
  <2> QED
    BY <2>1, DocIs
<1>3. Lists(ix, K) /\ From(sub, tree, ix)
  OBVIOUS
<1>4. K \subseteq DOMAIN at /\ K \subseteq Nat
  BY <1>1 DEF Kept
<1> DEFINE after == [k \in DOMAIN ix |-> at[ix[k]]]
<1>5. /\ Len(ix) \in Nat /\ DOMAIN ix = 1..Len(ix)
      /\ \A k \in 1..Len(ix) : ix[k] \in K /\ ix[k] \in 1..Len(at)
      /\ \A k, l \in 1..Len(ix) : (k < l <=> ix[k] < ix[l])
  <2> HIDE DEF K
  <2>1. /\ Len(ix) \in Nat /\ DOMAIN ix = 1..Len(ix)
        /\ \A k \in 1..Len(ix) : ix[k] \in K /\ ix[k] \in Nat
        /\ \A k, l \in 1..Len(ix) : (k < l <=> ix[k] < ix[l])
    BY <1>3, <1>4, ListsIs
  <2> QED
    BY <1>1, <1>4, <2>1
<1>6. Lists(after, Q) /\ DOMAIN after = DOMAIN ix
  <2>1. after = [k \in DOMAIN ix |-> at[ix[k]]]
    OBVIOUS
  <2> HIDE DEF K, after
  <2> QED
    BY <1>2, <1>3, <1>4, <2>1, ListsOfLists
<1>7. \A k \in 1..Len(ix) : after[k] = at[ix[k]] /\ sub[k] = tree[ix[k]]
  BY <1>3, <1>5 DEF From
<1> HIDE DEF after
<1>8. Q \subseteq P /\ Q \subseteq DOMAIN doc
  BY <1>1, <1>2, <1>4
<1>9. Reads(sub, doc, after, Q)
  <2>1. DOMAIN sub = DOMAIN after
    BY <1>3, <1>6 DEF From
  <2>2. ASSUME NEW k \in DOMAIN after PROVE Describes(sub[k], doc, after[k])
    <3>1. k \in 1..Len(ix) /\ ix[k] \in 1..Len(at)
      BY <1>5, <1>6, <2>2
    <3> QED
      BY <1>1, <1>7, <3>1
  <2> HIDE DEF Q
  <2> QED
    BY <1>6, <1>8, <2>1, <2>2 DEF Reads
<1>10. HoldsAsAbove(sub, doc, after)
  <2>1. ASSUME NEW p \in 1..Len(ix), NEW q \in 1..Len(ix), p < q, HasNode(doc, after[q])
        PROVE  Holds(sub, p, q) <=> after[p] \in NodesAbove(doc, after[q])
    <3>1. Holds(sub, p, q) <=> Holds(tree, ix[p], ix[q])
      BY <1>1, <1>3, <1>5, <2>1, HoldsKept
    <3>2. ix[p] \in DOMAIN at /\ ix[q] \in DOMAIN at /\ ix[p] < ix[q] /\ HasNode(doc, at[ix[q]])
      BY <1>1, <1>5, <1>7, <2>1
    <3>3. Holds(tree, ix[p], ix[q]) <=> at[ix[p]] \in NodesAbove(doc, at[ix[q]])
      BY <3>2 DEF HoldsAsAbove
    <3> QED
      BY <1>7, <3>1, <3>3
  <2> QED
    BY <1>5, <1>6, <2>1 DEF HoldsAsAbove
<1>11. ASSUME NEW x \in DOMAIN doc, HasNode(doc, x)
       PROVE  x \in Q <=> x \in P /\ \A y \in NodesAbove(doc, x) \cup {x} : y \notin Bad
  <2>1. ASSUME x \in Q, NEW y \in NodesAbove(doc, x) \cup {x} PROVE x \in P /\ y \notin Bad
    <3>1. PICK i \in K : at[i] = x
      BY <2>1
    <3>2. i \in 1..Len(at) /\ x \in P
      BY <1>1, <1>4, <3>1
    <3>3. HasNode(doc, y) /\ y \in P
      BY <1>11, <2>1, <3>2, NodesHaveNodes DEF Upward
    <3>4. PICK j \in 1..Len(at) : at[j] = y
      BY <1>1, <3>3
    <3>5. j \in 1..i /\ Holds(tree, j, i)
      <4>1. CASE y = x
        <5>1. j = i /\ i \in Nat
          BY <1>1, <3>1, <3>2, <3>4, <4>1
        <5> QED
          BY <5>1 DEF Holds
      <4>2. CASE y # x
        <5>1. y \in NodesAbove(doc, x) /\ y < x
          BY <1>11, <2>1, <4>2, NodesHaveNodes
        <5>2. j < i
          BY <1>1, <3>1, <3>2, <3>4, <5>1
        <5>3. Holds(tree, j, i)
          BY <1>1, <1>11, <3>1, <3>2, <3>4, <5>1, <5>2 DEF HoldsAsAbove
        <5> QED
          BY <3>2, <3>4, <5>2, <5>3
      <4> QED
        BY <4>1, <4>2
    <3>6. j \notin dropped
      BY <3>1, <3>5 DEF Kept
    <3> QED
      BY <1>1, <3>2, <3>3, <3>4, <3>6
  <2>2. ASSUME x \in P, \A y \in NodesAbove(doc, x) \cup {x} : y \notin Bad PROVE x \in Q
    <3>1. PICK i \in 1..Len(at) : at[i] = x
      BY <1>1, <2>2
    <3>2. ASSUME NEW j \in 1..i, Holds(tree, j, i) PROVE j \notin dropped
      <4>1. j \in 1..Len(at) /\ (j = i \/ j < i)
        BY <3>1, <3>2
      <4>2. at[j] \in NodesAbove(doc, x) \cup {x}
        BY <1>1, <1>11, <3>1, <3>2, <4>1 DEF HoldsAsAbove
      <4>3. HasNode(doc, at[j]) /\ at[j] \notin Bad
        BY <1>11, <2>2, <4>2, NodesHaveNodes
      <4> QED
        BY <1>1, <4>1, <4>3
    <3>3. i \in K
      BY <1>1, <3>1, <3>2 DEF Kept
    <3> QED
      BY <3>1, <3>3
  <2> QED
    BY <2>1, <2>2
<1>12. Upward(doc, Q)
  <2>1. ASSUME NEW x \in Q, HasNode(doc, x), NEW y \in NodesAbove(doc, x) PROVE y \in Q
    <3>1. x \in DOMAIN doc /\ x \in P
      BY <1>8, <2>1
    <3>2. y \in DOMAIN doc /\ HasNode(doc, y) /\ NodesAbove(doc, y) \subseteq NodesAbove(doc, x) /\ y \in P
      BY <2>1, <3>1, NodesHaveNodes DEF Upward
    <3>3. \A z \in NodesAbove(doc, y) \cup {y} : z \notin Bad
      BY <1>11, <2>1, <3>1, <3>2
    <3> HIDE DEF Q
    <3> QED
      BY <1>11, <3>2, <3>3
  <2> QED
    BY <2>1 DEF Upward
<1> HIDE DEF Q
<1> QED
  BY <1>9, <1>10, <1>11, <1>12 DEF LeftOf

-----------------------------------------------------------------------------
(* Siblings in a tree are nodes with the same nodes above.                 *)
LEMMA SiblingIs ==
    ASSUME NEW doc \in Docs, NEW tree, NEW at, NEW P, Reads(tree, doc, at, P), Upward(doc, P),
           NEW j \in DOMAIN at, NEW i \in DOMAIN at, HasNode(doc, at[i])
    PROVE  Sibling(tree, j, i) <=> j < i /\ HasNode(doc, at[j]) /\ NodesAbove(doc, at[j]) = NodesAbove(doc, at[i])
<1> DEFINE x == at[i]
           y == at[j]
<1>1. /\ Len(at) \in Nat /\ DOMAIN at = 1..Len(at)
      /\ \A p \in 1..Len(at) : /\ at[p] \in P /\ at[p] \in DOMAIN doc /\ at[p] \in Nat /\ tree[p].depth \in Nat
                               /\ Describes(tree[p], doc, at[p])
      /\ \A p, q \in 1..Len(at) : (p < q <=> at[p] < at[q]) /\ (p = q <=> at[p] = at[q])
      /\ \A z \in P : \E p \in 1..Len(at) : at[p] = z
  BY ReadsIs
<1>2. /\ x \in DOMAIN doc /\ y \in DOMAIN doc /\ x \in Nat /\ y \in Nat /\ (j < i <=> y < x)
      /\ tree[i].depth = Level(doc, x) + 1 /\ Level(doc, x) \in Nat
  <2>1. x \in DOMAIN doc /\ y \in DOMAIN doc /\ x \in Nat /\ y \in Nat /\ (j < i <=> y < x)
    BY <1>1
  <2>2. Describes(tree[i], doc, x)
    BY <1>1
  <2> QED
    BY <2>1, <2>2, NodesAboveIs DEF Describes, NodeDepth
(* A node between that stands under what is above x is no higher than x.   *)
<1>3. ASSUME NEW k \in 1..Len(at), \A m \in NodesAbove(doc, x) : m \in Above(doc, at[k])
      PROVE  /\ tree[k].depth >= tree[i].depth
             /\ ~HasNode(doc, at[k]) => tree[k].depth > tree[i].depth
             /\ HasNode(doc, at[k]) => NodesAbove(doc, x) \subseteq NodesAbove(doc, at[k])
  <2>1. at[k] \in DOMAIN doc /\ Describes(tree[k], doc, at[k])
    BY <1>1
  <2>2. CASE HasNode(doc, at[k])
    <3>1. NodesAbove(doc, x) \subseteq NodesAbove(doc, at[k])
      BY <1>3 DEF NodesAbove
    <3>2. tree[k].depth = Level(doc, at[k]) + 1
      BY <2>1, <2>2 DEF Describes, NodeDepth
    <3>3. Level(doc, x) <= Level(doc, at[k]) /\ Level(doc, at[k]) \in Nat
      BY <1>2, <2>1, <3>1, LevelMonotone
    <3> QED
      BY <1>2, <2>2, <3>1, <3>2, <3>3
  <2>3. CASE ~HasNode(doc, at[k])
    <3>1. PICK l \in Above(doc, at[k]) : HasNode(doc, l) /\ Leaf(doc[l].kind) /\ tree[k].depth = Level(doc, l) + 2
      BY <2>1, <2>3 DEF Describes, NodeDepth
    <3>2. l \in DOMAIN doc
      BY <2>1, AboveIs
    <3>3. NodesAbove(doc, x) \subseteq NodesAbove(doc, l)
      <4>1. ASSUME NEW m \in NodesAbove(doc, x) PROVE m \in NodesAbove(doc, l)
        <5>1. HasNode(doc, m) /\ Opens(doc[m].kind) /\ m \in Above(doc, at[k])
          BY <1>2, <1>3, <4>1, NodesHaveNodes DEF NodesAbove
        <5> QED
          BY <2>1, <3>1, <5>1, NodesInList
      <4> QED
        BY <4>1
    <3>4. Level(doc, x) <= Level(doc, l) /\ Level(doc, l) \in Nat
      BY <1>2, <3>2, <3>3, LevelMonotone
    <3> QED
      BY <1>2, <2>3, <3>1, <3>4
  <2> QED
    BY <2>2, <2>3
<1>4. ASSUME Sibling(tree, j, i) PROVE j < i /\ HasNode(doc, y) /\ NodesAbove(doc, y) = NodesAbove(doc, x)
  <2>1. j < i /\ tree[j].depth = tree[i].depth /\ \A k \in j..i : tree[k].depth >= tree[i].depth
    BY <1>4 DEF Sibling
  <2>2. ASSUME NEW m \in NodesAbove(doc, x) PROVE m \in Above(doc, y)
    <3>1. HasNode(doc, m) /\ m \in DOMAIN doc /\ m < x /\ m \in Above(doc, x) /\ Level(doc, m) < Level(doc, x) /\ m \in P
      BY <1>1, <1>2, <2>2, NodesHaveNodes DEF Upward
    <3>2. PICK r \in 1..Len(at) : at[r] = m
      BY <1>1, <3>1
    <3>3. tree[r].depth = Level(doc, m) + 1 /\ Level(doc, m) \in Nat
      <4>1. Describes(tree[r], doc, m)
        BY <1>1, <3>2
      <4> QED
        BY <3>1, <4>1, NodesAboveIs DEF Describes, NodeDepth
    <3>4. tree[r].depth < tree[i].depth /\ r < i
      BY <1>1, <1>2, <3>1, <3>2, <3>3
    <3>5. r < j
      <4> SUFFICES ASSUME ~(r < j) PROVE FALSE
        OBVIOUS
      <4>1. r \in j..i
        BY <1>1, <3>4
      <4>2. tree[r].depth >= tree[i].depth /\ tree[r].depth \in Nat /\ tree[i].depth \in Nat
        BY <1>1, <2>1, <4>1
      <4> QED
        BY <3>4, <4>2
    <3>6. m < y
      BY <1>1, <3>2, <3>5
    <3> QED
      BY <1>2, <2>1, <3>1, <3>6, AboveAbove
  <2>3. HasNode(doc, y)
    BY <1>1, <1>3, <2>1, <2>2
  <2>4. NodesAbove(doc, x) \subseteq NodesAbove(doc, y)
    BY <1>1, <1>3, <2>2, <2>3
  <2>5. tree[j].depth = Level(doc, y) + 1
    <3>1. Describes(tree[j], doc, y)
      BY <1>1
    <3> QED
      BY <2>3, <3>1 DEF Describes, NodeDepth
  <2>6. Level(doc, x) = Level(doc, y)
    BY <1>2, <2>1, <2>5, NodesAboveIs
  <2> QED
    BY <1>2, <2>1, <2>3, <2>4, <2>6, LevelMonotone
<1>5. ASSUME j < i, HasNode(doc, y), NodesAbove(doc, y) = NodesAbove(doc, x) PROVE Sibling(tree, j, i)
  <2>1. tree[j].depth = tree[i].depth
    <3>1. Describes(tree[j], doc, y)
      BY <1>1
    <3>2. tree[j].depth = Level(doc, y) + 1
      BY <1>5, <3>1 DEF Describes, NodeDepth
    <3> QED
      BY <1>2, <1>5, <3>2 DEF Level
  <2>2. ASSUME NEW k \in j..i PROVE tree[k].depth >= tree[i].depth
    <3>1. k \in 1..Len(at) /\ (j = k \/ j < k) /\ (k = i \/ k < i)
      BY <1>1, <2>2
    <3>2. at[k] \in DOMAIN doc /\ at[k] \in Nat /\ y <= at[k] /\ at[k] <= x
      <4>1. (y = at[k] \/ y < at[k]) /\ (at[k] = x \/ at[k] < x) /\ at[k] \in DOMAIN doc /\ at[k] \in Nat
        BY <1>1, <3>1
      <4> QED
        BY <1>2, <4>1
    <3>3. ASSUME NEW m \in NodesAbove(doc, x) PROVE m \in Above(doc, at[k])
      <4>1. m \in Above(doc, x) /\ m \in NodesAbove(doc, y)
        BY <1>5, <3>3 DEF NodesAbove
      <4>2. m < y /\ m \in Nat
        BY <1>2, <4>1, AboveIs DEF NodesAbove
      <4>3. m < at[k]
        BY <1>2, <3>2, <4>2
      <4> QED
        BY <1>2, <3>2, <4>1, <4>3, AboveAbove
    <3> QED
      BY <1>3, <3>1, <3>3
  <2> QED
    BY <1>5, <2>1, <2>2 DEF Sibling
<1> QED
  BY <1>4, <1>5

(* The texts that MergeAdjacentText finds are those with a text before.    *)
TextsAfterText(doc) ==
    {x \in DOMAIN doc : doc[x].kind = "text" /\ \E k \in DOMAIN doc : NodeBefore(doc, k, x) /\ doc[k].kind = "text"}

LEMMA MergedIs ==
    ASSUME NEW doc \in Docs, NEW tree, NEW at, NEW P, Reads(tree, doc, at, P), Upward(doc, P),
           \A x \in DOMAIN doc : HasNode(doc, x) => (x \in P <=> Stays(doc, x)),
           NEW i \in DOMAIN at, HasNode(doc, at[i])
    PROVE  Merged(tree, i) <=> at[i] \in TextsAfterText(doc)
<1> DEFINE x == at[i]
<1>1. /\ Len(at) \in Nat /\ DOMAIN at = 1..Len(at)
      /\ \A p \in 1..Len(at) : /\ at[p] \in P /\ at[p] \in DOMAIN doc /\ at[p] \in Nat
                               /\ Describes(tree[p], doc, at[p])
      /\ \A p, q \in 1..Len(at) : (p < q <=> at[p] < at[q]) /\ (p = q <=> at[p] = at[q])
      /\ \A z \in P : \E p \in 1..Len(at) : at[p] = z
  BY ReadsIs
<1>2. \A p \in 1..Len(at) : HasNode(doc, at[p]) => tree[p].role = doc[at[p]].kind /\ Stays(doc, at[p])
  BY <1>1 DEF Describes
<1>3. \A k \in 1..Len(at) :
         Sibling(tree, k, i) <=> k < i /\ HasNode(doc, at[k]) /\ NodesAbove(doc, at[k]) = NodesAbove(doc, x)
  BY <1>1, SiblingIs
<1>4. ASSUME NEW k \in DOMAIN doc, Stays(doc, k) PROVE \E p \in 1..Len(at) : at[p] = k /\ HasNode(doc, k)
  BY <1>1, <1>4 DEF Stays
<1>5. ASSUME Merged(tree, i) PROVE x \in TextsAfterText(doc)
  <2>1. PICK j \in 1..(i - 1) :
          /\ Sibling(tree, j, i) /\ tree[j].role = "text"
          /\ \A k \in (j + 1)..(i - 1) : ~Sibling(tree, k, i)
    BY <1>5 DEF Merged
  <2>2. j \in 1..Len(at) /\ j < i /\ i \in 1..Len(at)
    BY <1>1
  <2>3. HasNode(doc, at[j]) /\ NodesAbove(doc, at[j]) = NodesAbove(doc, x) /\ doc[at[j]].kind = "text"
    BY <1>2, <1>3, <2>1, <2>2
  <2>4. ASSUME NEW k \in (at[j] + 1)..(x - 1), Stays(doc, k) PROVE NodesAbove(doc, k) # NodesAbove(doc, x)
    <3>1. k \in DOMAIN doc /\ at[j] < k /\ k < x
      <4>1. x \in 1..Len(doc) /\ at[j] \in Nat /\ DOMAIN doc = 1..Len(doc) /\ Len(doc) \in Nat
        BY <1>1, <2>2, DocIs
      <4> HIDE DEF x
      <4> QED
        BY <2>4, <4>1
    <3>2. PICK p \in 1..Len(at) : at[p] = k /\ HasNode(doc, k)
      BY <1>4, <2>4, <3>1
    <3>3. j < p /\ p < i
      BY <1>1, <2>2, <3>1, <3>2
    <3>4. p \in (j + 1)..(i - 1)
      BY <2>2, <3>3
    <3> QED
      BY <1>3, <2>1, <3>2, <3>3, <3>4
  <2>5. NodeBefore(doc, at[j], x)
    BY <1>1, <1>2, <2>2, <2>3, <2>4 DEF NodeBefore
  <2>6. doc[x].kind = "text"
    BY <1>2, <1>5, <2>2 DEF Merged
  <2> QED
    BY <1>1, <2>2, <2>3, <2>5, <2>6 DEF TextsAfterText
<1>6. ASSUME x \in TextsAfterText(doc) PROVE Merged(tree, i)
  <2>1. PICK y \in DOMAIN doc : NodeBefore(doc, y, x) /\ doc[y].kind = "text"
    BY <1>6 DEF TextsAfterText
  <2>2. /\ y < x /\ Stays(doc, y) /\ NodesAbove(doc, y) = NodesAbove(doc, x)
        /\ \A k \in (y + 1)..(x - 1) : Stays(doc, k) => NodesAbove(doc, k) # NodesAbove(doc, x)
    BY <2>1 DEF NodeBefore
  <2>3. PICK j \in 1..Len(at) : at[j] = y /\ HasNode(doc, y)
    BY <1>4, <2>2
  <2>4. j < i /\ i \in 1..Len(at)
    BY <1>1, <2>2, <2>3
  <2>5. Sibling(tree, j, i) /\ tree[j].role = "text"
    BY <1>2, <1>3, <2>1, <2>2, <2>3, <2>4
  <2>6. ASSUME NEW k \in (j + 1)..(i - 1) PROVE ~Sibling(tree, k, i)
    <3> SUFFICES ASSUME HasNode(doc, at[k]), NodesAbove(doc, at[k]) = NodesAbove(doc, x) PROVE FALSE
      BY <1>1, <1>3, <2>4
    <3>1. k \in 1..Len(at) /\ j < k /\ k < i
      BY <2>4
    <3>2. y < at[k] /\ at[k] < x /\ at[k] \in Nat /\ x \in Nat /\ y \in Nat /\ Stays(doc, at[k])
      BY <1>1, <1>2, <2>3, <2>4, <3>1
    <3>3. at[k] \in (y + 1)..(x - 1)
      BY <3>2
    <3> QED
      BY <2>2, <3>2, <3>3
  <2>7. j \in 1..(i - 1)
    BY <2>4
  <2>8. tree[i].role = "text"
    BY <1>2, <1>6, <2>4 DEF TextsAfterText
  <2> QED
    BY <2>5, <2>6, <2>7, <2>8 DEF Merged
<1> QED
  BY <1>5, <1>6

-----------------------------------------------------------------------------
(* What the builder makes of the first n elements.                         *)
LEMMA HoldsNext ==
    ASSUME NEW doc, NEW n \in Nat, NEW j \in 1..n
    PROVE  Holds(doc, j, n + 1) <=> Holds(doc, j, n) /\ doc[j].depth < doc[n + 1].depth
<1>1. (j + 1)..(n + 1) = ((j + 1)..n) \cup {n + 1}
  OBVIOUS
<1> QED
  BY <1>1 DEF Holds

(* Above a leaf or what is in one there is one with a node.                *)
LEMMA LeafAbove ==
    ASSUME NEW doc \in Docs, NEW i \in DOMAIN doc, NEW l \in Above(doc, i), Leaf(doc[l].kind)
    PROVE  \E t \in Above(doc, i) : HasNode(doc, t) /\ Leaf(doc[t].kind)
<1> DEFINE S == {t \in Above(doc, i) : Leaf(doc[t].kind)}
<1>1. S \in SUBSET Nat /\ l \in S
  BY AboveIs
<1>2. PICK t \in S : \A s \in S : t <= s
  <2> HIDE DEF S
  <2> QED
    BY <1>1, Least
<1>3. t \in Above(doc, i) /\ t \in DOMAIN doc /\ Leaf(doc[t].kind) /\ t \in Nat
  BY AboveIs
<1>4. ASSUME NEW s \in Above(doc, t) PROVE ~Leaf(doc[s].kind)
  <2>1. s \in Above(doc, i) /\ s < t /\ s \in Nat
    BY <1>3, <1>4, AboveAbove, AboveIs
  <2>2. s \notin S
    BY <1>2, <1>3, <2>1
  <2> QED
    BY <2>1, <2>2
<1>5. HasNode(doc, t)
  BY <1>3, <1>4 DEF HasNode, MakesNode
<1> QED
  BY <1>3, <1>5

OpenAt(doc, n) == {j \in 1..n : Holds(doc, j, n) /\ HasNode(doc, j) /\ Opens(doc[j].kind)}
OpenAbove(doc, i) == {j \in NodesAbove(doc, i) : HasNode(doc, j)}

(* Levels are the depths of S.                                             *)
DepthsOf(levels, doc, S) ==
    \E op : Lists(op, S) /\ DOMAIN levels = DOMAIN op /\ \A k \in DOMAIN op : levels[k] = doc[op[k]].depth

BuiltTo(b, doc, n) ==
    /\ \E at, P : Reads(b.nodes, doc, at, P) /\ P \subseteq 1..n /\ \A i \in 1..n : HasNode(doc, i) => i \in P
    /\ DepthsOf(b.levels, doc, OpenAt(doc, n))
    /\ b.cut = 0 => \A l \in 1..n : Holds(doc, l, n) /\ HasNode(doc, l) => ~Leaf(doc[l].kind)
    /\ b.cut # 0 => \E l \in 1..n : Holds(doc, l, n) /\ HasNode(doc, l) /\ Leaf(doc[l].kind) /\ b.cut = doc[l].depth

CameBefore(here, doc, i) ==
    /\ DepthsOf(here.levels, doc, OpenAbove(doc, i))
    /\ here.cut = 0 => \A l \in Above(doc, i) : ~Leaf(doc[l].kind)
    /\ here.cut # 0 => \E l \in Above(doc, i) : HasNode(doc, l) /\ Leaf(doc[l].kind) /\ here.cut = doc[l].depth

LEMMA Came ==
    ASSUME NEW doc \in Docs, NEW n \in Nat, NEW i, i = n + 1, i \in DOMAIN doc,
           NEW e \in Element(Nat), e.depth = doc[i].depth,
           NEW b, BuilderOK(b, Nat), BuiltTo(b, doc, n), NEW here, here = CameTo(b, e)
    PROVE  CameBefore(here, doc, i) /\ BuilderOK(here, Nat) /\ here.nodes = b.nodes
<1>1. i \in DOMAIN doc /\ i \in 1..Len(doc) /\ Len(doc) \in Nat /\ e.depth \in Nat /\ e.depth # 0 /\ 1..n \subseteq DOMAIN doc
  <2>1. i \in 1..Len(doc) /\ Len(doc) \in Nat /\ e.depth \in Nat /\ e.depth # 0 /\ DOMAIN doc = 1..Len(doc)
    BY DocIs
  <2> QED
    BY <2>1
<1> DEFINE levels == Sublist(b.levels, {k \in DOMAIN b.levels : b.levels[k] < e.depth})
<1>2. /\ here.cut = (IF e.depth > b.cut THEN b.cut ELSE 0) /\ here.levels = levels
      /\ BuilderOK(here, Nat) /\ here.nodes = b.nodes
  <2>1. levels = Sublist(b.levels, {k \in DOMAIN b.levels : b.levels[k] < e.depth})
    OBVIOUS
  <2> HIDE DEF levels
  <2> QED
    BY <2>1, CameToOK
<1>9. BuilderOK(here, Nat) /\ here.nodes = b.nodes
  BY <1>2
<1>3. b.levels \in Seq(Nat) /\ b.cut \in Nat
  BY DEF BuilderOK
<1>4. \A j \in 1..n : Holds(doc, j, i) <=> Holds(doc, j, n) /\ doc[j].depth < e.depth
  BY HoldsNext
<1>5. \A j \in DOMAIN doc : j \in Above(doc, i) <=> j \in 1..n /\ Holds(doc, j, i)
  <2>1. \A j \in DOMAIN doc : j < i <=> j \in 1..n
    BY <1>1, DocIs
  <2> QED
    BY <1>1, <2>1, AboveIs
<1>6. DepthsOf(here.levels, doc, OpenAbove(doc, i))
  <2>1. PICK op : /\ Lists(op, OpenAt(doc, n)) /\ DOMAIN b.levels = DOMAIN op
                  /\ \A k \in DOMAIN op : b.levels[k] = doc[op[k]].depth
    BY DEF BuiltTo, DepthsOf
  <2> DEFINE K == {k \in DOMAIN b.levels : b.levels[k] < e.depth}
  <2>2. PICK ix : Lists(ix, K \cap DOMAIN b.levels) /\ From(here.levels, b.levels, ix)
    <3> HIDE DEF K
    <3>1. here.levels = Sublist(b.levels, K)
      BY <1>2 DEF K, levels
    <3> QED
      BY <1>3, <3>1, SublistIs
  <2>3. K \cap DOMAIN b.levels = K /\ K \subseteq DOMAIN op
    BY <2>1
  <2>4. OpenAt(doc, n) \in SUBSET Nat
    BY DEF OpenAt
  <2> DEFINE up == [k \in DOMAIN ix |-> op[ix[k]]]
  <2>5. Lists(ix, K) /\ up = [k \in DOMAIN ix |-> op[ix[k]]]
    BY <2>2, <2>3
  <2>6. Lists(up, {op[k] : k \in K}) /\ DOMAIN up = DOMAIN ix
    <3> HIDE DEF K, up
    <3> QED
      BY <2>1, <2>3, <2>4, <2>5, ListsOfLists
  <2>7. /\ Len(op) \in Nat /\ DOMAIN op = 1..Len(op)
        /\ \A p \in 1..Len(op) : op[p] \in OpenAt(doc, n)
        /\ \A x \in OpenAt(doc, n) : \E p \in 1..Len(op) : op[p] = x
    BY <2>1, <2>4, ListsIs
  <2>8. {op[k] : k \in K} = OpenAbove(doc, i)
    <3>1. ASSUME NEW k \in K PROVE op[k] \in OpenAbove(doc, i)
      <4>1. op[k] \in OpenAt(doc, n) /\ doc[op[k]].depth < e.depth
        BY <2>1, <2>7, <3>1
      <4>2. op[k] \in 1..n /\ op[k] \in DOMAIN doc /\ Holds(doc, op[k], i) /\ HasNode(doc, op[k]) /\ Opens(doc[op[k]].kind)
        BY <1>1, <1>4, <4>1 DEF OpenAt
      <4> QED
        BY <1>5, <4>2 DEF OpenAbove, NodesAbove
    <3>2. ASSUME NEW x \in OpenAbove(doc, i) PROVE \E k \in K : op[k] = x
      <4>1. x \in Above(doc, i) /\ Opens(doc[x].kind) /\ HasNode(doc, x) /\ x \in DOMAIN doc
        BY <1>1, <3>2, AboveIs DEF OpenAbove, NodesAbove
      <4>2. x \in OpenAt(doc, n) /\ doc[x].depth < e.depth
        BY <1>4, <1>5, <4>1 DEF OpenAt
      <4>3. PICK k \in 1..Len(op) : op[k] = x
        BY <2>7, <4>2
      <4> QED
        BY <2>1, <2>7, <4>2, <4>3
    <3> QED
      BY <3>1, <3>2
  <2>9. DOMAIN here.levels = DOMAIN up
    BY <2>2, <2>6 DEF From
  <2>10. ASSUME NEW k \in DOMAIN up PROVE here.levels[k] = doc[up[k]].depth
    <3>1. k \in DOMAIN ix /\ here.levels[k] = b.levels[ix[k]]
      BY <2>2, <2>6, <2>10 DEF From
    <3>2. ix[k] \in DOMAIN op
      <4>1. ix \in Seq(K)
        BY <2>5 DEF Lists
      <4>2. ix[k] \in K
        <5> HIDE DEF K
        <5> QED
          BY <3>1, <4>1
      <4> QED
        BY <2>3, <4>2
    <3> QED
      BY <2>1, <3>1, <3>2
  <2> HIDE DEF K, up
  <2> QED
    BY <2>6, <2>8, <2>9, <2>10 DEF DepthsOf
<1>7. ASSUME here.cut # 0
      PROVE  \E l \in Above(doc, i) : HasNode(doc, l) /\ Leaf(doc[l].kind) /\ here.cut = doc[l].depth
  <2>1. b.cut # 0 /\ here.cut = b.cut /\ e.depth > b.cut
    BY <1>2, <1>7
  <2>2. PICK l \in 1..n : Holds(doc, l, n) /\ HasNode(doc, l) /\ Leaf(doc[l].kind) /\ b.cut = doc[l].depth
    BY <2>1 DEF BuiltTo
  <2>3. l \in Above(doc, i)
    BY <1>1, <1>3, <1>4, <1>5, <2>1, <2>2
  <2> QED
    BY <2>1, <2>2, <2>3
<1>8. ASSUME here.cut = 0, NEW t \in Above(doc, i), Leaf(doc[t].kind) PROVE FALSE
  <2>1. PICK l \in Above(doc, i) : HasNode(doc, l) /\ Leaf(doc[l].kind)
    BY <1>1, <1>8, LeafAbove
  <2>2. l \in DOMAIN doc /\ l \in 1..n /\ l \in Nat /\ Holds(doc, l, n) /\ doc[l].depth < e.depth /\ doc[l].depth \in Nat
    BY <1>1, <1>4, <1>5, <2>1, AboveIs, DocIs
  <2>3. b.cut # 0
    BY <2>1, <2>2 DEF BuiltTo
  <2>4. PICK m \in 1..n : Holds(doc, m, n) /\ HasNode(doc, m) /\ Leaf(doc[m].kind) /\ b.cut = doc[m].depth
    BY <2>3 DEF BuiltTo
  <2>5. m = l
    <3>1. m \in DOMAIN doc /\ m \in Nat /\ n \in DOMAIN doc /\ n \in 1..n /\ n \in Nat
      BY <1>1, <2>4, DocIs
    <3>2. CASE m < l
      <4>1. Holds(doc, m, l)
        BY <2>2, <2>4, <3>1, <3>2, HoldsWithin
      <4>2. m \in Above(doc, l)
        BY <2>2, <3>1, <3>2, <4>1, AboveIs
      <4> QED
        BY <2>1, <2>4, <4>2 DEF HasNode
    <3>3. CASE l < m
      <4>1. Holds(doc, l, m)
        BY <2>2, <2>4, <3>1, <3>3, HoldsWithin
      <4>2. l \in Above(doc, m)
        BY <2>2, <3>1, <3>3, <4>1, AboveIs
      <4> QED
        BY <2>1, <2>4, <4>2 DEF HasNode
    <3> QED
      BY <2>2, <3>1, <3>2, <3>3
  <2> QED
    BY <1>2, <1>3, <1>8, <2>2, <2>3, <2>4, <2>5, <1>1
<1> QED
  BY <1>6, <1>7, <1>8, <1>9 DEF CameBefore

(* The next element, with the node of it or without.                       *)
LEMMA ReadsMore ==
    ASSUME NEW doc \in Docs, NEW tree, NEW at, NEW P, Reads(tree, doc, at, P), NEW T, tree \in Seq(T),
           NEW i \in DOMAIN doc, \A x \in P : x < i, NEW node \in T, Describes(node, doc, i)
    PROVE  \E after : Reads(Append(tree, node), doc, after, P \cup {i})
<1> DEFINE after == Append(at, i)
           more == Append(tree, node)
<1>1. P \in SUBSET Nat /\ Lists(at, P) /\ P \subseteq DOMAIN doc /\ i \in Nat
  <2>1. P \subseteq DOMAIN doc /\ Lists(at, P)
    BY DEF Reads
  <2> QED
    BY <2>1, DocIs
<1>2. /\ Len(at) \in Nat /\ DOMAIN at = 1..Len(at) /\ DOMAIN tree = 1..Len(at)
      /\ \A p \in 1..Len(at) : Describes(tree[p], doc, at[p])
  BY ReadsIs
<1>3. Lists(after, P \cup {i}) /\ DOMAIN after = 1..(Len(at) + 1)
  <2>1. after = Append(at, i)
    OBVIOUS
  <2> HIDE DEF after
  <2> QED
    BY <1>1, <2>1, ListsMore
<1>4. after[Len(at) + 1] = i /\ \A k \in 1..Len(at) : after[k] = at[k]
  <2>1. after = Append(at, i)
    OBVIOUS
  <2> HIDE DEF after
  <2> QED
    BY <1>1, <1>2, <2>1, ListsMore
<1>5. /\ DOMAIN more = 1..(Len(at) + 1) /\ more[Len(at) + 1] = node
      /\ \A k \in 1..Len(at) : more[k] = tree[k]
  <2>1. Len(tree) = Len(at)
    BY <1>2
  <2> QED
    BY <1>2, <2>1
<1> HIDE DEF after, more
<1>6. ASSUME NEW k \in 1..(Len(at) + 1) PROVE Describes(more[k], doc, after[k])
  <2>1. CASE k = Len(at) + 1
    BY <1>4, <1>5, <2>1
  <2>2. CASE k # Len(at) + 1
    <3>1. k \in 1..Len(at)
      BY <1>2, <2>2
    <3> QED
      BY <1>2, <1>4, <1>5, <3>1
  <2> QED
    BY <2>1, <2>2
<1>7. Reads(more, doc, after, P \cup {i})
  BY <1>1, <1>3, <1>5, <1>6 DEF Reads
<1> QED
  BY <1>7 DEF more

LEMMA BuiltStep ==
    ASSUME NEW doc \in Docs, NEW n \in Nat, NEW i, i = n + 1, i \in DOMAIN doc,
           NEW e \in Element(Nat), e.depth = doc[i].depth, e.el = doc[i].el, e.kind = doc[i].kind, e.hidden = doc[i].hidden,
           NEW b, BuilderOK(b, Nat), BuiltTo(b, doc, n), NEW here, here = CameTo(b, e), NEW c, c = ProcessNode(b, e)
    PROVE  BuiltTo(c, doc, i)
<1>1. CameBefore(here, doc, i)
  BY Came
<1>2. BuilderOK(here, Nat) /\ here.nodes = b.nodes
  BY Came
<1>3. /\ here.cut # 0 /\ ~IsItem(here, e) => c = here
      /\ here.cut # 0 /\ IsItem(here, e) =>
           c = [nodes |-> Append(here.nodes, ItemOf(here, e)), map |-> here.map, cut |-> here.cut,
                list |-> here.list, levels |-> here.levels]
      /\ here.cut = 0 /\ Opens(e.kind) =>
           c = [nodes |-> Append(here.nodes, NodeOf(here, e)), map |-> Append(here.map, e.el), cut |-> 0,
                list |-> here.list, levels |-> Append(here.levels, e.depth)]
      /\ here.cut = 0 /\ Leaf(e.kind) =>
           c = [nodes |-> Append(here.nodes, NodeOf(here, e)), map |-> Append(here.map, e.el), cut |-> e.depth,
                list |-> (e.kind = "list"), levels |-> here.levels]
      /\ here.cut = 0 /\ ~MakesNode(e.kind) => c = here
  <2>1. Processed(here, e, c)
    BY ProcessIs, Zenon
  <2> QED
    BY <2>1, Zenon DEF Processed
<1>4. PICK at, P : Reads(b.nodes, doc, at, P) /\ P \subseteq 1..n /\ \A x \in 1..n : HasNode(doc, x) => x \in P
  BY DEF BuiltTo
<1>5. /\ i \in 1..Len(doc) /\ Len(doc) \in Nat /\ DOMAIN doc = 1..Len(doc) /\ e.depth \in Nat /\ e.depth # 0
      /\ 1..n \subseteq DOMAIN doc /\ 1..i = (1..n) \cup {i} /\ i \in Nat
  <2>1. i \in 1..Len(doc) /\ Len(doc) \in Nat /\ DOMAIN doc = 1..Len(doc) /\ e.depth \in Nat /\ e.depth # 0
    BY DocIs
  <2> QED
    BY <2>1
<1>6. here.nodes \in Seq(TreeNode(Nat)) /\ here.levels \in Seq(Nat) /\ Len(here.levels) \in Nat /\ here.cut \in Nat
  <2>1. here.nodes \in Seq(TreeNode(Nat)) /\ here.levels \in Seq(Nat) /\ here.cut \in Nat
    BY <1>2 DEF BuilderOK
  <2> QED
    BY <2>1
<1>7. \A x \in DOMAIN doc : x \in Above(doc, i) <=> x \in 1..n /\ Holds(doc, x, i)
  <2>1. \A x \in DOMAIN doc : x < i <=> x \in 1..n
    BY <1>5
  <2> QED
    BY <1>5, <2>1, AboveIs
<1>8. HasNode(doc, i) <=> MakesNode(e.kind) /\ here.cut = 0
  BY <1>1 DEF CameBefore, HasNode
<1>9. OpenAt(doc, i) = OpenAbove(doc, i) \cup (IF HasNode(doc, i) /\ Opens(e.kind) THEN {i} ELSE {})
  <2>1. ASSUME NEW x \in 1..n PROVE x \in OpenAt(doc, i) <=> x \in OpenAbove(doc, i)
    BY <1>5, <1>7, <2>1 DEF OpenAt, OpenAbove, NodesAbove
  <2>2. Holds(doc, i, i)
    BY <1>5 DEF Holds
  <2>3. i \in OpenAt(doc, i) <=> HasNode(doc, i) /\ Opens(e.kind)
    BY <1>5, <2>2 DEF OpenAt
  <2>4. OpenAbove(doc, i) \subseteq 1..n
    BY <1>5, <1>7, AboveIs DEF OpenAbove, NodesAbove
  <2>5. OpenAt(doc, i) \subseteq 1..i
    BY DEF OpenAt
  <2> QED
    BY <1>5, <2>1, <2>3, <2>4, <2>5
<1>10. PICK op : /\ Lists(op, OpenAbove(doc, i)) /\ DOMAIN here.levels = DOMAIN op
                 /\ \A k \in DOMAIN op : here.levels[k] = doc[op[k]].depth
  BY <1>1 DEF CameBefore, DepthsOf
<1>11. OpenAbove(doc, i) \in SUBSET Nat /\ OpenAbove(doc, i) \subseteq NodesAbove(doc, i) /\ OpenAbove(doc, i) \subseteq Above(doc, i)
       /\ \A x \in OpenAbove(doc, i) : x < i
  BY <1>5, AboveIs DEF OpenAbove, NodesAbove
<1>12. Len(here.levels) = Cardinality(OpenAbove(doc, i))
  <2>1. Cardinality(OpenAbove(doc, i)) = Len(op)
    BY <1>10, <1>11, ListsCount
  <2>2. DOMAIN op = 1..Len(op) /\ Len(op) \in Nat
    BY <1>10, <1>11, ListsIs
  <2> QED
    BY <1>6, <1>10, <2>2, <2>1
(* A node.                                                                 *)
<1>13. ASSUME HasNode(doc, i)
       PROVE  \E after, Q : /\ Reads(Append(here.nodes, NodeOf(here, e)), doc, after, Q) /\ Q \subseteq 1..i
                            /\ \A x \in 1..i : HasNode(doc, x) => x \in Q
  <2>1. OpenAbove(doc, i) = NodesAbove(doc, i)
    BY <1>5, <1>13, NodesHaveNodes DEF OpenAbove
  <2>2. NodeOf(here, e).depth = Level(doc, i) + 1
    BY <1>12, <2>1 DEF NodeOf, Level
  <2>3. Describes(NodeOf(here, e), doc, i)
    <3>1. NodeDepth(doc, i, NodeOf(here, e).depth)
      BY <1>13, <2>2 DEF NodeDepth
    <3> QED
      BY <1>13, <3>1 DEF Describes, NodeOf
  <2>4. \A x \in P : x < i
    BY <1>4
  <2>5. here.nodes \in Seq({here.nodes[k] : k \in DOMAIN here.nodes} \cup {NodeOf(here, e)})
    BY <1>6
  <2>6. \E after : Reads(Append(here.nodes, NodeOf(here, e)), doc, after, P \cup {i})
    <3> DEFINE node == NodeOf(here, e)
               T == {here.nodes[k] : k \in DOMAIN here.nodes} \cup {node}
    <3>1. here.nodes \in Seq(T) /\ node \in T
      BY <2>5
    <3> HIDE DEF node, T
    <3>2. Describes(node, doc, i) /\ Reads(here.nodes, doc, at, P)
      BY <1>2, <1>4, <2>3 DEF node
    <3>3. \E after : Reads(Append(here.nodes, node), doc, after, P \cup {i})
      BY <1>5, <2>4, <3>1, <3>2, ReadsMore
    <3> QED
      BY <3>3 DEF node
  <2> DEFINE Q == P \cup {i}
             more == Append(here.nodes, NodeOf(here, e))
  <2>7. Q \subseteq 1..i /\ \A x \in 1..i : HasNode(doc, x) => x \in Q
    BY <1>4, <1>5
  <2> HIDE DEF Q, more
  <2> QED
    BY <2>6, <2>7 DEF Q, more
(* An item of a list.                                                      *)
<1>14. ASSUME here.cut # 0
       PROVE  \E after, Q : /\ Reads(Append(here.nodes, ItemOf(here, e)), doc, after, Q) /\ Q \subseteq 1..i
                            /\ \A x \in 1..i : HasNode(doc, x) => x \in Q
  <2>1. PICK l \in Above(doc, i) : HasNode(doc, l) /\ Leaf(doc[l].kind)
    BY <1>1, <1>14 DEF CameBefore
  <2>2. l \in DOMAIN doc /\ ~HasNode(doc, i)
    BY <1>5, <1>8, <1>14, <2>1, AboveIs
  <2>3. OpenAbove(doc, i) = NodesAbove(doc, l)
    <3>1. ASSUME NEW m \in OpenAbove(doc, i) PROVE m \in NodesAbove(doc, l)
      <4>1. m \in Above(doc, i) /\ HasNode(doc, m) /\ Opens(doc[m].kind)
        BY <3>1 DEF OpenAbove, NodesAbove
      <4> QED
        BY <2>1, <4>1, NodesInList
    <3>2. ASSUME NEW m \in NodesAbove(doc, l) PROVE m \in OpenAbove(doc, i)
      <4>1. HasNode(doc, m) /\ m \in Above(doc, l) /\ Opens(doc[m].kind)
        BY <2>1, <2>2, <3>2, NodesHaveNodes DEF NodesAbove
      <4>2. m \in Above(doc, i)
        BY <2>1, <4>1, AboveAbove
      <4> QED
        BY <4>1, <4>2 DEF OpenAbove, NodesAbove
    <3> QED
      BY <3>1, <3>2
  <2>4. ItemOf(here, e).depth = Level(doc, l) + 2
    BY <1>12, <2>3 DEF ItemOf, Level
  <2>5. Describes(ItemOf(here, e), doc, i)
    <3>1. NodeDepth(doc, i, ItemOf(here, e).depth)
      BY <2>1, <2>2, <2>4 DEF NodeDepth
    <3> QED
      BY <2>2, <3>1 DEF Describes, ItemOf
  <2>6. \A x \in P : x < i
    BY <1>4
  <2>7. \E after : Reads(Append(here.nodes, ItemOf(here, e)), doc, after, P \cup {i})
    <3> DEFINE node == ItemOf(here, e)
               T == {here.nodes[k] : k \in DOMAIN here.nodes} \cup {node}
    <3>1. here.nodes \in Seq(T) /\ node \in T
      BY <1>6
    <3> HIDE DEF node, T
    <3>2. Describes(node, doc, i) /\ Reads(here.nodes, doc, at, P)
      BY <1>2, <1>4, <2>5 DEF node
    <3>3. \E after : Reads(Append(here.nodes, node), doc, after, P \cup {i})
      BY <1>5, <2>6, <3>1, <3>2, ReadsMore
    <3> QED
      BY <3>3 DEF node
  <2> DEFINE Q == P \cup {i}
             more == Append(here.nodes, ItemOf(here, e))
  <2>8. Q \subseteq 1..i /\ \A x \in 1..i : HasNode(doc, x) => x \in Q
    BY <1>4, <1>5
  <2> HIDE DEF Q, more
  <2> QED
    BY <2>7, <2>8 DEF Q, more
(* Neither.                                                                *)
<1>15. ASSUME ~HasNode(doc, i)
       PROVE  \E after, Q : /\ Reads(here.nodes, doc, after, Q) /\ Q \subseteq 1..i
                            /\ \A x \in 1..i : HasNode(doc, x) => x \in Q
  <2>1. Reads(here.nodes, doc, at, P) /\ P \subseteq 1..i /\ \A x \in 1..i : HasNode(doc, x) => x \in P
    BY <1>2, <1>4, <1>5, <1>15
  <2> QED
    BY <2>1
<1> DEFINE NodesTo(nodes) ==
             \E after, Q : /\ Reads(nodes, doc, after, Q) /\ Q \subseteq 1..i
                           /\ \A x \in 1..i : HasNode(doc, x) => x \in Q
<1> HIDE DEF NodesTo
<1>16. /\ HasNode(doc, i) => NodesTo(Append(here.nodes, NodeOf(here, e)))
       /\ here.cut # 0 => NodesTo(Append(here.nodes, ItemOf(here, e)))
       /\ ~HasNode(doc, i) => NodesTo(here.nodes)
  BY <1>13, <1>14, <1>15 DEF NodesTo
<1>17. (MakesNode(e.kind) <=> Opens(e.kind) \/ Leaf(e.kind)) /\ ~(Opens(e.kind) /\ Leaf(e.kind))
  BY DEF MakesNode, Opens, Leaf
<1>18. NodesTo(c.nodes)
  <2>1. CASE here.cut # 0 /\ IsItem(here, e)
    <3>1. c.nodes = Append(here.nodes, ItemOf(here, e))
      BY <1>3, <2>1
    <3> QED
      BY <1>16, <2>1, <3>1
  <2>2. CASE here.cut = 0 /\ Opens(e.kind)
    <3>1. c.nodes = Append(here.nodes, NodeOf(here, e))
      BY <1>3, <2>2
    <3> QED
      BY <1>8, <1>16, <1>17, <2>2, <3>1
  <2>3. CASE here.cut = 0 /\ Leaf(e.kind)
    <3>1. c.nodes = Append(here.nodes, NodeOf(here, e))
      BY <1>3, <2>3
    <3> QED
      BY <1>8, <1>16, <1>17, <2>3, <3>1
  <2>4. CASE c = here /\ ~HasNode(doc, i)
    BY <1>16, <2>4
  <2> QED
    BY <1>3, <1>8, <1>17, <2>1, <2>2, <2>3, <2>4, Zenon
<1>19. DepthsOf(c.levels, doc, OpenAt(doc, i))
  <2>1. CASE here.cut = 0 /\ Opens(e.kind)
    <3>1. c.levels = Append(here.levels, e.depth)
      BY <1>3, <2>1
    <3>2. OpenAt(doc, i) = OpenAbove(doc, i) \cup {i}
      BY <1>8, <1>9, <1>17, <2>1
    <3> DEFINE more == Append(op, i)
    <3>3. more = Append(op, i)
      OBVIOUS
    <3> HIDE DEF more
    <3> DEFINE open == OpenAbove(doc, i)
    <3>8. open \in SUBSET Nat /\ Lists(op, open) /\ \A x \in open : x < i
      BY <1>10, <1>11
    <3> HIDE DEF open
    <3>9. Lists(more, open \cup {i}) /\ Len(op) \in Nat /\ DOMAIN op = 1..Len(op)
      BY <1>5, <3>3, <3>8, ListsMore
    <3>10. DOMAIN more = 1..(Len(op) + 1)
      BY <1>5, <3>3, <3>8, ListsMore
    <3>4. Lists(more, OpenAt(doc, i)) /\ Len(op) \in Nat /\ DOMAIN op = 1..Len(op) /\ DOMAIN more = 1..(Len(op) + 1)
      BY <3>2, <3>9, <3>10 DEF open
    <3>5. more[Len(op) + 1] = i /\ \A k \in DOMAIN op : more[k] = op[k]
      BY <1>5, <1>10, <1>11, <3>3, ListsMore
    <3>6. /\ DOMAIN c.levels = 1..(Len(op) + 1) /\ c.levels[Len(op) + 1] = e.depth
          /\ \A k \in 1..Len(op) : c.levels[k] = here.levels[k]
      <4>1. Len(here.levels) = Len(op)
        BY <1>6, <1>10, <3>4
      <4> QED
        BY <1>5, <1>6, <3>1, <3>4, <4>1
    <3>7. ASSUME NEW k \in DOMAIN more PROVE c.levels[k] = doc[more[k]].depth
      <4>1. CASE k = Len(op) + 1
        BY <3>5, <3>6, <4>1
      <4>2. CASE k # Len(op) + 1
        <5>1. k \in 1..Len(op)
          BY <3>4, <3>7, <4>2
        <5> QED
          BY <1>10, <3>4, <3>5, <3>6, <5>1
      <4> QED
        BY <4>1, <4>2
    <3> QED
      BY <3>4, <3>6, <3>7 DEF DepthsOf
  <2>2. CASE ~(here.cut = 0 /\ Opens(e.kind))
    <3>1. c.levels = here.levels
      BY <1>3, <1>17, <2>2
    <3>2. OpenAt(doc, i) = OpenAbove(doc, i)
      BY <1>8, <1>9, <2>2
    <3> QED
      BY <1>10, <3>1, <3>2 DEF DepthsOf
  <2> QED
    BY <2>1, <2>2
<1>20. c.cut = IF here.cut = 0 /\ Leaf(e.kind) THEN e.depth ELSE here.cut
  BY <1>3, <1>17
<1>21. ASSUME c.cut = 0, NEW l \in 1..i, Holds(doc, l, i), HasNode(doc, l) PROVE ~Leaf(doc[l].kind)
  <2>1. here.cut = 0 /\ ~Leaf(e.kind)
    BY <1>5, <1>20, <1>21
  <2>2. CASE l = i
    BY <2>1, <2>2
  <2>3. CASE l # i
    <3>1. l \in Above(doc, i)
      BY <1>5, <1>7, <1>21, <2>3
    <3> QED
      BY <1>1, <2>1, <3>1 DEF CameBefore
  <2> QED
    BY <2>2, <2>3
<1>22. ASSUME c.cut # 0
       PROVE  \E l \in 1..i : Holds(doc, l, i) /\ HasNode(doc, l) /\ Leaf(doc[l].kind) /\ c.cut = doc[l].depth
  <2>1. CASE here.cut = 0 /\ Leaf(e.kind)
    <3>1. Holds(doc, i, i) /\ i \in 1..i
      BY <1>5 DEF Holds
    <3> QED
      BY <1>8, <1>17, <1>20, <2>1, <3>1
  <2>2. CASE here.cut # 0
    <3>1. PICK l \in Above(doc, i) : HasNode(doc, l) /\ Leaf(doc[l].kind) /\ here.cut = doc[l].depth
      BY <1>1, <2>2 DEF CameBefore
    <3>2. l \in 1..i /\ Holds(doc, l, i)
      BY <1>5, <1>7, AboveIs
    <3> QED
      BY <1>20, <2>2, <3>1, <3>2
  <2> QED
    BY <1>20, <1>22, <2>1, <2>2
<1> QED
  BY <1>18, <1>19, <1>21, <1>22 DEF BuiltTo, NodesTo

LEMMA BuiltIs ==
    ASSUME NEW doc \in Docs
    PROVE  BuiltTo(Build(doc), doc, Len(doc)) /\ BuilderOK(Build(doc), Nat)
<1> DEFINE P == {n \in Nat : n <= Len(doc) => BuiltTo(BuildUpTo(doc)[n], doc, n)}
<1>1. doc \in Seq(Element(Nat)) /\ Len(doc) \in Nat /\ DOMAIN doc = 1..Len(doc)
  BY DocIs DEF Docs
<1>2. \A n \in 0..Len(doc) : BuilderOK(BuildUpTo(doc)[n], Nat)
  BY <1>1, BuildOK
<1>3. 0 \in P
  <2>1. BuilderStart.nodes = <<>> /\ BuilderStart.levels = <<>> /\ BuilderStart.cut = 0
    BY DEF BuilderStart
  <2>2. Lists(<<>>, {})
    BY DEF Lists, Increasing
  <2>3. Reads(<<>>, doc, <<>>, {})
    BY <2>2 DEF Reads
  <2>4. OpenAt(doc, 0) = {} /\ 1..0 = {}
    BY DEF OpenAt
  <2>5. DepthsOf(<<>>, doc, OpenAt(doc, 0))
    <3>1. Lists(<<>>, OpenAt(doc, 0))
      BY <2>2, <2>4, Zenon
    <3>2. DOMAIN <<>> = {}
      OBVIOUS
    <3> QED
      BY <3>1, <3>2 DEF DepthsOf
  <2>6. BuiltTo(BuilderStart, doc, 0)
    <3>1. {} \subseteq 1..0
      OBVIOUS
    <3> QED
      BY <2>1, <2>3, <2>4, <2>5, <3>1 DEF BuiltTo
  <2>7. BuildUpTo(doc)[0] = BuilderStart
    BY <1>1, BuildUpToIs
  <2> QED
    BY <2>6, <2>7
<1>4. ASSUME NEW n \in Nat, n \in P PROVE n + 1 \in P
  <2> SUFFICES ASSUME n + 1 <= Len(doc) PROVE BuiltTo(BuildUpTo(doc)[n + 1], doc, n + 1)
    OBVIOUS
  <2>1. n + 1 \in 1..Len(doc) /\ n \in 0..Len(doc) /\ (n + 1) - 1 = n /\ n + 1 \in Nat
    BY <1>1
  <2> DEFINE i == n + 1
             e == doc[i]
             b == BuildUpTo(doc)[n]
             here == CameTo(b, e)
             c == BuildUpTo(doc)[i]
  <2>2. c = ProcessNode(b, e)
    BY <1>1, <2>1, BuildUpToIs
  <2>3. BuilderOK(b, Nat) /\ BuiltTo(b, doc, n)
    BY <1>2, <1>4, <2>1
  <2>4. i = n + 1 /\ i \in DOMAIN doc /\ here = CameTo(b, e)
    BY <1>1, <2>1
  <2>5. e \in Element(Nat)
    BY <1>1, <2>1
  <2>6. e.depth = doc[i].depth /\ e.el = doc[i].el /\ e.kind = doc[i].kind /\ e.hidden = doc[i].hidden
    OBVIOUS
  <2> HIDE DEF i, e, b, here, c
  <2>7. BuiltTo(c, doc, i)
    BY <2>2, <2>3, <2>4, <2>5, <2>6, BuiltStep
  <2> QED
    BY <2>7 DEF c, i
<1> HIDE DEF P
<1>5. Len(doc) \in P
  BY <1>1, <1>3, <1>4, Induct
<1> QED
  BY <1>1, <1>2, <1>5 DEF P, Build

-----------------------------------------------------------------------------
(* What is shown.                                                          *)
ShowsIn(tree, maxDepth, x) == \E s \in Shown(EnforceDepth(tree, maxDepth)) : x = s.el
ShowsOf(doc, P, maxDepth, x) ==
    \E i \in P : /\ HasNode(doc, i) /\ HasInteractableRole(doc[i].kind) /\ Level(doc, i) < maxDepth
                 /\ x = doc[i].el

LEMMA ShownIs ==
    ASSUME NEW doc \in Docs, NEW T, NEW tree \in Seq(T), NEW at, NEW P, Reads(tree, doc, at, P), NEW maxDepth \in Nat,
           NEW x
    PROVE  ShowsIn(tree, maxDepth, x) <=> ShowsOf(doc, P, maxDepth, x)
<1> DEFINE K == {k \in DOMAIN tree : tree[k].depth <= maxDepth}
           sub == EnforceDepth(tree, maxDepth)
<1>1. /\ Len(at) \in Nat /\ DOMAIN at = 1..Len(at) /\ DOMAIN tree = 1..Len(at)
      /\ \A p \in 1..Len(at) : at[p] \in P /\ at[p] \in DOMAIN doc /\ Describes(tree[p], doc, at[p])
      /\ \A z \in P : \E p \in 1..Len(at) : at[p] = z
  BY ReadsIs
<1>2. PICK ix : Lists(ix, K) /\ From(sub, tree, ix)
  <2>1. sub = Sublist(tree, K) /\ K \cap DOMAIN tree = K
    BY DEF EnforceDepth
  <2> HIDE DEF K, sub
  <2> QED
    BY <2>1, SublistIs
<1>3. /\ Len(ix) \in Nat /\ DOMAIN ix = 1..Len(ix)
      /\ \A p \in 1..Len(ix) : ix[p] \in K /\ ix[p] \in 1..Len(at)
      /\ \A y \in K : \E p \in 1..Len(ix) : ix[p] = y
  <2>1. K \subseteq Nat
    BY <1>1
  <2>2. /\ Len(ix) \in Nat /\ DOMAIN ix = 1..Len(ix)
        /\ \A p \in 1..Len(ix) : ix[p] \in K
        /\ \A y \in K : \E p \in 1..Len(ix) : ix[p] = y
    <3> HIDE DEF K
    <3>1. Len(ix) \in Nat /\ DOMAIN ix = 1..Len(ix)
      BY <1>2, <2>1, ListsIs
    <3>2. \A p \in 1..Len(ix) : ix[p] \in K
      BY <1>2, <2>1, ListsIs
    <3>3. \A y \in K : \E p \in 1..Len(ix) : ix[p] = y
      BY <1>2, <3>1 DEF Lists
    <3> QED
      BY <3>1, <3>2, <3>3
  <2> QED
    BY <1>1, <2>2
<1>4. DOMAIN sub = 1..Len(ix) /\ \A k \in 1..Len(ix) : sub[k] = tree[ix[k]]
  BY <1>2, <1>3 DEF From
<1>5. \A k \in 1..Len(at) : /\ tree[k].el = doc[at[k]].el
                            /\ HasInteractableRole(tree[k].role) <=>
                                 HasNode(doc, at[k]) /\ HasInteractableRole(doc[at[k]].kind)
                            /\ HasNode(doc, at[k]) => (tree[k].depth <= maxDepth <=> Level(doc, at[k]) < maxDepth)
  <2>1. ASSUME NEW k \in 1..Len(at)
        PROVE  /\ tree[k].el = doc[at[k]].el
               /\ HasInteractableRole(tree[k].role) <=>
                    HasNode(doc, at[k]) /\ HasInteractableRole(doc[at[k]].kind)
               /\ HasNode(doc, at[k]) => (tree[k].depth <= maxDepth <=> Level(doc, at[k]) < maxDepth)
    <3>1. at[k] \in DOMAIN doc /\ Describes(tree[k], doc, at[k]) /\ Level(doc, at[k]) \in Nat
      BY <1>1, NodesAboveIs
    <3>2. HasNode(doc, at[k]) => tree[k].depth = Level(doc, at[k]) + 1
      BY <3>1 DEF Describes, NodeDepth
    <3> QED
      BY <3>1, <3>2 DEF Describes, HasInteractableRole
  <2> QED
    BY <2>1
<1> HIDE DEF sub
<1>6. ASSUME NEW s \in Shown(sub), x = s.el
      PROVE  \E i \in P : /\ HasNode(doc, i) /\ HasInteractableRole(doc[i].kind) /\ Level(doc, i) < maxDepth
                          /\ x = doc[i].el
  <2>1. PICK k \in 1..Len(ix) : HasInteractableRole(sub[k].role) /\ x = sub[k].el
    BY <1>4, <1>6 DEF Shown
  <2>2. ix[k] \in 1..Len(at) /\ tree[ix[k]].depth <= maxDepth /\ sub[k] = tree[ix[k]]
    BY <1>3, <1>4
  <2>3. /\ at[ix[k]] \in P /\ HasNode(doc, at[ix[k]]) /\ HasInteractableRole(doc[at[ix[k]]].kind)
        /\ Level(doc, at[ix[k]]) < maxDepth /\ x = doc[at[ix[k]]].el
    BY <1>1, <1>5, <2>1, <2>2
  <2> QED
    BY <2>3
<1>7. ASSUME NEW i \in P, HasNode(doc, i), HasInteractableRole(doc[i].kind), Level(doc, i) < maxDepth, x = doc[i].el
      PROVE  \E s \in Shown(sub) : x = s.el
  <2>1. PICK k \in 1..Len(at) : at[k] = i
    BY <1>1
  <2>2. HasInteractableRole(tree[k].role) /\ tree[k].depth <= maxDepth /\ tree[k].el = x
    BY <1>5, <1>7, <2>1
  <2>3. k \in K
    BY <1>1, <2>2
  <2>4. PICK p \in 1..Len(ix) : ix[p] = k
    BY <1>3, <2>3
  <2>5. p \in DOMAIN sub /\ HasInteractableRole(sub[p].role) /\ sub[p].el = x
    BY <1>4, <2>2, <2>4
  <2>6. [id |-> sub[p].id, el |-> sub[p].el] \in Shown(sub)
    BY <2>5 DEF Shown
  <2> QED
    BY <2>5, <2>6
<1> QED
  BY <1>6, <1>7 DEF sub, ShowsIn, ShowsOf

(* The passes leave what ShouldShow says of the document, whatever it is.  *)
LEMMA TreeIs ==
    ASSUME NEW doc \in Docs, NEW maxDepth \in Nat
    PROVE  {n.el : n \in Shown(CompressTree(Build(doc).nodes, maxDepth))} = ShouldShow(doc, maxDepth)
<1> DEFINE T == TreeNode(Nat)
           tree0 == Build(doc).nodes
           tree1 == RemoveHiddenDOM(tree0)
           tree2 == RemoveEmptyText(tree1)
           tree3 == MergeAdjacentText(tree2)
           hidden == {i \in DOMAIN tree0 : tree0[i].hidden}
           blank == {i \in DOMAIN tree1 : tree1[i].role = "blank"}
           merged == {i \in DOMAIN tree2 : Merged(tree2, i)}
           Hidden == {x \in DOMAIN doc : doc[x].hidden}
           Blank == {x \in DOMAIN doc : doc[x].kind = "blank"}
           Texts == TextsAfterText(doc)
<1>1. DOMAIN doc = 1..Len(doc) /\ Len(doc) \in Nat
  BY DocIs
<1>2. tree0 \in Seq(T) /\ tree1 \in Seq(T) /\ tree2 \in Seq(T) /\ tree3 \in Seq(T)
  <2>1. tree0 \in Seq(T)
    BY BuiltIs DEF BuilderOK
  <2> HIDE DEF tree0, T
  <2>2. tree1 \in Seq(T)
    BY <2>1, SublistIs DEF RemoveHiddenDOM, Without
  <2> HIDE DEF tree1
  <2>3. tree2 \in Seq(T)
    BY <2>2, SublistIs DEF RemoveEmptyText, Without
  <2> HIDE DEF tree2
  <2>4. tree3 \in Seq(T)
    BY <2>3, SublistIs DEF MergeAdjacentText, Without
  <2> QED
    BY <2>1, <2>2, <2>3, <2>4
<1>3. /\ tree1 = Without(tree0, hidden) /\ tree2 = Without(tree1, blank) /\ tree3 = Without(tree2, merged)
      /\ CompressTree(tree0, maxDepth) = EnforceDepth(tree3, maxDepth)
  BY Zenon DEF RemoveHiddenDOM, RemoveEmptyText, MergeAdjacentText, CompressTree
<1>4. PICK at0, P0 : Reads(tree0, doc, at0, P0) /\ \A x \in 1..Len(doc) : HasNode(doc, x) => x \in P0
  BY BuiltIs DEF BuiltTo
<1> HIDE DEF T, tree0, tree1, tree2, tree3
<1>5. Upward(doc, P0) /\ HoldsAsAbove(tree0, doc, at0)
  <2>1. HoldsAsAbove(tree0, doc, at0)
    BY <1>1, <1>4, BuiltHolds
  <2>2. P0 \subseteq DOMAIN doc
    BY <1>4 DEF Reads
  <2>3. ASSUME NEW x \in P0, HasNode(doc, x), NEW y \in NodesAbove(doc, x) PROVE y \in P0
    <3>1. HasNode(doc, y) /\ y \in DOMAIN doc
      BY <2>2, <2>3, NodesHaveNodes
    <3> QED
      BY <1>1, <1>4, <3>1
  <2> QED
    BY <2>1, <2>3 DEF Upward
<1>6. PICK at1, P1 : /\ Reads(tree1, doc, at1, P1) /\ Upward(doc, P1) /\ HoldsAsAbove(tree1, doc, at1)
                     /\ LeftOf(doc, P0, Hidden, P1)
  <2>1. \A p \in DOMAIN at0 : HasNode(doc, at0[p]) => (p \in hidden <=> at0[p] \in Hidden)
    BY <1>4, ReadsIs DEF Describes
  <2> HIDE DEF hidden, Hidden
  <2>3. PICK ix : Lists(ix, Kept(tree0, hidden)) /\ From(tree1, tree0, ix)
    BY <1>2, <1>3, WithoutIs
  <2> QED
    BY <1>2, <1>4, <1>5, <2>1, <2>3, Pass
<1>7. PICK at2, P2 : /\ Reads(tree2, doc, at2, P2) /\ Upward(doc, P2) /\ HoldsAsAbove(tree2, doc, at2)
                     /\ LeftOf(doc, P1, Blank, P2)
  <2>1. \A p \in DOMAIN at1 : HasNode(doc, at1[p]) => (p \in blank <=> at1[p] \in Blank)
    BY <1>6, ReadsIs DEF Describes
  <2> HIDE DEF blank, Blank
  <2>3. PICK ix : Lists(ix, Kept(tree1, blank)) /\ From(tree2, tree1, ix)
    BY <1>2, <1>3, WithoutIs
  <2> QED
    BY <1>2, <1>6, <2>1, <2>3, Pass
<1>8. \A x \in DOMAIN doc : HasNode(doc, x) => (x \in P2 <=> Stays(doc, x))
  <2>1. ASSUME NEW x \in DOMAIN doc, HasNode(doc, x) PROVE x \in P2 <=> Stays(doc, x)
    <3>1. NodesAbove(doc, x) \cup {x} \subseteq DOMAIN doc
      BY <2>1, NodesAboveIs
    <3>2. x \in P0
      BY <1>1, <1>4, <2>1
    <3>3. x \in P1 <=> \A y \in NodesAbove(doc, x) \cup {x} : y \notin Hidden
      BY <1>6, <2>1, <3>2 DEF LeftOf
    <3>4. x \in P2 <=> x \in P1 /\ \A y \in NodesAbove(doc, x) \cup {x} : y \notin Blank
      BY <1>7, <2>1 DEF LeftOf
    <3> QED
      BY <2>1, <3>1, <3>3, <3>4 DEF Stays
  <2> QED
    BY <2>1
<1>9. PICK at3, P3 : /\ Reads(tree3, doc, at3, P3) /\ Upward(doc, P3) /\ HoldsAsAbove(tree3, doc, at3)
                     /\ LeftOf(doc, P2, Texts, P3)
  <2>1. DOMAIN at2 = DOMAIN tree2
    BY <1>7 DEF Reads
  <2>2. \A p \in DOMAIN at2 : HasNode(doc, at2[p]) => (p \in merged <=> at2[p] \in Texts)
    BY <1>7, <1>8, <2>1, MergedIs
  <2> HIDE DEF merged, Texts
  <2>3. PICK ix : Lists(ix, Kept(tree2, merged)) /\ From(tree3, tree2, ix)
    BY <1>2, <1>3, WithoutIs
  <2> QED
    BY <1>2, <1>7, <2>2, <2>3, Pass
<1>10. P3 \subseteq DOMAIN doc
  BY <1>9 DEF Reads
<1>11. ASSUME NEW i \in DOMAIN doc, HasNode(doc, i), HasInteractableRole(doc[i].kind)
       PROVE  i \in P3 <=> /\ Stays(doc, i)
                           /\ \A j \in NodesAbove(doc, i) : doc[j].kind = "text" =>
                                 ~\E k \in DOMAIN doc : NodeBefore(doc, k, j) /\ doc[k].kind = "text"
  <2>1. i \notin Texts
    BY <1>11 DEF TextsAfterText, HasInteractableRole
  <2>2. NodesAbove(doc, i) \subseteq DOMAIN doc
    BY <1>11, NodesAboveIs
  <2>3. i \in P3 <=> Stays(doc, i) /\ \A y \in NodesAbove(doc, i) : y \notin Texts
    BY <1>8, <1>9, <1>11, <2>1 DEF LeftOf
  <2> QED
    BY <2>2, <2>3 DEF TextsAfterText
<1>12. ASSUME NEW x PROVE (\E s \in Shown(EnforceDepth(tree3, maxDepth)) : x = s.el) <=> x \in ShouldShow(doc, maxDepth)
  <2>1. ShowsIn(tree3, maxDepth, x) <=> ShowsOf(doc, P3, maxDepth, x)
    BY <1>2, <1>9, ShownIs
  <2>2. x \in ShouldShow(doc, maxDepth) <=>
        (\E i \in DOMAIN doc : /\ i \in P3 /\ HasNode(doc, i) /\ HasInteractableRole(doc[i].kind)
                               /\ Level(doc, i) < maxDepth /\ x = doc[i].el)
    BY <1>11 DEF ShouldShow, Stays
  <2> QED
    BY <1>10, <2>1, <2>2 DEF ShowsIn, ShowsOf
<1>13. {n.el : n \in Shown(EnforceDepth(tree3, maxDepth))} = ShouldShow(doc, maxDepth)
  BY <1>12
<1> QED
  BY <1>3, <1>13 DEF tree0

(* For every document and maximal depth, at every call: the tool semantic  *)
(* tree shows those links and widgets of the page that ShouldShow finds,   *)
(* by the nesting of its elements alone, and no others.                    *)
THEOREM TreeAsReadHolds == McpSpec => []TreeAsRead
<1>1. McpInit => TreeAsRead
  BY DEF McpInit, TreeAsRead
<1>2. McpInv /\ TreeAsRead /\ [McpNext]_mcpVars => TreeAsRead'
  <2> SUFFICES ASSUME McpInv, TreeAsRead, [McpNext]_mcpVars PROVE TreeAsRead'
    OBVIOUS
  <2>1. CASE UNCHANGED compressed
    BY <2>1 DEF TreeAsRead
  <2>2. ASSUME NEW u \in Urls, NEW depth \in Depths, SemanticTree(u, depth) PROVE TreeAsRead'
    <3> DEFINE doc == GetOrNavigate(u).doc
    <3>1. compressed' = ({n.el : n \in Shown(CompressTree(Build(doc).nodes, depth))} = ShouldShow(doc, depth))
      BY <2>2 DEF SemanticTree
    <3>2. doc \in Docs
      <4>1. 1..GetOrNavigate(u).next \subseteq Nat /\ doc \in Seq(Element(1..GetOrNavigate(u).next))
        BY GetOrNavigateIs
      <4>2. Element(1..GetOrNavigate(u).next) \subseteq Element(Nat)
        BY <4>1 DEF Element
      <4> HIDE DEF doc
      <4> QED
        BY <4>1, <4>2, SeqSubset DEF Docs
    <3>3. depth \in Nat
      BY DepthsAreNumbers
    <3> HIDE DEF doc
    <3> QED
      BY <3>1, <3>2, <3>3, TreeIs DEF TreeAsRead
  <2> QED
    BY <2>1, <2>2 DEF McpNext, mcpVars, NoTool, NavigateFails, Browse, Query, Evaluate, InteractCss, NoElement,
                      InteractNode, session, history
<1> QED
  BY <1>1, <1>2, McpInvInit, McpInvNext, PTL DEF McpSpec

=============================================================================
