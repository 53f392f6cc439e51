---------------------------- MODULE TargetsProofs ----------------------------
(***************************************************************************)
(* Proofs about Targets, for any targets, sessions and number of handlers: *)
(* sessions are served by their page, marks agree with sessions, and the   *)
(* end of a target is reported once.                                       *)
(***************************************************************************)
EXTENDS Targets, TLAPS

Holding(h) == handler[h].pc \in {"register", "wire", "tell"}
Closing(h) == handler[h].pc \in {"close", "remove", "destroyed"}

(* What no handler has produced yet is clean, and what a handler works on  *)
(* exists: a target that left known is never added again.                  *)
Fresh ==
    /\ \A s \in SessionIds \ used : sessions[s] = None
    /\ \A t \in Targets \ made : ~attached[t]
    /\ \A s \in SessionIds : sessions[s] # None => sessions[s] \in made
    /\ \A h \in Handlers :
          /\ handler[h].todo \subseteq made
          /\ Holding(h) \/ Closing(h) \/ handler[h].pc = "create" => handler[h].target \in made

(* One handler, and no client, holds a session until it is told of; how    *)
(* far the scope is depends on where the handler is, unless the session    *)
(* was removed with its target.                                            *)
Held ==
    \A h \in Handlers : Holding(h) =>
        LET s == handler[h].session
        IN /\ s \in used /\ s \notin told
           /\ \A g \in Handlers \ {h} : Holding(g) => handler[g].session # s
           /\ sessions[s] \in {None, handler[h].target}
           /\ sessions[s] \in known =>
                 /\ handler[h].page = sessions[s]
                 /\ handler[h].pc = "wire" => scopes[s] = Bare
                 /\ handler[h].pc = "tell" => scopes[s] = sessions[s]

Unscoping ==
    \A h \in Handlers : handler[h].pc = "unscope" =>
        handler[h].session \in used /\ sessions[handler[h].session] = None

(* A report that is due is due once. *)
Reporting ==
    \A h \in Handlers :
        /\ handler[h].pc = "remove" => handler[h].target \in closed
        /\ handler[h].pc = "destroyed" =>
              /\ handler[h].target \in closed
              /\ handler[h].target \notin known
              /\ destroyed[handler[h].target] = 0
              /\ \A g \in Handlers \ {h} : handler[g].pc = "destroyed" =>
                    handler[g].target # handler[h].target

IInv == TypeOK /\ Fresh /\ Held /\ Unscoping /\ Reporting
        /\ SessionServed /\ MarkHasSession /\ DestroyedOnce

LEMMA InitIInv == Init => IInv
<1> SUFFICES ASSUME Init
             PROVE  IInv
  OBVIOUS
<1>1. TypeOK
  BY InitialIsTarget DEF Init, TypeOK, Doing, PCs, Idle, At
<1>2. \A h \in Handlers : handler[h] = Idle
  BY DEF Init
<1>3. Fresh
  BY <1>2 DEF Init, Fresh, Holding, Closing, Idle, At
<1>4. Held /\ Unscoping /\ Reporting
  BY <1>2 DEF Held, Unscoping, Reporting, Holding, Idle, At
<1>5. SessionServed /\ MarkHasSession /\ DestroyedOnce
  <2>1. SessionServed
    BY DEF Init, SessionServed
  <2>2. MarkHasSession
    BY InitialIsTarget, Zenon DEF Init, MarkHasSession
  <2>3. DestroyedOnce
    BY DEF Init, DestroyedOnce
  <2> QED
    BY <2>1, <2>2, <2>3
<1> QED
  BY <1>1, <1>3, <1>4, <1>5 DEF IInv

-----------------------------------------------------------------------------
(* A handler's record, changed. *)

LEMMA Moves ==
    ASSUME handler \in [Handlers -> Doing], NEW h \in Handlers, NEW pc \in PCs,
           handler' = [handler EXCEPT ![h].pc = pc]
    PROVE  /\ handler' \in [Handlers -> Doing]
           /\ handler'[h].pc = pc
           /\ \A g \in Handlers :
                 /\ handler'[g].target = handler[g].target
                 /\ handler'[g].session = handler[g].session
                 /\ handler'[g].page = handler[g].page
                 /\ handler'[g].event = handler[g].event
                 /\ handler'[g].todo = handler[g].todo
           /\ \A g \in Handlers \ {h} : handler'[g] = handler[g]
<1>1. handler[h] \in Doing
  OBVIOUS
<1>2. handler' = [handler EXCEPT ![h] = [handler[h] EXCEPT !.pc = pc]]
  OBVIOUS
<1>3. [handler[h] EXCEPT !.pc = pc] \in Doing
  BY <1>1 DEF Doing
<1>4. handler'[h] = [handler[h] EXCEPT !.pc = pc]
  BY <1>2
<1>5. /\ handler'[h].pc = pc
      /\ handler'[h].target = handler[h].target
      /\ handler'[h].session = handler[h].session
      /\ handler'[h].page = handler[h].page
      /\ handler'[h].event = handler[h].event
      /\ handler'[h].todo = handler[h].todo
  BY <1>1, <1>4 DEF Doing
<1> QED
  BY <1>2, <1>3, <1>5

LEMMA AttachMoves ==
    ASSUME TypeOK, NEW h \in Handlers, NEW t \in Targets, NEW s \in SessionIds,
           NEW event \in BOOLEAN, NEW todo \in SUBSET Targets, Attach(h, t, s, event, todo)
    PROVE  /\ TypeOK'
           /\ handler'[h].pc = "register" /\ handler'[h].target = t
           /\ handler'[h].session = s /\ handler'[h].todo = todo
           /\ handler'[h].page = IF t \in known THEN t ELSE None
           /\ \A g \in Handlers \ {h} : handler'[g] = handler[g]
<1> DEFINE r == [pc |-> "register", target |-> t, session |-> s,
                 page |-> IF t \in known THEN t ELSE None, event |-> event, todo |-> todo]
<1>1. r \in Doing
  BY DEF Doing, PCs
<1>2. handler' = [handler EXCEPT ![h] = r]
  BY DEF Attach
<1>3. handler' \in [Handlers -> Doing] /\ handler'[h] = r
  BY <1>1, <1>2 DEF TypeOK
<1>4. \A g \in Handlers \ {h} : handler'[g] = handler[g]
  BY <1>2 DEF TypeOK
<1>5. TypeOK'
  BY <1>3 DEF TypeOK, Attach
<1> QED
  BY <1>3, <1>4, <1>5

-----------------------------------------------------------------------------
(* A new session. *)

LEMMA AttachStep ==
    ASSUME IInv, NEW h \in Handlers, NEW t \in made, NEW s \in SessionIds,
           NEW event \in BOOLEAN, NEW todo \in SUBSET made, Attach(h, t, s, event, todo),
           ~Holding(h), ~Closing(h)
    PROVE  IInv'
<1>1. /\ t \in Targets /\ todo \in SUBSET Targets
      /\ TypeOK /\ Fresh /\ Held /\ told \subseteq used
  BY DEF IInv, TypeOK
<1>2. /\ TypeOK'
      /\ handler'[h].pc = "register" /\ handler'[h].target = t
      /\ handler'[h].session = s /\ handler'[h].todo = todo
      /\ handler'[h].page = IF t \in known THEN t ELSE None
      /\ \A g \in Handlers \ {h} : handler'[g] = handler[g]
  BY <1>1, AttachMoves
<1>3. /\ s \notin used /\ used' = used \cup {s} /\ scopes' = scopes
      /\ \A x \in SessionIds : sessions'[x] = IF x = s THEN t ELSE sessions[x]
      /\ \A u \in Targets \ {t} : attached'[u] = attached[u]
      /\ UNCHANGED <<known, made, closed, crashed, told, announced, destroyed>>
  BY <1>1 DEF Attach, TypeOK
<1>4. s \notin told /\ sessions[s] = None
  BY <1>1, <1>3 DEF Fresh
<1>5. Fresh'
  BY <1>1, <1>2, <1>3 DEF Fresh, Holding, Closing
<1>6. Held'
  <2>1. ASSUME NEW g \in Handlers, Holding(g)'
        PROVE  LET x == handler'[g].session
               IN /\ x \in used' /\ x \notin told'
                  /\ \A k \in Handlers \ {g} : Holding(k)' => handler'[k].session # x
                  /\ sessions'[x] \in {None, handler'[g].target}
                  /\ sessions'[x] \in known' =>
                       /\ handler'[g].page = sessions'[x]
                       /\ handler'[g].pc = "wire" => scopes'[x] = Bare
                       /\ handler'[g].pc = "tell" => scopes'[x] = sessions'[x]
    <3>1. CASE g = h
      <4>1. \A k \in Handlers \ {g} : Holding(k)' => handler'[k].session # s
        BY <1>1, <1>2, <1>3, <3>1 DEF Held, Holding
      <4> QED
        BY <1>2, <1>3, <1>4, <3>1, <4>1
    <3>2. CASE g # h
      <4> DEFINE x == handler[g].session
      <4>1. handler'[g] = handler[g] /\ Holding(g)
        BY <1>2, <2>1, <3>2 DEF Holding
      <4>2. /\ x \in used /\ x \notin told /\ x # s
            /\ \A k \in Handlers \ {g} : Holding(k) => handler[k].session # x
            /\ sessions[x] \in {None, handler[g].target}
            /\ sessions[x] \in known =>
                 /\ handler[g].page = sessions[x]
                 /\ handler[g].pc = "wire" => scopes[x] = Bare
                 /\ handler[g].pc = "tell" => scopes[x] = sessions[x]
        BY <1>1, <1>3, <4>1 DEF Held
      <4>3. x \in SessionIds
        BY <1>1, <4>2 DEF TypeOK
      <4>4. \A k \in Handlers \ {g} : Holding(k)' => handler'[k].session # x
        BY <1>2, <4>2 DEF Holding
      <4> QED
        BY <1>3, <4>1, <4>2, <4>3, <4>4
    <3> QED
      BY <3>1, <3>2
  <2> QED
    BY <2>1 DEF Held
<1>7. Unscoping'
  BY <1>2, <1>3, <1>4 DEF IInv, TypeOK, Unscoping
<1>8. Reporting'
  BY <1>2, <1>3 DEF IInv, Reporting
<1>9. SessionServed'
  BY <1>3, <1>4 DEF IInv, TypeOK, SessionServed
<1>10. MarkHasSession'
  <2>1. ASSUME NEW u \in known, u # t, attached[u]
        PROVE  \E x \in SessionIds : sessions'[x] = u
    <3>1. PICK x \in SessionIds : sessions[x] = u
      BY <2>1 DEF IInv, MarkHasSession
    <3>2. x # s
      BY <1>1, <1>4, <2>1, <3>1, NoneIsNone DEF TypeOK
    <3> QED
      BY <1>3, <3>1, <3>2
  <2>2. \A u \in known \ {t} : attached'[u] <=> attached[u]
    BY <1>1, <1>3 DEF TypeOK
  <2> QED
    BY <1>3, <2>1, <2>2 DEF MarkHasSession
<1>11. DestroyedOnce'
  BY <1>3 DEF IInv, DestroyedOnce
<1> QED
  BY <1>2, <1>5, <1>6, <1>7, <1>8, <1>9, <1>10, <1>11 DEF IInv

-----------------------------------------------------------------------------
(* A step of one handler leaves the others what they hold, if it does not  *)
(* touch the scopes of their sessions that are still in use.               *)
LEMMA HeldKept ==
    ASSUME IInv, NEW h \in Handlers, ~Holding(h)', used' = used,
           \A g \in Handlers \ {h} : handler'[g] = handler[g],
           \A g \in Handlers \ {h} : Holding(g) =>
              LET x == handler[g].session
              IN /\ x \notin told'
                 /\ sessions'[x] \in {None, sessions[x]}
                 /\ sessions'[x] \in known' =>
                       sessions[x] \in known /\ sessions'[x] = sessions[x] /\ scopes'[x] = scopes[x]
    PROVE  Held'
<1>1. ASSUME NEW g \in Handlers, Holding(g)'
      PROVE  LET x == handler'[g].session
             IN /\ x \in used' /\ x \notin told'
                /\ \A k \in Handlers \ {g} : Holding(k)' => handler'[k].session # x
                /\ sessions'[x] \in {None, handler'[g].target}
                /\ sessions'[x] \in known' =>
                     /\ handler'[g].page = sessions'[x]
                     /\ handler'[g].pc = "wire" => scopes'[x] = Bare
                     /\ handler'[g].pc = "tell" => scopes'[x] = sessions'[x]
  <2> DEFINE x == handler[g].session
  <2>1. g # h /\ handler'[g] = handler[g] /\ Holding(g)
    BY <1>1 DEF Holding
  <2>2. /\ x \in used
        /\ \A k \in Handlers \ {g} : Holding(k) => handler[k].session # x
        /\ sessions[x] \in {None, handler[g].target}
        /\ sessions[x] \in known =>
             /\ handler[g].page = sessions[x]
             /\ handler[g].pc = "wire" => scopes[x] = Bare
             /\ handler[g].pc = "tell" => scopes[x] = sessions[x]
    BY <2>1 DEF IInv, Held
  <2>3. \A k \in Handlers \ {g} : Holding(k)' => handler'[k].session # x
    BY <2>2 DEF Holding
  <2>4. /\ x \notin told'
        /\ sessions'[x] \in {None, sessions[x]}
        /\ sessions'[x] \in known' =>
             sessions[x] \in known /\ sessions'[x] = sessions[x] /\ scopes'[x] = scopes[x]
    BY <2>1
  <2> QED
    BY <2>1, <2>2, <2>3, <2>4
<1> QED
  BY <1>1 DEF Held

(* Steps that only move a handler on, to nothing that the invariant speaks *)
(* of: the copy of the targets, the skipped ones, the response, the lookup *)
(* of the target to close, the crash.                                      *)
LEMMA QuietStep ==
    ASSUME IInv, NEW h \in Handlers, handler' \in [Handlers -> Doing],
           \A g \in Handlers \ {h} : handler'[g] = handler[g],
           handler'[h].pc \in {"idle", "auto", "create", "close"},
           handler'[h].todo \subseteq made,
           handler'[h].pc \in {"create", "close"} => handler'[h].target \in made,
           crashed' \in BOOLEAN,
           UNCHANGED <<known, attached, made, closed, destroyed, sessions, scopes, used, told, announced>>
    PROVE  IInv'
<1>1. TypeOK'
  BY DEF IInv, TypeOK
<1>2. Fresh'
  BY DEF IInv, Fresh, Holding, Closing
<1>3. Held'
  <2>1. ~Holding(h)'
    BY DEF Holding
  <2>2. \A g \in Handlers : Holding(g) => handler[g].session \notin told
    BY DEF IInv, Held
  <2> QED
    BY <2>1, <2>2, HeldKept
<1>4. Unscoping' /\ Reporting'
  BY DEF IInv, Unscoping, Reporting
<1>5. SessionServed' /\ MarkHasSession' /\ DestroyedOnce'
  BY DEF IInv, SessionServed, MarkHasSession, DestroyedOnce
<1> QED
  BY <1>1, <1>2, <1>3, <1>4, <1>5 DEF IInv

(* The scope of a new session, and the client that learns of it. *)
LEMMA ScopeStep ==
    ASSUME IInv, NEW h \in Handlers, RegisterScope(h) \/ WireScope(h)
    PROVE  IInv'
<1> DEFINE s == handler[h].session
<1>1. /\ Holding(h) /\ s \in used /\ s \notin told /\ s \in SessionIds
      /\ \A g \in Handlers \ {h} : Holding(g) => handler[g].session # s
      /\ sessions[s] \in {None, handler[h].target}
      /\ sessions[s] \in known => handler[h].page = sessions[s]
      /\ sessions[s] \in known /\ handler[h].pc = "wire" => scopes[s] = Bare
  BY DEF IInv, Held, TypeOK, Holding, RegisterScope, WireScope
<1>2. PICK pc \in {"wire", "tell"} :
        /\ handler' = [handler EXCEPT ![h].pc = pc]
        /\ pc = "wire" <=> handler[h].pc = "register"
        /\ pc = "tell" <=> handler[h].pc = "wire"
  BY DEF RegisterScope, WireScope
<1>3. pc \in PCs /\ handler \in [Handlers -> Doing]
  BY DEF PCs, IInv, TypeOK
<1>4. /\ handler' \in [Handlers -> Doing]
      /\ handler'[h].pc = pc
      /\ \A g \in Handlers :
            /\ handler'[g].target = handler[g].target
            /\ handler'[g].session = handler[g].session
            /\ handler'[g].page = handler[g].page
            /\ handler'[g].todo = handler[g].todo
      /\ \A g \in Handlers \ {h} : handler'[g] = handler[g]
  BY <1>2, <1>3, Moves
<1>5. UNCHANGED <<known, attached, made, closed, crashed, destroyed, sessions, used, told, announced>>
  BY DEF RegisterScope, WireScope, infoVars
<1>6. /\ scopes' \in [SessionIds -> Targets \cup {None, Bare}]
      /\ \A x \in SessionIds \ {s} : scopes'[x] = scopes[x]
      /\ pc = "wire" => scopes'[s] = Bare
      /\ pc = "tell" /\ sessions[s] \in known => scopes'[s] = sessions[s]
  <2>1. CASE RegisterScope(h)
    <3>1. scopes' = [scopes EXCEPT ![s] = Bare] /\ pc = "wire"
      BY <1>2, <2>1 DEF RegisterScope
    <3> QED
      BY <1>1, <3>1 DEF IInv, TypeOK
  <2>2. CASE WireScope(h)
    <3>1. pc = "tell" /\ handler[h].pc = "wire" /\ handler[h].page \in Targets \cup {None}
      BY <1>2, <1>3, <2>2 DEF WireScope, Doing
    <3>2. scopes' = IF scopes[s] = Bare /\ handler[h].page # None
                    THEN [scopes EXCEPT ![s] = handler[h].page] ELSE scopes
      BY <2>2 DEF WireScope
    <3>3. sessions[s] \in known => sessions[s] # None
      BY NoneIsNone DEF IInv, TypeOK
    <3>4. CASE scopes[s] = Bare /\ handler[h].page # None
      <4>1. scopes' = [scopes EXCEPT ![s] = handler[h].page] /\ handler[h].page \in Targets
        BY <3>1, <3>2, <3>4
      <4> QED
        BY <1>1, <3>1, <4>1 DEF IInv, TypeOK
    <3>5. CASE ~(scopes[s] = Bare /\ handler[h].page # None)
      <4>1. scopes' = scopes
        BY <3>2, <3>5
      <4>2. sessions[s] \notin known
        BY <1>1, <3>1, <3>3, <3>5
      <4> QED
        BY <3>1, <4>1, <4>2 DEF IInv, TypeOK
    <3> QED
      BY <3>4, <3>5
  <2> QED
    BY <2>1, <2>2
<1>7. TypeOK'
  BY <1>4, <1>5, <1>6 DEF IInv, TypeOK
<1>8. Fresh'
  <2>1. Holding(h)' /\ ~Closing(h)' /\ handler'[h].pc # "create"
    BY <1>4 DEF Holding, Closing
  <2>2. handler[h].target \in made
    BY <1>1 DEF IInv, Fresh
  <2> QED
    BY <1>4, <1>5, <2>1, <2>2 DEF IInv, Fresh, Holding, Closing
<1>9. Held'
  <2>1. ASSUME NEW g \in Handlers \ {h}, Holding(g)
        PROVE  LET x == handler[g].session
               IN x \in used /\ x # s /\ scopes'[x] = scopes[x]
    BY <1>1, <1>6, <2>1 DEF IInv, Held, TypeOK
  <2>2. ASSUME NEW g \in Handlers \ {h}, Holding(g)'
        PROVE  LET x == handler'[g].session
               IN /\ x \in used' /\ x \notin told'
                  /\ \A k \in Handlers \ {g} : Holding(k)' => handler'[k].session # x
                  /\ sessions'[x] \in {None, handler'[g].target}
                  /\ sessions'[x] \in known' =>
                       /\ handler'[g].page = sessions'[x]
                       /\ handler'[g].pc = "wire" => scopes'[x] = Bare
                       /\ handler'[g].pc = "tell" => scopes'[x] = sessions'[x]
    <3>1. Holding(g) /\ handler'[g] = handler[g]
      BY <1>4, <2>2 DEF Holding
    <3>2. \A k \in Handlers : Holding(k)' => Holding(k)
      BY <1>1, <1>4 DEF Holding
    <3> QED
      BY <1>4, <1>5, <2>1, <3>1, <3>2 DEF IInv, Held
  <2>3. ASSUME NEW k \in Handlers \ {h}, Holding(k)'
        PROVE  handler'[k].session # s
    <3>1. handler'[k] = handler[k] /\ Holding(k)
      BY <1>4, <2>3 DEF Holding
    <3> QED
      BY <1>1, <3>1
  <2>4. LET x == handler'[h].session
        IN /\ x \in used' /\ x \notin told'
           /\ \A k \in Handlers \ {h} : Holding(k)' => handler'[k].session # x
           /\ sessions'[x] \in {None, handler'[h].target}
           /\ sessions'[x] \in known' =>
                /\ handler'[h].page = sessions'[x]
                /\ handler'[h].pc = "wire" => scopes'[x] = Bare
                /\ handler'[h].pc = "tell" => scopes'[x] = sessions'[x]
    <3>1. handler'[h].session = s /\ handler'[h].page = handler[h].page
          /\ handler'[h].target = handler[h].target /\ handler'[h].pc = pc
      BY <1>4
    <3> HIDE DEF s
    <3> QED
      BY <1>1, <1>5, <1>6, <2>3, <3>1
  <2> QED
    BY <2>2, <2>4 DEF Held
<1>10. Unscoping' /\ Reporting'
  BY <1>4, <1>5 DEF IInv, Unscoping, Reporting
<1>11. SessionServed'
  BY <1>1, <1>5, <1>6 DEF IInv, TypeOK, SessionServed
<1>12. MarkHasSession' /\ DestroyedOnce'
  BY <1>5 DEF IInv, MarkHasSession, DestroyedOnce
<1> QED
  BY <1>7, <1>8, <1>9, <1>10, <1>11, <1>12 DEF IInv

(* A handler's record, replaced. *)
LEMMA Becomes ==
    ASSUME handler \in [Handlers -> Doing], NEW h \in Handlers, NEW r \in Doing,
           handler' = [handler EXCEPT ![h] = r]
    PROVE  /\ handler' \in [Handlers -> Doing] /\ handler'[h] = r
           /\ \A g \in Handlers \ {h} : handler'[g] = handler[g]
OBVIOUS

LEMMA IdleIsDoing == Idle \in Doing
BY DEF Idle, At, Doing, PCs

LEMMA TellStep ==
    ASSUME IInv, NEW h \in Handlers, Tell(h)
    PROVE  IInv'
<1> DEFINE s == handler[h].session
           r == [pc |-> "auto", target |-> None, session |-> None, page |-> None,
                 event |-> FALSE, todo |-> handler[h].todo]
<1>1. /\ Holding(h) /\ s \in used /\ s \in SessionIds
      /\ \A g \in Handlers \ {h} : Holding(g) => handler[g].session # s
      /\ sessions[s] \in known => scopes[s] = sessions[s]
  BY DEF IInv, Held, TypeOK, Holding, Tell
<1>2. handler[h].todo \subseteq made /\ handler[h].todo \subseteq Targets
  BY DEF IInv, Fresh, TypeOK
<1>4. r \in Doing
  BY <1>2 DEF Doing, PCs
<1>5. /\ handler' \in [Handlers -> Doing] /\ handler'[h] = r
      /\ \A g \in Handlers \ {h} : handler'[g] = handler[g]
  <2>1. handler' = [handler EXCEPT ![h] = r] /\ handler \in [Handlers -> Doing]
    BY DEF Tell, At, IInv, TypeOK
  <2> QED
    BY <1>4, <2>1, Becomes
<1>6. /\ UNCHANGED <<known, attached, made, closed, crashed, destroyed, sessions, scopes, used>>
      /\ told' = told \cup {s}
      /\ announced' \in {announced, announced \cup {s}}
  BY DEF Tell, infoVars
<1>7. handler'[h].pc = "auto" /\ handler'[h].todo = handler[h].todo
  BY <1>5
<1>8. TypeOK'
  BY <1>1, <1>5, <1>6 DEF IInv, TypeOK
<1>9. Fresh'
  BY <1>2, <1>5, <1>6, <1>7 DEF IInv, Fresh, Holding, Closing
<1>10. Held'
  <2>1. ~Holding(h)'
    BY <1>7 DEF Holding
  <2>2. \A g \in Handlers \ {h} : Holding(g) => handler[g].session \notin told'
    BY <1>1, <1>6 DEF IInv, Held
  <2> QED
    BY <1>5, <1>6, <2>1, <2>2, HeldKept
<1>11. Unscoping' /\ Reporting'
  <2>1. Unscoping'
    BY <1>5, <1>6, <1>7 DEF IInv, Unscoping
  <2>2. Reporting'
    BY <1>5, <1>6, <1>7 DEF IInv, Reporting
  <2> QED
    BY <2>1, <2>2
<1>12. SessionServed'
  BY <1>1, <1>6 DEF IInv, SessionServed
<1>13. MarkHasSession' /\ DestroyedOnce'
  BY <1>6 DEF IInv, MarkHasSession, DestroyedOnce
<1> QED
  BY <1>8, <1>9, <1>10, <1>11, <1>12, <1>13 DEF IInv

-----------------------------------------------------------------------------
(* Targets and sessions that come and go. *)

LEMMA AddPageStep ==
    ASSUME IInv, NEW h \in Handlers, NEW t \in Targets, AddPage(h, t)
    PROVE  IInv'
<1> DEFINE r == [pc |-> "create", target |-> t, session |-> None, page |-> None,
                 event |-> FALSE, todo |-> {}]
<1>1. r \in Doing
  BY DEF Doing, PCs
<1>2. /\ handler' \in [Handlers -> Doing] /\ handler'[h] = r
      /\ \A g \in Handlers \ {h} : handler'[g] = handler[g]
  <2>1. handler' = [handler EXCEPT ![h] = r] /\ handler \in [Handlers -> Doing]
    BY DEF AddPage, At, IInv, TypeOK
  <2> QED
    BY <1>1, <2>1, Becomes
<1>3. /\ t \notin made /\ made' = made \cup {t} /\ known' = known \cup {t}
      /\ UNCHANGED <<attached, closed, crashed, destroyed, sessions, scopes, used, told, announced>>
  BY DEF AddPage
<1>4. handler'[h].pc = "create" /\ handler'[h].todo = {} /\ handler'[h].target = t
  BY <1>2
<1>5. /\ ~attached[t] /\ t \notin closed
      /\ \A x \in SessionIds : sessions[x] # t
  BY <1>3, NoneIsNone DEF IInv, Fresh, TypeOK
<1>6. TypeOK'
  BY <1>2, <1>3 DEF IInv, TypeOK
<1>7. Fresh'
  BY <1>2, <1>3, <1>4 DEF IInv, Fresh, Holding, Closing
<1>8. Held'
  <2>1. ~Holding(h)'
    BY <1>4 DEF Holding
  <2>2. ASSUME NEW g \in Handlers, Holding(g)
        PROVE  /\ handler[g].session \in SessionIds
               /\ handler[g].session \notin told
    BY <2>2 DEF IInv, Held, TypeOK
  <2> QED
    BY <1>2, <1>3, <1>5, <2>1, <2>2, HeldKept
<1>9. Unscoping'
  BY <1>2, <1>3, <1>4 DEF IInv, Unscoping
<1>10. Reporting'
  <2>1. \A g \in Handlers : handler[g].pc = "destroyed" => handler[g].target # t
    BY <1>5 DEF IInv, Reporting
  <2> QED
    BY <1>2, <1>3, <1>4, <2>1 DEF IInv, Reporting
<1>11. SessionServed'
  BY <1>3, <1>5 DEF IInv, TypeOK, SessionServed
<1>12. MarkHasSession'
  BY <1>3, <1>5 DEF IInv, MarkHasSession
<1>13. DestroyedOnce'
  BY <1>3, <1>5 DEF IInv, DestroyedOnce
<1> QED
  BY <1>6, <1>7, <1>8, <1>9, <1>10, <1>11, <1>12, <1>13 DEF IInv

LEMMA DetachStep ==
    ASSUME IInv, NEW h \in Handlers, NEW s \in SessionIds, DetachFromTarget(h, s)
    PROVE  IInv'
<1> DEFINE t == sessions[s]
           r == [pc |-> "unscope", target |-> None, session |-> s, page |-> None,
                 event |-> FALSE, todo |-> {}]
<1>1. r \in Doing
  BY DEF Doing, PCs
<1>2. /\ handler' \in [Handlers -> Doing] /\ handler'[h] = r
      /\ \A g \in Handlers \ {h} : handler'[g] = handler[g]
  <2>1. handler' = [handler EXCEPT ![h] = r] /\ handler \in [Handlers -> Doing]
    BY DEF DetachFromTarget, At, IInv, TypeOK
  <2> QED
    BY <1>1, <2>1, Becomes
<1>3. /\ s \in used /\ t \in Targets
      /\ \A x \in SessionIds : sessions'[x] = IF x = s THEN None ELSE sessions[x]
      /\ sessions' \in [SessionIds -> Targets \cup {None}]
      /\ attached' \in [Targets -> BOOLEAN]
      /\ UNCHANGED <<known, scopes, made, closed, crashed, used, told, announced, destroyed>>
  BY DEF DetachFromTarget, IInv, TypeOK, Fresh
<1>4. \A u \in Targets : attached'[u] <=> (attached[u] /\ ~(u = t /\ t \in known))
  <2>1. attached' = IF t \in known THEN [attached EXCEPT ![t] = FALSE] ELSE attached
    BY DEF DetachFromTarget
  <2> QED
    BY <1>3, <2>1, Zenon DEF IInv, TypeOK
<1>5. handler'[h].pc = "unscope" /\ handler'[h].todo = {} /\ handler'[h].session = s
  BY <1>2
<1>6. TypeOK'
  BY <1>2, <1>3 DEF IInv, TypeOK
<1>7. Fresh'
  <2>1. \A x \in SessionIds \ used' : sessions'[x] = None
    BY <1>3 DEF IInv, Fresh
  <2>2. \A u \in Targets \ made' : ~attached'[u]
    BY <1>3, <1>4 DEF IInv, Fresh
  <2>3. \A x \in SessionIds : sessions'[x] # None => sessions'[x] \in made'
    BY <1>3 DEF IInv, Fresh
  <2>4. \A g \in Handlers :
          /\ handler'[g].todo \subseteq made'
          /\ Holding(g)' \/ Closing(g)' \/ handler'[g].pc = "create" => handler'[g].target \in made'
    BY <1>2, <1>3, <1>5 DEF IInv, Fresh, Holding, Closing
  <2> QED
    BY <2>1, <2>2, <2>3, <2>4 DEF Fresh
<1>8. Held'
  <2>1. ~Holding(h)'
    BY <1>5 DEF Holding
  <2>2. ASSUME NEW g \in Handlers, Holding(g)
        PROVE  /\ handler[g].session \in SessionIds
               /\ handler[g].session \notin told
    BY <2>2 DEF IInv, Held, TypeOK
  <2>3. None \notin known
    BY NoneIsNone DEF IInv, TypeOK
  <2> QED
    BY <1>2, <1>3, <2>1, <2>2, <2>3, HeldKept
<1>9. Unscoping' /\ Reporting'
  <2>1. \A g \in Handlers : handler[g].pc = "unscope" => handler[g].session \in SessionIds
    BY DEF IInv, Unscoping, TypeOK
  <2>2. Unscoping'
    BY <1>2, <1>3, <1>5, <2>1 DEF IInv, Unscoping
  <2>3. Reporting'
    BY <1>2, <1>3, <1>5 DEF IInv, Reporting
  <2> QED
    BY <2>2, <2>3
<1>10. SessionServed'
  <2>1. None \notin known
    BY NoneIsNone DEF IInv, TypeOK
  <2> QED
    BY <1>3, <2>1 DEF IInv, TypeOK, SessionServed
<1>11. MarkHasSession'
  <2>1. ASSUME NEW u \in known, attached'[u]
        PROVE  \E x \in SessionIds : sessions'[x] = u
    <3>1. u \in Targets /\ attached[u] /\ u # t
      BY <1>4, <2>1 DEF IInv, TypeOK
    <3>2. PICK x \in SessionIds : sessions[x] = u
      BY <3>1 DEF IInv, MarkHasSession
    <3> QED
      BY <1>3, <3>1, <3>2
  <2> QED
    BY <1>3, <2>1 DEF MarkHasSession
<1>12. DestroyedOnce'
  BY <1>3 DEF IInv, DestroyedOnce
<1> QED
  BY <1>6, <1>7, <1>8, <1>9, <1>10, <1>11, <1>12 DEF IInv

LEMMA RemoveScopeStep ==
    ASSUME IInv, NEW h \in Handlers, RemoveScope(h)
    PROVE  IInv'
<1> DEFINE s == handler[h].session
<1>1. s \in SessionIds /\ sessions[s] = None /\ None \notin known
  BY NoneIsNone DEF RemoveScope, IInv, TypeOK, Unscoping
<1>2. /\ handler' \in [Handlers -> Doing] /\ handler'[h] = Idle
      /\ \A g \in Handlers \ {h} : handler'[g] = handler[g]
  BY IdleIsDoing, Becomes DEF RemoveScope, IInv, TypeOK
<1>3. /\ UNCHANGED <<known, attached, made, closed, crashed, destroyed, sessions, used, told, announced>>
      /\ \A x \in SessionIds \ {s} : scopes'[x] = scopes[x]
      /\ scopes' \in [SessionIds -> Targets \cup {None, Bare}]
  BY DEF RemoveScope, infoVars, IInv, TypeOK
<1>4. handler'[h].pc = "idle" /\ handler'[h].todo = {}
  BY <1>2 DEF Idle, At
<1>5. TypeOK'
  BY <1>2, <1>3 DEF IInv, TypeOK
<1>6. Fresh'
  BY <1>2, <1>3, <1>4 DEF IInv, Fresh, Holding, Closing
<1>7. Held'
  <2>1. ~Holding(h)'
    BY <1>4 DEF Holding
  <2>2. ASSUME NEW g \in Handlers, Holding(g)
        PROVE  /\ handler[g].session \in SessionIds
               /\ handler[g].session \notin told
    BY <2>2 DEF IInv, Held, TypeOK
  <2> QED
    BY <1>1, <1>2, <1>3, <2>1, <2>2, HeldKept
<1>8. Unscoping' /\ Reporting'
  <2>1. Unscoping'
    BY <1>2, <1>3, <1>4 DEF IInv, Unscoping
  <2>2. Reporting'
    BY <1>2, <1>3, <1>4 DEF IInv, Reporting
  <2> QED
    BY <2>1, <2>2
<1>9. SessionServed'
  BY <1>1, <1>3 DEF IInv, TypeOK, SessionServed
<1>10. MarkHasSession' /\ DestroyedOnce'
  BY <1>3 DEF IInv, MarkHasSession, DestroyedOnce
<1> QED
  BY <1>5, <1>6, <1>7, <1>8, <1>9, <1>10 DEF IInv

-----------------------------------------------------------------------------
(* Closing. *)

LEMMA ClosePageStep ==
    ASSUME IInv, NEW h \in Handlers, ClosePage(h)
    PROVE  IInv'
<1> DEFINE t == handler[h].target
<1>1. t \in made /\ "remove" \in PCs /\ handler \in [Handlers -> Doing]
  BY DEF ClosePage, IInv, TypeOK, Fresh, Closing, PCs
<1>2. /\ handler' \in [Handlers -> Doing]
      /\ handler'[h].pc = "remove"
      /\ handler'[h].target = t
      /\ handler'[h].todo = handler[h].todo
      /\ \A g \in Handlers \ {h} : handler'[g] = handler[g]
  <2>1. handler' = [handler EXCEPT ![h].pc = "remove"]
    BY DEF ClosePage
  <2> QED
    BY <1>1, <2>1, Moves
<1>3. /\ closed' = closed \cup {t}
      /\ UNCHANGED <<known, attached, made, crashed, destroyed, sessions, scopes, used, told, announced>>
  BY DEF ClosePage
<1>4. TypeOK'
  BY <1>1, <1>2, <1>3 DEF IInv, TypeOK
<1>5. Fresh'
  BY <1>1, <1>2, <1>3 DEF IInv, Fresh, Holding, Closing
<1>6. Held'
  <2>1. ~Holding(h)'
    BY <1>2 DEF Holding
  <2>2. \A g \in Handlers : Holding(g) => handler[g].session \notin told
    BY DEF IInv, Held
  <2> QED
    BY <1>2, <1>3, <2>1, <2>2, HeldKept
<1>7. Unscoping'
  BY <1>2, <1>3 DEF IInv, Unscoping
<1>8. Reporting'
  BY <1>2, <1>3 DEF IInv, Reporting
<1>9. SessionServed' /\ MarkHasSession' /\ DestroyedOnce'
  BY <1>3 DEF IInv, SessionServed, MarkHasSession, DestroyedOnce
<1> QED
  BY <1>4, <1>5, <1>6, <1>7, <1>8, <1>9 DEF IInv

LEMMA RemovePageStep ==
    ASSUME IInv, NEW h \in Handlers, RemovePage(h)
    PROVE  IInv'
<1> DEFINE t == handler[h].target
<1>1. /\ t \in made /\ t \in closed /\ t \in Targets
      /\ handler \in [Handlers -> Doing] /\ handler[h].pc = "remove"
  BY DEF RemovePage, IInv, TypeOK, Fresh, Closing, Reporting
<1>2. /\ known' = known \ {t}
      /\ \A x \in SessionIds : /\ sessions'[x] = IF sessions[x] = t THEN None ELSE sessions[x]
                               /\ scopes'[x] = IF sessions[x] = t THEN None ELSE scopes[x]
      /\ sessions' \in [SessionIds -> Targets \cup {None}]
      /\ scopes' \in [SessionIds -> Targets \cup {None, Bare}]
      /\ UNCHANGED <<attached, made, closed, crashed, used, told, announced, destroyed>>
  BY DEF RemovePage, DropSessions, Pointing, IInv, TypeOK
<1>3. /\ handler' \in [Handlers -> Doing]
      /\ handler'[h].pc = (IF t \in known THEN "destroyed" ELSE "idle")
      /\ t \in known => handler'[h].target = t
      /\ handler'[h].todo \subseteq made
      /\ \A g \in Handlers \ {h} : handler'[g] = handler[g]
  <2>1. CASE t \in known
    <3>1. handler' = [handler EXCEPT ![h].pc = "destroyed"]
      BY <2>1 DEF RemovePage
    <3>2. handler[h].todo \subseteq made /\ "destroyed" \in PCs
      BY DEF IInv, Fresh, PCs
    <3> QED
      BY <1>1, <2>1, <3>1, <3>2, Moves
  <2>2. CASE t \notin known
    <3>1. handler' = [handler EXCEPT ![h] = Idle]
      BY <2>2 DEF RemovePage
    <3>2. handler' \in [Handlers -> Doing] /\ handler'[h] = Idle
          /\ \A g \in Handlers \ {h} : handler'[g] = handler[g]
      BY <1>1, <3>1, IdleIsDoing, Becomes
    <3> QED
      BY <2>2, <3>2 DEF Idle, At
  <2> QED
    BY <2>1, <2>2
<1>4. None \notin known /\ t # None
  BY <1>1, NoneIsNone DEF IInv, TypeOK
<1>5. TypeOK'
  BY <1>2, <1>3 DEF IInv, TypeOK
<1>6. Fresh'
  <2>1. /\ \A x \in SessionIds \ used' : sessions'[x] = None
        /\ \A u \in Targets \ made' : ~attached'[u]
        /\ \A x \in SessionIds : sessions'[x] # None => sessions'[x] \in made'
    BY <1>2 DEF IInv, Fresh
  <2>2. ASSUME NEW g \in Handlers
        PROVE  /\ handler'[g].todo \subseteq made'
               /\ Holding(g)' \/ Closing(g)' \/ handler'[g].pc = "create" => handler'[g].target \in made'
    <3>1. CASE g = h
      BY <1>1, <1>2, <1>3, <3>1 DEF Holding, Closing
    <3>2. CASE g # h
      BY <1>2, <1>3, <3>2 DEF IInv, Fresh, Holding, Closing
    <3> QED
      BY <3>1, <3>2
  <2> QED
    BY <2>1, <2>2 DEF Fresh
<1>7. Held'
  <2>1. ~Holding(h)'
    BY <1>3 DEF Holding
  <2>2. ASSUME NEW g \in Handlers \ {h}, Holding(g)
        PROVE  LET x == handler[g].session
               IN /\ x \notin told'
                  /\ sessions'[x] \in {None, sessions[x]}
                  /\ sessions'[x] \in known' =>
                       sessions[x] \in known /\ sessions'[x] = sessions[x] /\ scopes'[x] = scopes[x]
    <3>1. handler[g].session \in SessionIds /\ handler[g].session \notin told
      BY <2>2 DEF IInv, Held, TypeOK
    <3> QED
      BY <1>2, <1>4, <3>1
  <2> QED
    BY <1>2, <1>3, <2>1, <2>2, HeldKept
<1>8. Unscoping'
  <2>1. \A g \in Handlers : handler[g].pc = "unscope" => handler[g].session \in SessionIds
    BY DEF IInv, Unscoping, TypeOK
  <2> QED
    BY <1>2, <1>3, <2>1 DEF IInv, Unscoping
<1>9. Reporting'
  <2>1. t \in known => destroyed[t] = 0
    <3>1. destroyed[t] \in Nat
      BY <1>1 DEF IInv, TypeOK
    <3> QED
      BY <1>1, <3>1 DEF IInv, DestroyedOnce
  <2>2. t \in known => \A g \in Handlers : handler[g].pc = "destroyed" => handler[g].target # t
    BY DEF IInv, Reporting
  <2> QED
    BY <1>1, <1>2, <1>3, <2>1, <2>2 DEF IInv, Reporting
<1>10. SessionServed'
  BY <1>2, <1>4 DEF IInv, TypeOK, SessionServed
<1>11. MarkHasSession'
  BY <1>2 DEF IInv, MarkHasSession
<1>12. DestroyedOnce'
  BY <1>2 DEF IInv, DestroyedOnce
<1> QED
  BY <1>5, <1>6, <1>7, <1>8, <1>9, <1>10, <1>11, <1>12 DEF IInv

LEMMA BroadcastStep ==
    ASSUME IInv, NEW h \in Handlers, BroadcastDestroyed(h)
    PROVE  IInv'
<1> DEFINE t == handler[h].target
<1>1. /\ t \in Targets /\ t \in closed /\ t \notin known /\ destroyed[t] = 0
      /\ \A g \in Handlers \ {h} : handler[g].pc = "destroyed" => handler[g].target # t
  BY DEF BroadcastDestroyed, IInv, TypeOK, Reporting
<1>2. /\ handler' \in [Handlers -> Doing] /\ handler'[h] = Idle
      /\ \A g \in Handlers \ {h} : handler'[g] = handler[g]
  BY IdleIsDoing, Becomes DEF BroadcastDestroyed, IInv, TypeOK
<1>3. /\ UNCHANGED <<known, attached, made, closed, crashed, sessions, scopes, used, told, announced>>
      /\ destroyed' = [destroyed EXCEPT ![t] = @ + 1]
  BY DEF BroadcastDestroyed
<1>4. handler'[h].pc = "idle" /\ handler'[h].todo = {}
  BY <1>2 DEF Idle, At
<1>5. /\ destroyed' \in [Targets -> Nat]
      /\ destroyed'[t] = 1
      /\ \A u \in Targets \ {t} : destroyed'[u] = destroyed[u]
  BY <1>1, <1>3 DEF IInv, TypeOK
<1>6. TypeOK'
  BY <1>2, <1>3, <1>5 DEF IInv, TypeOK
<1>7. Fresh'
  BY <1>2, <1>3, <1>4 DEF IInv, Fresh, Holding, Closing
<1>8. Held'
  <2>1. ~Holding(h)'
    BY <1>4 DEF Holding
  <2>2. \A g \in Handlers : Holding(g) => handler[g].session \notin told
    BY DEF IInv, Held
  <2> QED
    BY <1>2, <1>3, <2>1, <2>2, HeldKept
<1>9. Unscoping'
  BY <1>2, <1>3, <1>4 DEF IInv, Unscoping
<1>10. Reporting'
  <2>1. \A g \in Handlers : handler[g].pc = "destroyed" => handler[g].target \in Targets
    BY DEF IInv, Reporting, TypeOK
  <2> QED
    BY <1>1, <1>2, <1>3, <1>4, <1>5, <2>1 DEF IInv, Reporting
<1>11. SessionServed' /\ MarkHasSession'
  BY <1>3 DEF IInv, SessionServed, MarkHasSession
<1>12. DestroyedOnce'
  BY <1>1, <1>3, <1>5 DEF IInv, DestroyedOnce
<1> QED
  BY <1>6, <1>7, <1>8, <1>9, <1>10, <1>11, <1>12 DEF IInv

-----------------------------------------------------------------------------
LEMMA StepIInv == IInv /\ [Next]_vars => IInv'
<1> SUFFICES ASSUME IInv, [Next]_vars
             PROVE  IInv'
  OBVIOUS
<1>1. handler \in [Handlers -> Doing] /\ known \subseteq made /\ made \subseteq Targets
  BY DEF IInv, TypeOK
<1>2. ASSUME NEW h \in Handlers, SetAutoAttach(h)
      PROVE  IInv'
  <2> DEFINE r == [pc |-> "auto", target |-> None, session |-> None, page |-> None,
                   event |-> FALSE, todo |-> known]
  <2>1. r \in Doing
    BY <1>1 DEF Doing, PCs
  <2>2. handler' = [handler EXCEPT ![h] = r]
    BY <1>2 DEF SetAutoAttach, At
  <2>3. /\ handler' \in [Handlers -> Doing] /\ handler'[h] = r
        /\ \A g \in Handlers \ {h} : handler'[g] = handler[g]
    BY <1>1, <2>1, <2>2, Becomes
  <2>4. handler'[h].pc = "auto" /\ handler'[h].todo = known
    BY <2>3
  <2> QED
    BY <1>1, <1>2, <2>3, <2>4, QuietStep DEF SetAutoAttach, infoVars, IInv, TypeOK
<1>3. ASSUME NEW h \in Handlers, NEW t \in Targets, AutoSkip(h, t)
      PROVE  IInv'
  <2>1. /\ handler' \in [Handlers -> Doing]
        /\ handler'[h].pc = "auto"
        /\ handler'[h].todo = handler[h].todo \ {t}
        /\ \A g \in Handlers \ {h} : handler'[g] = handler[g]
    <3>1. handler[h] \in Doing /\ handler[h].pc = "auto"
      BY <1>1, <1>3 DEF AutoSkip
    <3>2. handler' = [handler EXCEPT ![h] = [handler[h] EXCEPT !.todo = handler[h].todo \ {t}]]
      BY <1>1, <1>3 DEF AutoSkip
    <3>3. [handler[h] EXCEPT !.todo = handler[h].todo \ {t}] \in Doing
      BY <3>1 DEF Doing
    <3>4. handler'[h] = [handler[h] EXCEPT !.todo = handler[h].todo \ {t}]
      BY <1>1, <3>2
    <3>5. handler'[h].pc = "auto" /\ handler'[h].todo = handler[h].todo \ {t}
      BY <3>1, <3>4 DEF Doing
    <3> QED
      BY <1>1, <3>2, <3>3, <3>5
  <2>2. handler[h].todo \subseteq made
    BY DEF IInv, Fresh
  <2> QED
    BY <1>3, <2>1, <2>2, QuietStep DEF AutoSkip, infoVars, IInv, TypeOK
<1>4. ASSUME NEW h \in Handlers, Respond(h)
      PROVE  IInv'
  <2>1. /\ handler' \in [Handlers -> Doing] /\ handler'[h] = Idle
        /\ \A g \in Handlers \ {h} : handler'[g] = handler[g]
    BY <1>1, <1>4, IdleIsDoing, Becomes DEF Respond
  <2>2. handler'[h].pc = "idle" /\ handler'[h].todo = {}
    BY <2>1 DEF Idle, At
  <2> QED
    BY <1>4, <2>1, <2>2, QuietStep DEF Respond, infoVars, IInv, TypeOK
<1>5. ASSUME NEW h \in Handlers, NEW t \in Targets, CloseTarget(h, t)
      PROVE  IInv'
  <2> DEFINE r == [pc |-> "close", target |-> t, session |-> None, page |-> None,
                   event |-> FALSE, todo |-> {}]
  <2>1. r \in Doing
    BY DEF Doing, PCs
  <2>2. handler' = [handler EXCEPT ![h] = r] /\ t \in known
    BY <1>5 DEF CloseTarget, At
  <2>3. /\ handler' \in [Handlers -> Doing] /\ handler'[h] = r
        /\ \A g \in Handlers \ {h} : handler'[g] = handler[g]
    BY <1>1, <2>1, <2>2, Becomes
  <2>4. handler'[h].pc = "close" /\ handler'[h].todo = {} /\ handler'[h].target = t
    BY <2>3
  <2> QED
    BY <1>1, <1>5, <2>2, <2>3, <2>4, QuietStep DEF CloseTarget, infoVars, IInv, TypeOK
<1>6. ASSUME NEW h \in Handlers, CrashCreated(h)
      PROVE  IInv'
  <2>1. handler[h].pc = "create" /\ handler' = handler
    BY <1>6 DEF CrashCreated
  <2>2. handler[h].target \in made /\ handler[h].todo \subseteq made
    BY <2>1 DEF IInv, Fresh
  <2> QED
    BY <1>1, <1>6, <2>1, <2>2, QuietStep DEF CrashCreated
<1>7. ASSUME NEW h \in Handlers, NEW t \in Targets, NEW s \in SessionIds,
             AutoAttach(h, t, s) \/ AttachToTarget(h, t, s)
      PROVE  IInv'
  <2>1. CASE AutoAttach(h, t, s)
    <3>1. /\ handler[h].pc = "auto" /\ t \in handler[h].todo
          /\ Attach(h, t, s, TRUE, handler[h].todo \ {t})
      BY <2>1 DEF AutoAttach
    <3>2. t \in made /\ handler[h].todo \ {t} \in SUBSET made
      BY <3>1 DEF IInv, Fresh
    <3>3. ~Holding(h) /\ ~Closing(h)
      BY <3>1 DEF Holding, Closing
    <3> QED
      BY <3>1, <3>2, <3>3, AttachStep
  <2>2. CASE AttachToTarget(h, t, s)
    <3>1. handler[h].pc = "idle" /\ t \in made /\ Attach(h, t, s, FALSE, {})
      BY <1>1, <2>2 DEF AttachToTarget
    <3>2. ~Holding(h) /\ ~Closing(h)
      BY <3>1 DEF Holding, Closing
    <3>3. {} \in SUBSET made /\ FALSE \in BOOLEAN
      OBVIOUS
    <3> QED
      BY <3>1, <3>2, <3>3, AttachStep
  <2> QED
    BY <1>7, <2>1, <2>2
<1>8. ASSUME NEW h \in Handlers, NEW s \in SessionIds, AttachCreated(h, s)
      PROVE  IInv'
  <2>1. /\ handler[h].pc = "create" /\ handler[h].target \in made
        /\ Attach(h, handler[h].target, s, TRUE, {})
    BY <1>1, <1>8 DEF AttachCreated
  <2>2. ~Holding(h) /\ ~Closing(h)
    BY <2>1 DEF Holding, Closing
  <2>3. {} \in SUBSET made /\ TRUE \in BOOLEAN
    OBVIOUS
  <2> QED
    BY <2>1, <2>2, <2>3, AttachStep
<1>9. CASE UNCHANGED vars
  BY <1>9 DEF vars, IInv, TypeOK, Fresh, Held, Unscoping, Reporting, SessionServed,
     MarkHasSession, DestroyedOnce, Holding, Closing
<1>10. CASE Next
  <2> SUFFICES ASSUME NEW h \in Handlers, Request(h) \/ Serve(h)
               PROVE  IInv'
    BY <1>10 DEF Next
  <2>1. CASE Request(h)
    BY <1>2, <1>5, <1>7, <2>1, AddPageStep, DetachStep DEF Request
  <2>2. CASE Serve(h)
    BY <1>3, <1>4, <1>6, <1>7, <1>8, <2>2, ScopeStep, TellStep, RemoveScopeStep,
       ClosePageStep, RemovePageStep, BroadcastStep DEF Serve
  <2> QED
    BY <2>1, <2>2
<1> QED
  BY <1>9, <1>10

LEMMA AlwaysIInv == Spec => []IInv
BY InitIInv, StepIInv, PTL DEF Spec

(* Every variable of the Target domain keeps its type. *)
THEOREM TypeCorrect == Spec => []TypeOK
BY AlwaysIInv, PTL DEF IInv

(* Whatever setAutoAttach, createTarget, attachToTarget, detachFromTarget  *)
(* and closeTarget interleave, a session that a client was told of, and    *)
(* whose target is there, has a scope wired to that target's page.         *)
THEOREM SessionsAreServed == Spec => []SessionServed
BY AlwaysIInv, PTL DEF IInv

(* TargetInfo.Attached never marks a target that has no session.           *)
THEOREM MarksAreTrue == Spec => []MarkHasSession
BY AlwaysIInv, PTL DEF IInv

(* However many requests close one target, its end is reported at most     *)
(* once, and only when its page is closed and the target gone.             *)
THEOREM EndReportedOnce == Spec => []DestroyedOnce
BY AlwaysIInv, PTL DEF IInv

=============================================================================
