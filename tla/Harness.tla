------------------------------ MODULE Harness ------------------------------
(***************************************************************************)
(* A file of the Web Platform Tests in the runner (src/internal/wpt/       *)
(* runner.go): its scripts run one after the other (src/internal/js/       *)
(* script.go), then the event loop until no timer is left; then whatever   *)
(* has not completed is completed by force, and the results are read.      *)
(* Scripts and callbacks use the test API (harness.go), which counts the   *)
(* asynchronous tests that are pending.                                    *)
(*                                                                         *)
(* A test is known by the order in which it was made.  Left out: what an   *)
(* assertion says, names, messages, time.                                  *)
(***************************************************************************)
EXTENDS EventLoop

CONSTANTS
    MaxTests,       \* bound on the tests that scripts make
    Documents       \* lists of the script elements that a document may have

VARIABLES
    phase,      \* of the runner
    scripts,    \* what each script element of the document is
    todo,       \* scripts that ExecuteScripts has not run yet
    ran,        \* history: scripts that ran
    tests,      \* the tests made, with what became of each
    results,    \* results.tests: tests as they were recorded
    pendingAsync, completed, harnessStatus,
    completions,    \* history: how often the completion callbacks ran
    late,           \* history: tests made after completion
    result          \* TestResult: status and the statuses of the subtests

harnessVars == <<tests, results, pendingAsync, completed, harnessStatus, completions, late>>
runnerVars == <<phase, scripts, todo, ran, result>>
vars == <<loopVars, harnessVars, runnerVars>>

Tests == 1..MaxTests
Pass == 0
Failed == 1
TimedOut == 2
NotRun == 3
Skipped == 4

(* src scripts are skipped, an empty one does nothing. *)
Kinds == {"inline", "defer", "src"}
ASSUME HarnessAssumption == MaxTests \in Nat /\ Documents \subseteq Seq(Kinds)

(* Of each kind those that stand among the first n scripts.                *)
Collected(kind) ==
    LET of[n \in 0..Len(scripts)] ==
          IF n = 0 THEN <<>>
          ELSE IF scripts[n] = kind THEN Append(of[n - 1], n) ELSE of[n - 1]
    IN of

Of(kind) == Collected(kind)[Len(scripts)]

HarnessInit ==
    /\ tests = <<>> /\ results = <<>> /\ pendingAsync = 0
    /\ completed = FALSE /\ harnessStatus = Pass /\ completions = 0 /\ late = {}

Init ==
    /\ LoopInit /\ HarnessInit
    /\ phase = "start"
    /\ scripts \in Documents
    /\ todo = <<>> /\ ran = <<>>
    /\ result = [status |-> Pass, subTests |-> <<>>]

-----------------------------------------------------------------------------
(* The test API.  Making a test adds it to tests; recording one, to        *)
(* results.                                                                *)

IsPending(t) == t \in DOMAIN tests /\ tests[t].kind = "async" /\ ~tests[t].done
MayMake == RunsScript /\ Len(tests) < MaxTests
Made(kind, done, st) == Append(tests, [kind |-> kind, done |-> done, status |-> st])
NoteLate == late' = IF completed THEN late \cup {Len(tests) + 1} ELSE late

(* test and promise_test record at once; a promise cannot be waited for.   *)
RunTest(st) ==
    /\ MayMake
    /\ tests' = Made("sync", TRUE, st)
    /\ results' = Append(results, [test |-> Len(tests) + 1, status |-> st])
    /\ NoteLate
    /\ UNCHANGED <<pendingAsync, completed, harnessStatus, completions>>

(* checkComplete, with n tests pending. *)
CheckComplete(n) ==
    IF ~completed /\ n = 0 THEN completed' = TRUE /\ completions' = completions + 1
                           ELSE UNCHANGED <<completed, completions>>

AsyncTest ==
    /\ MayMake
    /\ tests' = Made("async", FALSE, Pass)
    /\ pendingAsync' = pendingAsync + 1
    /\ NoteLate
    /\ UNCHANGED <<results, completed, harnessStatus, completions>>

(* Bug: it stays counted as pending. *)
AsyncTestThrows_Counts ==
    /\ MayMake
    /\ tests' = Made("async", TRUE, Failed)
    /\ results' = Append(results, [test |-> Len(tests) + 1, status |-> Failed])
    /\ pendingAsync' = pendingAsync + 1
    /\ NoteLate
    /\ UNCHANGED <<completed, completions, harnessStatus>>

(* async_test whose setup function throws is recorded at once.  If it made *)
(* calls before, or ended the test itself, it is AsyncTest, those calls,   *)
(* and Done with the status Failed where it was ended.                     *)
AsyncTestThrows ==
    /\ MayMake
    /\ tests' = Made("async", TRUE, Failed)
    /\ results' = Append(results, [test |-> Len(tests) + 1, status |-> Failed])
    /\ CheckComplete(pendingAsync)
    /\ NoteLate
    /\ UNCHANGED <<pendingAsync, harnessStatus>>

(* t.done, or t.step with a function that throws, which ends the test.  A  *)
(* step that throws nothing, and both on a test that is done, do nothing.  *)
(* What is recorded is the test itself, so a function that calls t.done    *)
(* and then throws changes the status it recorded.  Nobody reads a status  *)
(* before the scripts are over: st is the one that the function leaves,    *)
(* and what it calls in between are steps that follow.                     *)
Done(t, st) ==
    /\ RunsScript /\ IsPending(t)
    /\ tests' = [tests EXCEPT ![t].done = TRUE, ![t].status = st]
    /\ results' = Append(results, [test |-> t, status |-> st])
    /\ pendingAsync' = pendingAsync - 1
    /\ CheckComplete(pendingAsync - 1)
    /\ UNCHANGED <<harnessStatus, late>>

(* window.done *)
DoneAll ==
    /\ RunsScript
    /\ CheckComplete(pendingAsync)
    /\ UNCHANGED <<tests, results, pendingAsync, harnessStatus, late>>

(* __wpt_force_complete__: tests that are pending stay out of the results. *)
ForceComplete ==
    /\ IF ~completed /\ pendingAsync > 0
       THEN harnessStatus' = TimedOut /\ pendingAsync' = 0
       ELSE UNCHANGED <<harnessStatus, pendingAsync>>
    /\ CheckComplete(0)
    /\ UNCHANGED <<tests, results, late>>

-----------------------------------------------------------------------------
(* Scripts *)

ScriptOrder == Of("inline") \o Of("defer")

StartScripts ==
    /\ phase = "start"
    /\ phase' = "scripts" /\ todo' = ScriptOrder
    /\ UNCHANGED <<loopVars, harnessVars, scripts, ran, result>>

StartScript ==
    /\ phase = "scripts" /\ code = Idle /\ todo # <<>>
    /\ code' = Script
    /\ todo' = Tail(todo) /\ ran' = Append(ran, Head(todo))
    /\ UNCHANGED <<timers, nextID, byID, fired, quiet, harnessVars, phase, scripts, result>>

(* It ended or threw: the next one runs all the same. *)
ScriptEnds ==
    /\ code = Script
    /\ code' = Idle
    /\ UNCHANGED <<timers, nextID, byID, fired, quiet, harnessVars, runnerVars>>

(* What scripts and callbacks do. *)
ScriptCalls ==
    /\ RunsScript
    /\ \/ Calls /\ UNCHANGED harnessVars
       \/ /\ \/ \E st \in {Pass, Failed, TimedOut} : RunTest(st)
             \/ AsyncTest \/ AsyncTestThrows \/ DoneAll
             \/ \E t \in Tests, st \in {Pass, Failed} : Done(t, st)
          /\ UNCHANGED loopVars
    /\ UNCHANGED runnerVars

-----------------------------------------------------------------------------
(* The runner *)

(* A file on the skip list, and one that cannot be read or parsed, runs    *)
(* nothing.                                                                *)
NotExecuted ==
    /\ phase = "start"
    /\ phase' = "reported"
    /\ \E st \in {Skipped, Failed} : result' = [status |-> st, subTests |-> <<>>]
    /\ UNCHANGED <<loopVars, harnessVars, scripts, todo, ran>>

StartLoop ==
    /\ phase = "scripts" /\ code = Idle /\ todo = <<>>
    /\ phase' = "loop" /\ code' = InLoop
    /\ UNCHANGED <<timers, nextID, byID, fired, quiet, harnessVars, scripts, todo, ran, result>>

Loop == phase = "loop" /\ LoopStep /\ UNCHANGED <<harnessVars, runnerVars>>
TimePasses == phase \in {"scripts", "loop"} /\ Tick /\ UNCHANGED <<harnessVars, runnerVars>>

EndLoop ==
    /\ phase = "loop" /\ LoopReturns
    /\ phase' = "complete" /\ code' = Idle
    /\ ForceComplete
    /\ UNCHANGED <<timers, nextID, byID, fired, quiet, scripts, todo, ran, result>>

(* collectResults *)
Statuses(seq) == [i \in DOMAIN seq |-> seq[i].status]

AllPass(seq) == \A i \in DOMAIN seq : seq[i] = Pass

Collect ==
    /\ phase = "complete"
    /\ phase' = "reported"
    /\ result' = [status |-> IF harnessStatus = Pass /\ ~AllPass(Statuses(results))
                             THEN Failed ELSE harnessStatus,
                  subTests |-> Statuses(results)]
    /\ UNCHANGED <<loopVars, harnessVars, scripts, todo, ran>>

(* The engine panics on a script that it cannot parse: runSingle recovers. *)
Panic ==
    /\ RunsScript
    /\ phase' = "reported" /\ code' = Idle
    /\ result' = [status |-> Failed, subTests |-> <<>>]
    /\ UNCHANGED <<timers, nextID, byID, fired, quiet, harnessVars, scripts, todo, ran>>

Next ==
    \/ StartScripts \/ StartScript \/ ScriptEnds \/ ScriptCalls
    \/ NotExecuted \/ StartLoop \/ Loop \/ TimePasses \/ EndLoop \/ Collect \/ Panic

Spec == Init /\ [][Next]_vars

(* Scripts and callbacks end, and time passes. *)
FairSpec ==
    /\ Spec
    /\ WF_vars(StartScripts \/ StartScript \/ ScriptEnds \/ StartLoop \/ EndLoop \/ Collect)
    /\ WF_vars(Loop) /\ WF_vars(TimePasses)

-----------------------------------------------------------------------------
Summary(r) ==
    LET all == IF r.subTests = <<>> THEN <<r.status>> ELSE r.subTests
        Count(S) == Cardinality({i \in DOMAIN all : all[i] \in S})
    IN [total |-> Len(all), pass |-> Count({Pass}), fail |-> Count({Failed}),
        timeout |-> Count({TimedOut}), skip |-> Count({Skipped, NotRun})]

(* Types of the variables. *)
TypeOK ==
    /\ LoopTypeOK
    /\ phase \in {"start", "scripts", "loop", "complete", "reported"}
    /\ Len(tests) <= MaxTests /\ pendingAsync \in 0..MaxTests
    /\ completed \in BOOLEAN /\ harnessStatus \in {Pass, TimedOut}
    /\ \A i \in DOMAIN results : results[i].test \in DOMAIN tests

(* The scripts that run are those that stand in the document, each once,   *)
(* those that wait for the document after the others, whatever a script    *)
(* before them did or threw.                                               *)
ScriptsInOrder ==
    /\ \A i, j \in DOMAIN ran : i < j =>
          \/ scripts[ran[i]] = scripts[ran[j]] /\ ran[i] < ran[j]
          \/ scripts[ran[i]] = "inline" /\ scripts[ran[j]] = "defer"
    /\ phase \in {"loop", "complete"} =>
          {ran[i] : i \in DOMAIN ran} = {k \in DOMAIN scripts : scripts[k] # "src"}

(* The count of pending tests is the number of tests that are not done     *)
(* until the end is forced, each test is recorded once, and the file       *)
(* completes once, at a moment when no test was pending.                   *)
CountsAgree ==
    /\ phase \in {"scripts", "loop"} => pendingAsync = Cardinality({t \in Tests : IsPending(t)})
    /\ \A i, j \in DOMAIN results : results[i].test = results[j].test => i = j
    /\ completions <= 1
    /\ completed => \A t \in Tests : IsPending(t) => t \in late \/ harnessStatus = TimedOut

(* A file that is reported as passed had each of its tests pass, those     *)
(* aside that it made after it had called the whole complete; and the      *)
(* summary counts as many failures and passes as there were.               *)
PassIsEarned ==
    (phase = "reported" /\ result.status = Pass) =>
        /\ \A t \in DOMAIN tests : t \notin late => tests[t].done /\ tests[t].status = Pass
        /\ Summary(result).fail = 0 /\ Summary(result).pass = Summary(result).total

(* Every timer fires or is cleared before the file is reported, however    *)
(* many intervals and callbacks that set other timers compete with it.     *)
Waits(i) == timers[i].queued /\ ~timers[i].cleared /\ phase # "reported"
EveryTimerFires == \A i \in TimerIds : []<>~Waits(i)

(* The report comes, or an interval that nobody ever clears keeps the loop *)
(* going: no timeout, however late it was set, and no interval that some   *)
(* callback clears, its own for one, keeps a file from its report.         *)
ReportedUnlessInterval ==
    <>(phase = "reported") \/ \E i \in TimerIds : <>[](Repeats(i) /\ fired[i] = 2)

(* runner.go:25: "Timeout per test file. Zero means 30 seconds."  Nothing  *)
(* reads the field.                                                        *)
FileEnds == <>(phase = "reported")

(* harness.go:304: "Mark remaining async tests as timeout."  They are left *)
(* out of the results.                                                     *)
PendingAreReported ==
    phase = "complete" => \A t \in DOMAIN tests : \E i \in DOMAIN results : results[i].test = t

(* The counts of a file are earned: scripts and timers run as often as     *)
(* they should, tests are counted once, and a pass is one.                 *)
CountsEarned ==
    TypeOK /\ TimeoutsFireOnce /\ ScriptsInOrder /\ CountsAgree /\ PassIsEarned

(* Timers and, in the end, the file get their turn.                        *)
FileGoesOn == EveryTimerFires /\ ReportedUnlessInterval

=============================================================================
