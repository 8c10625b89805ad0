----------------------------- MODULE ScopeGuard -----------------------------
(***************************************************************************)
(* SCOPE_EXIT and SCOPE_FAIL of util.h, in a thread that runs arbitrary    *)
(* code: it enters try blocks and scopes with a guard, throws, and leaves  *)
(* them.  A guard's lambda is such code too: it may open scopes, throw and *)
(* catch while the exception that ran it is still in flight, which is why  *)
(* a guard compares a count of exceptions and not a flag.                  *)
(*                                                                         *)
(* SCOPE_SUCCESS is not modelled: no code uses it, and the noexcept        *)
(* specification of its guard does not compile.                            *)
(***************************************************************************)
EXTENDS Naturals, Sequences

CONSTANT MaxDepth    (* bound: frames on the stack *)

ASSUME DepthAssumption == MaxDepth \in Nat

VARIABLES
  stack,      (* the frames the thread is in, innermost last               *)
  uncaught,   (* std::uncaught_exceptions()                                *)
  mode        (* run; unwind: the last exception is leaving frames; ended  *)

vars == <<stack, uncaught, mode>>

Guards == {"exit", "fail"}

(***************************************************************************)
(* count is exceptionCount_ of a guard; resume is what the thread goes     *)
(* back to when a guard's lambda returns.  Both are kept for every frame.  *)
(***************************************************************************)
Frame == [what : {"try", "lambda"} \cup Guards, count : Nat, resume : {"run", "unwind"}]

Top        == stack[Len(stack)]
Below      == SubSeq(stack, 1, Len(stack) - 1)
Room       == Len(stack) < MaxDepth
NewFrame(what, resume) == [what |-> what, count |-> uncaught, resume |-> resume]

----------------------------------------------------------------------------
AnyException(f) == uncaught > 0       \* mutant: std::uncaught_exception()

(* isNewUncaughtException *)
NewException(f) == uncaught > f.count

ShouldExec(f) == f.what = "exit" \/ (f.what = "fail" /\ NewException(f))

(* The code the thread runs opens a scope with a guard, or a try block... *)
EnterGuard ==
  /\ mode = "run" /\ Room
  /\ \E kind \in Guards : stack' = Append(stack, NewFrame(kind, "run"))
  /\ UNCHANGED <<uncaught, mode>>

EnterTry ==
  /\ mode = "run" /\ Room
  /\ stack' = Append(stack, NewFrame("try", "run"))
  /\ UNCHANGED <<uncaught, mode>>

(* ... or throws. *)
Throw ==
  /\ mode = "run" /\ stack # <<>>
  /\ uncaught' = uncaught + 1
  /\ mode' = "unwind"
  /\ UNCHANGED stack

(* ~ScopeGuardForNewException, when its scope is left in either way. *)
LeaveGuard ==
  /\ mode # "ended" /\ stack # <<>> /\ Top.what \in Guards
  /\ \/ /\ ShouldExec(Top)
        /\ stack' = Append(Below, NewFrame("lambda", mode))
        /\ mode' = "run"
     \/ /\ ~ShouldExec(Top)
        /\ stack' = Below
        /\ UNCHANGED mode
  /\ UNCHANGED uncaught

(* The lambda returns, and the thread goes on leaving the guard's scope. *)
LambdaReturns ==
  /\ mode = "run" /\ stack # <<>> /\ Top.what = "lambda"
  /\ stack' = Below
  /\ mode' = Top.resume
  /\ UNCHANGED uncaught

(* The lambdas are noexcept: std::terminate, and no other frame is left. *)
LambdaThrows ==
  /\ mode = "unwind" /\ Top.what = "lambda"
  /\ mode' = "ended"
  /\ UNCHANGED <<stack, uncaught>>

LeaveTry ==
  /\ mode = "run" /\ stack # <<>> /\ Top.what = "try"
  /\ stack' = Below
  /\ mode' = IF Below = <<>> THEN "ended" ELSE "run"
  /\ UNCHANGED uncaught

CatchGoesOn ==                        \* mutant: main's handler does not end
  /\ mode = "unwind" /\ Top.what = "try"
  /\ stack' = Below /\ uncaught' = uncaught - 1 /\ mode' = "run"

(* The handler of main terminates, another one goes on after its block. *)
Catch ==
  /\ mode = "unwind" /\ Top.what = "try"
  /\ stack' = Below
  /\ uncaught' = uncaught - 1
  /\ mode' = IF Below = <<>> THEN "ended" ELSE "run"

----------------------------------------------------------------------------
(* main's try block. *)
Init ==
  /\ stack = <<[what |-> "try", count |-> 0, resume |-> "run"]>>
  /\ uncaught = 0
  /\ mode = "run"

Next == \/ EnterGuard \/ EnterTry \/ Throw \/ LeaveGuard
        \/ LambdaReturns \/ LambdaThrows \/ LeaveTry \/ Catch

Spec == Init /\ [][Next]_vars

----------------------------------------------------------------------------
(* The type of every variable; the bottom frame is main's try block. *)
TypeOK ==
  /\ stack \in Seq(Frame)
  /\ uncaught \in Nat
  /\ mode \in {"run", "unwind", "ended"}
  /\ mode # "ended" => stack # <<>> /\ stack[1].what = "try"

(***************************************************************************)
(* A guard at the top of the stack, whose scope is about to be left, sees  *)
(* a new exception exactly if an exception is what leaves it: not if one   *)
(* is in flight that began before the scope did.                           *)
(***************************************************************************)
GuardKnows ==
  mode # "ended" /\ stack # <<>> /\ Top.what \in Guards =>
    (NewException(Top) <=> mode = "unwind")

=============================================================================
