-------------------------- MODULE ScopeGuardProofs --------------------------
(***************************************************************************)
(* Theorems about ScopeGuard, for stacks of any depth.                     *)
(***************************************************************************)
EXTENDS ScopeGuard, SequenceTheorems, TLAPS

(* One exception, if the thread is unwinding.                              *)
InFlight(m) == IF m = "unwind" THEN 1 ELSE 0

(***************************************************************************)
(* What the counts of the frames are: each frame began with the exceptions *)
(* of the frame outside it, and one more if it is a lambda that interrupts *)
(* an unwinding; and the exceptions now are those the innermost frame      *)
(* began with, and one more if it is being unwound.                        *)
(***************************************************************************)
Counted(s) ==
  /\ s # <<>> => s[1].what = "try"
  /\ \A i \in 2 .. Len(s) : s[i].count = s[i-1].count + InFlight(s[i].resume)
  /\ \A i \in 1 .. Len(s) : s[i].what # "lambda" => s[i].resume = "run"

Levels == /\ Counted(stack)
          /\ mode # "ended" => uncaught = Top.count + InFlight(mode)

LEMMA BelowProperties ==
  ASSUME stack \in Seq(Frame), stack # <<>>
  PROVE  /\ Below \in Seq(Frame)
         /\ Len(stack) \in Nat \ {0}
         /\ Len(Below) = Len(stack) - 1
         /\ \A i \in 1 .. Len(Below) : Below[i] = stack[i]
         /\ Top \in Frame
<1>1. Len(stack) \in Nat \ {0}
  BY EmptySeq
<1>2. \A i \in 1 .. Len(stack) : stack[i] \in Frame
  BY ElementOfSeq
<1>3. PICK n \in Nat : n = Len(stack) - 1
  BY <1>1
<1>4. /\ SubSeq(stack, 1, n) \in Seq(Frame)
      /\ Len(SubSeq(stack, 1, n)) = IF 1 <= n THEN n - 1 + 1 ELSE 0
      /\ \A i \in 1 .. n - 1 + 1 : SubSeq(stack, 1, n)[i] = stack[1 + i - 1]
  <2>1. \A i \in 1 .. n : stack[i] \in Frame
    BY <1>1, <1>2, <1>3
  <2>2. 1 \in Int /\ n \in Int
    BY <1>3
  <2>3. QED
    BY <2>1, <2>2, SubSeqProperties
<1>5. Below = SubSeq(stack, 1, n)
  BY <1>3 DEF Below
<1>6. Len(Below) = n /\ \A i \in 1 .. n : Below[i] = stack[i]
  <2>1. (IF 1 <= n THEN n - 1 + 1 ELSE 0) = n /\ n - 1 + 1 = n
    BY <1>3
  <2>2. \A i \in 1 .. n : 1 + i - 1 = i
    BY <1>3
  <2>3. QED
    BY <1>4, <1>5, <2>1, <2>2
<1>7. Top \in Frame
  BY <1>1, <1>2 DEF Top
<1>8. Below \in Seq(Frame)
  BY <1>4, <1>5
<1>9. QED
  BY <1>1, <1>3, <1>6, <1>7, <1>8

(* Leaving the innermost frame.                                            *)
LEMMA PopCounted ==
  ASSUME stack \in Seq(Frame), stack # <<>>, Counted(stack)
  PROVE  /\ Counted(Below)
         /\ Below # <<>> => /\ Len(Below) \in Nat \ {0}
                            /\ Top.count = Below[Len(Below)].count + InFlight(Top.resume)
<1>1. /\ Below \in Seq(Frame)
      /\ Len(stack) \in Nat \ {0}
      /\ Len(Below) = Len(stack) - 1
      /\ \A i \in 1 .. Len(Below) : Below[i] = stack[i]
  BY BelowProperties
<1>2. Below # <<>> => Len(Below) \in Nat \ {0}
  BY <1>1, EmptySeq
<1>3. Counted(Below)
  BY <1>1, <1>2 DEF Counted
<1>4. Below # <<>> => Top.count = Below[Len(Below)].count + InFlight(Top.resume)
  BY <1>1, <1>2 DEF Counted, Top
<1>5. QED
  BY <1>2, <1>3, <1>4

(* Entering one.                                                           *)
LEMMA PushCounted ==
  ASSUME NEW s \in Seq(Frame), s # <<>>, Counted(s), NEW f \in Frame,
         f.count = s[Len(s)].count + InFlight(f.resume),
         f.what # "lambda" => f.resume = "run"
  PROVE  /\ Append(s, f) \in Seq(Frame)
         /\ Append(s, f) # <<>>
         /\ Append(s, f)[1] = s[1]
         /\ Counted(Append(s, f))
         /\ Append(s, f)[Len(Append(s, f))] = f
<1>1. /\ Append(s, f) \in Seq(Frame)
      /\ Append(s, f) # <<>>
      /\ Len(Append(s, f)) = Len(s) + 1
      /\ \A i \in 1 .. Len(s) : Append(s, f)[i] = s[i]
      /\ Append(s, f)[Len(s) + 1] = f
  BY AppendProperties
<1>2. Len(s) \in Nat \ {0}
  BY EmptySeq
<1>3. Append(s, f)[1] = s[1]
  BY <1>1, <1>2
<1>4. Counted(Append(s, f))
  <2>1. \A i \in 2 .. Len(s) + 1 : Append(s, f)[i].count
          = Append(s, f)[i - 1].count + InFlight(Append(s, f)[i].resume)
    BY <1>1, <1>2 DEF Counted
  <2>2. \A i \in 1 .. Len(s) + 1 :
          Append(s, f)[i].what # "lambda" => Append(s, f)[i].resume = "run"
    BY <1>1, <1>2 DEF Counted
  <2>3. QED
    BY <1>1, <1>2, <1>3, <2>1, <2>2 DEF Counted
<1>5. QED
  BY <1>1, <1>3, <1>4

IndInv == TypeOK /\ Levels

LEMMA GuardInit == Init => IndInv
<1> SUFFICES ASSUME Init PROVE IndInv
  OBVIOUS
<1> DEFINE main == [what |-> "try", count |-> 0, resume |-> "run"]
<1>1. main \in Frame
  BY DEF Frame
<1>2. stack = <<main>> /\ stack \in Seq(Frame) /\ Len(stack) = 1 /\ stack[1] = main
  BY <1>1 DEF Init
<1>3. QED
  BY <1>2 DEF Init, IndInv, TypeOK, Levels, Counted, Top, InFlight

LEMMA GuardStep == IndInv /\ [Next]_vars => IndInv'
<1> SUFFICES ASSUME IndInv, [Next]_vars PROVE IndInv'
  OBVIOUS
<1>a. /\ stack \in Seq(Frame) /\ uncaught \in Nat
      /\ Counted(stack)
      /\ mode # "ended" => /\ stack # <<>> /\ stack[1].what = "try"
                           /\ uncaught = Top.count + InFlight(mode)
  BY DEF IndInv, TypeOK, Levels
<1>b. ASSUME NEW what \in {"try"} \cup Guards, mode = "run",
             stack' = Append(stack, NewFrame(what, "run")), UNCHANGED <<uncaught, mode>>
      PROVE  IndInv'
  <2> DEFINE f == NewFrame(what, "run")
  <2>1. f \in Frame /\ f.count = uncaught /\ f.resume = "run"
    BY <1>a DEF NewFrame, Frame, Guards
  <2>2. uncaught = Top.count
    BY <1>a, <1>b, BelowProperties DEF InFlight, Frame
  <2>3. f.count = stack[Len(stack)].count + InFlight(f.resume)
    BY <1>a, <1>b, <2>1, <2>2, BelowProperties DEF Top, InFlight, Frame
  <2>4. /\ stack' \in Seq(Frame) /\ stack' # <<>> /\ stack'[1] = stack[1]
        /\ Counted(stack') /\ stack'[Len(stack')] = f
    <3> HIDE DEF f
    <3> QED
      BY <1>a, <1>b, <2>1, <2>3, PushCounted DEF f
  <2>5. uncaught' = Top'.count + InFlight(mode')
    BY <1>a, <1>b, <2>1, <2>4 DEF Top, InFlight
  <2>6. QED
    BY <1>a, <1>b, <2>4, <2>5 DEF IndInv, TypeOK, Levels
<1>1. CASE EnterGuard
  BY <1>1, <1>b DEF EnterGuard
<1>2. CASE EnterTry
  BY <1>2, <1>b DEF EnterTry
<1>3. CASE Throw
  <2>1. Top.count \in Nat
    BY <1>3, <1>a, BelowProperties DEF Throw, Frame
  <2>2. uncaught' = Top'.count + InFlight(mode')
    BY <1>3, <1>a, <2>1 DEF Throw, Top, InFlight
  <2>3. QED
    BY <1>3, <1>a, <2>2 DEF Throw, IndInv, TypeOK, Levels, Counted
<1>c. ASSUME stack # <<>>, Below # <<>>
      PROVE  /\ Below \in Seq(Frame) /\ Counted(Below) /\ Below[1].what = "try"
             /\ Below[Len(Below)].count \in Nat /\ Top \in Frame
             /\ Top.count = Below[Len(Below)].count + InFlight(Top.resume)
  <2>1. Len(Below) \in Nat \ {0} /\ Below \in Seq(Frame) /\ Top \in Frame
    BY <1>a, <1>c, PopCounted, BelowProperties
  <2>2. Below[Len(Below)] \in Frame
    BY <2>1, ElementOfSeq
  <2>3. QED
    BY <1>a, <1>c, <2>1, <2>2, PopCounted DEF Counted, Frame
<1>d. ASSUME mode # "ended", Top.what # "try" PROVE Below # <<>>
  <2>1. Len(stack) \in Nat \ {0} /\ Len(stack) # 1
    BY <1>a, <1>d, BelowProperties DEF Top
  <2>2. Len(Below) # 0
    BY <1>a, <1>d, <2>1, BelowProperties
  <2>3. QED
    BY <2>2
<1>e. ASSUME mode # "ended", Top.what # "lambda" PROVE Top.resume = "run"
  <2>1. Len(stack) \in 1 .. Len(stack)
    BY <1>a, <1>e, BelowProperties
  <2>2. QED
    BY <1>a, <1>e, <2>1 DEF Counted, Top
<1>4. CASE LeaveGuard
  <2>1. /\ mode # "ended" /\ stack # <<>> /\ Top.what \in Guards
        /\ uncaught' = uncaught
    BY <1>4 DEF LeaveGuard
  <2>2. Below # <<>> /\ Top.resume = "run"
    BY <1>d, <1>e, <2>1 DEF Guards
  <2>3. uncaught = Below[Len(Below)].count + InFlight(mode)
    BY <1>a, <1>c, <2>1, <2>2 DEF InFlight, Frame
  <2>4. CASE stack' = Append(Below, NewFrame("lambda", mode)) /\ mode' = "run"
    <3> DEFINE f == NewFrame("lambda", mode)
    <3>1. f \in Frame /\ f.count = uncaught /\ f.resume = mode /\ f.what = "lambda"
      BY <1>a, <2>1 DEF NewFrame, Frame, IndInv, TypeOK
    <3>2. /\ stack' \in Seq(Frame) /\ stack' # <<>> /\ stack'[1] = Below[1]
          /\ Counted(stack') /\ stack'[Len(stack')] = f
      <4> HIDE DEF f
      <4> QED
        BY <1>c, <2>1, <2>2, <2>3, <2>4, <3>1, PushCounted DEF f
    <3>3. uncaught' = Top'.count + InFlight(mode')
      BY <1>a, <2>1, <2>4, <3>1, <3>2 DEF Top, InFlight
    <3>4. QED
      BY <1>a, <1>c, <2>1, <2>2, <2>4, <3>2, <3>3 DEF IndInv, TypeOK, Levels
  <2>5. CASE stack' = Below /\ UNCHANGED mode
    BY <1>a, <1>c, <2>1, <2>2, <2>3, <2>5 DEF IndInv, TypeOK, Levels, Top
  <2>6. QED
    BY <1>4, <2>4, <2>5 DEF LeaveGuard
<1>5. CASE LambdaReturns
  <2>1. /\ mode = "run" /\ stack # <<>> /\ Top.what = "lambda"
        /\ stack' = Below /\ mode' = Top.resume /\ uncaught' = uncaught
    BY <1>5 DEF LambdaReturns
  <2>2. Below # <<>>
    BY <1>d, <2>1
  <2>3. uncaught = Below[Len(Below)].count + InFlight(Top.resume)
    BY <1>a, <1>c, <2>1, <2>2 DEF InFlight, Frame
  <2>4. Top.resume \in {"run", "unwind"}
    BY <1>c, <2>1, <2>2 DEF Frame
  <2>5. QED
    BY <1>a, <1>c, <2>1, <2>2, <2>3, <2>4 DEF IndInv, TypeOK, Levels, Top
<1>6. CASE LambdaThrows
  BY <1>6, <1>a DEF LambdaThrows, IndInv, TypeOK, Levels
<1>f. ASSUME mode # "ended", Top.what = "try", stack' = Below,
             uncaught' = uncaught - InFlight(mode),
             mode' = IF Below = <<>> THEN "ended" ELSE "run"
      PROVE  IndInv'
  <2>1. Top.count \in Nat /\ uncaught' = Top.count
    BY <1>a, <1>f, BelowProperties DEF InFlight, Frame
  <2>2. CASE Below = <<>>
    <3>1. stack' \in Seq(Frame) /\ Counted(stack')
      BY <1>a, <1>f, BelowProperties, PopCounted
    <3>2. QED
      BY <1>f, <2>1, <2>2, <3>1 DEF IndInv, TypeOK, Levels
  <2>3. CASE Below # <<>>
    <3>1. Top.resume = "run"
      BY <1>e, <1>f
    <3>2. uncaught' = Below[Len(Below)].count
      BY <1>a, <1>c, <1>f, <2>1, <2>3, <3>1 DEF InFlight
    <3>3. uncaught' = Top'.count + InFlight(mode')
      BY <1>a, <1>c, <1>f, <2>3, <3>2 DEF InFlight, Top
    <3>4. QED
      BY <1>a, <1>c, <1>f, <2>1, <2>3, <3>3 DEF IndInv, TypeOK, Levels
  <2>4. QED
    BY <2>2, <2>3
<1>7. CASE LeaveTry
  BY <1>7, <1>a, <1>f DEF LeaveTry, InFlight
<1>8. CASE Catch
  BY <1>8, <1>a, <1>f DEF Catch, InFlight
<1>9. CASE UNCHANGED vars
  BY <1>9, <1>a DEF vars, IndInv, TypeOK, Levels, Top
<1>10. QED
  BY <1>1, <1>2, <1>3, <1>4, <1>5, <1>6, <1>7, <1>8, <1>9 DEF Next

(* A guard sees a new exception exactly if an exception leaves its scope.  *)
THEOREM GuardsKnow == Spec => []GuardKnows
<1>1. IndInv => GuardKnows
  <2> SUFFICES ASSUME IndInv, mode # "ended", stack # <<>>
               PROVE  NewException(Top) <=> mode = "unwind"
    BY DEF GuardKnows
  <2>1. Top.count \in Nat
    BY BelowProperties DEF IndInv, TypeOK, Frame
  <2>2. uncaught = Top.count + InFlight(mode)
    BY DEF IndInv, Levels
  <2>3. QED
    BY <2>1, <2>2 DEF NewException, InFlight
<1>2. QED
  BY <1>1, GuardInit, GuardStep, PTL DEF Spec

(* The stack stays well formed: main's try block is outermost until the    *)
(* thread ends.                                                            *)
THEOREM GuardTypes == Spec => []TypeOK
<1>1. IndInv => TypeOK
  BY DEF IndInv
<1>2. QED
  BY <1>1, GuardInit, GuardStep, PTL DEF Spec
=============================================================================
