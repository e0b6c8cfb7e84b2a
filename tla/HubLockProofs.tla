---------------------------- MODULE HubLockProofs ----------------------------
(***************************************************************************)
(* Proofs about HubLock for any number of threads and any nesting of       *)
(* calls, whether or not the panic hook is installed and whether or not    *)
(* the lock prefers its writers.                                           *)
(***************************************************************************)
EXTENDS HubLock, Integers, SequenceLemmas

Positions == Reads \cup Writes \cup Locked \cup Unlocked
Handling == {"crash", "flush"}   \* where panic_handler waits

-----------------------------------------------------------------------------
(* One thread's calls.  A panic inside panic_handler ends the process, so   *)
(* that at most one handler, and one call of its own, is above the bound;   *)
(* nothing is ever called from a handler that marks the session.            *)
Shape(s) ==
  /\ Len(s) <= MaxFrames + 2
  /\ (\A i \in 1..Len(s) : s[i].call # "panic_handler") => Len(s) <= MaxFrames
  /\ \A i \in 1..Len(s) :
       /\ s[i].call = "panic_handler" <=> s[i].at \in Handling
       /\ s[i].at = "crash" => i = Len(s) /\ Len(s) <= MaxFrames + 1

(* r is at no position of P where s was not *)
Fewer(s, r, P) ==
  \A i \in 1..Len(r) : r[i].at \in P => i \in 1..Len(s) /\ r[i] = s[i]

LEMMA FramesAre ==
  /\ \A f \in Frames : f.call \in Calls \cup {"panic_handler"} /\ f.at \in Positions
  /\ \A call \in Calls \cup {"panic_handler"}, at \in Positions :
       /\ [call |-> call, at |-> at] \in Frames
       /\ [call |-> call, at |-> at].call = call /\ [call |-> call, at |-> at].at = at
BY DEF Frames, Positions

LEMMA LastIs ==
  ASSUME NEW s \in Seq(Frames), s # <<>>
  PROVE  /\ Len(s) \in Nat \ {0} /\ Len(s) \in 1..Len(s)
         /\ Last(s) = s[Len(s)] /\ Last(s) \in Frames
<1>1. Last(s) = s[Len(s)] /\ Last(s) \in Frames /\ Len(s) \in Nat \ {0}
  BY FrontIs
<1> QED BY <1>1

LEMMA AdvanceShape ==
  ASSUME NEW s \in Seq(Frames), s # <<>>, Shape(s), Last(s).at \notin Handling,
         NEW at \in Positions, at \notin Handling,
         MaxFrames \in Nat
  PROVE  LET r == [s EXCEPT ![Len(s)].at = at]
         IN  /\ r \in Seq(Frames) /\ r # <<>> /\ Shape(r) /\ Last(r).at = at
             /\ \A P : at \notin P => Fewer(s, r, P)
<1> DEFINE r == [s EXCEPT ![Len(s)].at = at]
           frame == [s[Len(s)] EXCEPT !.at = at]
<1>1. /\ s \in [1..Len(s) -> Frames] /\ Len(s) \in Nat /\ Len(s) \in 1..Len(s)
      /\ Last(s) = s[Len(s)] /\ s[Len(s)] \in Frames
  BY LastIs
<1>2. PICK f \in Frames : f = s[Len(s)]
  BY <1>1
<1>3. [f EXCEPT !.at = at] \in Frames /\ [f EXCEPT !.at = at].at = at
      /\ [f EXCEPT !.at = at].call = f.call
  BY DEF Frames, Positions
<1>4. frame \in Frames /\ frame.at = at /\ frame.call = s[Len(s)].call
  BY <1>2, <1>3
<1>5. r = [s EXCEPT ![Len(s)] = frame]
  OBVIOUS
<1> HIDE DEF frame, r
<1>6. /\ r \in [1..Len(s) -> Frames] /\ r[Len(s)] = frame
      /\ \A i \in 1..Len(s) : i # Len(s) => r[i] = s[i]
  BY <1>1, <1>4, <1>5
<1>7. r \in Seq(Frames) /\ Len(r) = Len(s)
  BY <1>1, <1>4, <1>5, ExceptSeq
<1>8. r # <<>> /\ Last(r) = frame
  <2>1. r # <<>>
    BY <1>1, <1>7
  <2>2. Last(r) = r[Len(r)]
    BY <1>7, <2>1, LastIs
  <2> QED BY <1>6, <1>7, <2>1, <2>2
<1>9. Shape(r)
  BY <1>1, <1>4, <1>6, <1>7 DEF Shape, Handling
<1>10. ASSUME NEW P, at \notin P PROVE Fewer(s, r, P)
  BY <1>1, <1>4, <1>6, <1>7, <1>10 DEF Fewer
<1> QED BY <1>4, <1>7, <1>8, <1>9, <1>10 DEF r

LEMMA ReturnShape ==
  ASSUME NEW s \in Seq(Frames), s # <<>>, Shape(s), Last(s).at \notin Handling,
         MaxFrames \in Nat
  PROVE  LET r == Front(s)
         IN  r \in Seq(Frames) /\ Shape(r) /\ \A P : Fewer(s, r, P)
<1>1. /\ Front(s) \in Seq(Frames) /\ Len(Front(s)) = Len(s) - 1 /\ Len(s) \in Nat \ {0}
      /\ \A i \in 1..(Len(s) - 1) : Front(s)[i] = s[i]
      /\ Last(s) = s[Len(s)]
  BY FrontIs
<1> DEFINE r == Front(s)
<1> HIDE DEF r
<1>2. \A P : Fewer(s, r, P)
  BY <1>1 DEF Fewer, r
<1>3. Shape(r)
  <2>1. Len(r) = Len(s) - 1 /\ \A i \in 1..Len(r) : i \in 1..Len(s) /\ i # Len(s) /\ r[i] = s[i]
    BY <1>1 DEF r
  <2>2. (\A i \in 1..Len(r) : r[i].call # "panic_handler") =>
          \A i \in 1..Len(s) : s[i].call # "panic_handler"
    <3>1. s[Len(s)].call # "panic_handler"
      BY <1>1 DEF Shape
    <3>2. \A i \in 1..Len(s) : i = Len(s) \/ (i \in 1..Len(r) /\ r[i] = s[i])
      BY <1>1, <2>1
    <3> QED BY <3>1, <3>2
  <2>3. \A i \in 1..Len(r) : /\ r[i].call = "panic_handler" <=> r[i].at \in Handling
                             /\ r[i].at # "crash"
    BY <2>1 DEF Shape
  <2>4. /\ Len(r) <= MaxFrames + 2
        /\ (\A i \in 1..Len(r) : r[i].call # "panic_handler") => Len(r) <= MaxFrames
    <3>1. /\ Len(s) <= MaxFrames + 2
          /\ (\A i \in 1..Len(s) : s[i].call # "panic_handler") => Len(s) <= MaxFrames
      BY DEF Shape
    <3>2. Len(r) = Len(s) - 1 /\ Len(s) \in Nat
      BY <1>1 DEF r
    <3> QED BY <2>2, <3>1, <3>2
  <2> QED BY <2>3, <2>4 DEF Shape
<1> QED BY <1>1, <1>2, <1>3 DEF r

(* A call, from outside or from code that a call runs *)
LEMMA CallShape ==
  ASSUME NEW s \in Seq(Frames), Shape(s), s # <<>> => Last(s).at \notin Handling,
         NEW frame \in Frames,
         \/ /\ Len(s) < MaxFrames
            /\ frame.call # "panic_handler" /\ frame.at \notin Handling
         \/ /\ \A i \in 1..Len(s) : s[i].call # "panic_handler"
            /\ frame.call = "panic_handler" /\ frame.at = "crash",
         MaxFrames \in Nat
  PROVE  LET r == Append(s, frame)
         IN  /\ r \in Seq(Frames) /\ r # <<>> /\ Shape(r) /\ Last(r) = frame
             /\ \A P : frame.at \notin P => Fewer(s, r, P)
<1> DEFINE r == Append(s, frame)
           n == Len(s)
<1>1. /\ r \in Seq(Frames) /\ Len(r) = n + 1 /\ n \in Nat /\ r # <<>>
      /\ \A i \in 1..n : r[i] = s[i]
      /\ r[n + 1] = frame
  BY AppendIs
<1> HIDE DEF r
<1>2. Last(r) = frame
  BY <1>1, LastIs
<1>3. \A i \in 1..Len(r) : (i \in 1..n /\ i # n + 1 /\ r[i] = s[i]) \/ (i = n + 1 /\ r[i] = frame)
  BY <1>1
<1>4. \A i \in 1..n : s[i].at # "crash"
  <2>1. ASSUME NEW i \in 1..n, s[i].at = "crash" PROVE FALSE
    <3>1. i = n /\ s # <<>>
      BY <1>1, <2>1 DEF Shape
    <3>2. Last(s).at = "crash"
      BY <2>1, <3>1, LastIs
    <3> QED BY <3>1, <3>2 DEF Handling
  <2> QED BY <2>1
<1>5. Shape(r)
  <2>1. n <= MaxFrames /\ (frame.call # "panic_handler" => n < MaxFrames)
    BY <1>1 DEF Shape
  <2>2. \A i \in 1..Len(r) : r[i].call = "panic_handler" <=> r[i].at \in Handling
    BY <1>3 DEF Shape, Handling
  <2>3. \A i \in 1..Len(r) : r[i].at = "crash" => i = Len(r) /\ Len(r) <= MaxFrames + 1
    BY <1>1, <1>3, <1>4, <2>1
  <2>4. /\ Len(r) <= MaxFrames + 2
        /\ (\A i \in 1..Len(r) : r[i].call # "panic_handler") => Len(r) <= MaxFrames
    <3>1. n + 1 \in 1..Len(r)
      BY <1>1
    <3> QED BY <1>1, <2>1, <3>1
  <2> QED BY <2>2, <2>3, <2>4 DEF Shape
<1>6. ASSUME NEW P, frame.at \notin P PROVE Fewer(s, r, P)
  BY <1>3, <1>6 DEF Fewer
<1> QED BY <1>1, <1>2, <1>5, <1>6 DEF r

(* The handler marked the session and goes on to its event *)
LEMMA MarkedShape ==
  ASSUME NEW s \in Seq(Frames), s # <<>>, Shape(s), Last(s).at = "crash",
         MaxFrames \in Nat
  PROVE  LET r == Front(s) \o <<[call |-> "panic_handler", at |-> "flush"],
                                [call |-> "capture_event", at |-> "client"]>>
         IN  r \in Seq(Frames) /\ Shape(r) /\ Fewer(s, r, Locked)
<1> DEFINE one == [call |-> "panic_handler", at |-> "flush"]
           two == [call |-> "capture_event", at |-> "client"]
           r == Front(s) \o <<one, two>>
           n == Len(s)
<1>1. /\ Front(s) \in Seq(Frames) /\ Len(Front(s)) = n - 1 /\ n \in Nat \ {0}
      /\ \A i \in 1..(n - 1) : Front(s)[i] = s[i]
      /\ Last(s) = s[n]
  BY FrontIs
<1>2. /\ one \in Frames /\ one.call = "panic_handler" /\ one.at = "flush"
      /\ two \in Frames /\ two.call = "capture_event" /\ two.at = "client"
  BY DEF Frames, Calls, Reads
<1> HIDE DEF one, two
<1>3. <<one, two>> \in Seq(Frames) /\ Len(<<one, two>>) = 2
      /\ <<one, two>>[1] = one /\ <<one, two>>[2] = two
  BY <1>2
<1>4. PICK pair \in Seq(Frames) : /\ pair = <<one, two>> /\ Len(pair) = 2
                                  /\ pair[1] = one /\ pair[2] = two
  BY <1>3
<1>5. /\ r \in Seq(Frames) /\ Len(r) = n - 1 + 2
      /\ \A i \in 1..(n - 1 + 2) : r[i] = IF i <= n - 1 THEN Front(s)[i] ELSE pair[i - (n - 1)]
  BY <1>1, <1>4, ConcatProperties
<1> HIDE DEF r
<1>6. Len(r) = n + 1 /\ r[n] = one /\ r[n + 1] = two /\ \A i \in 1..(n - 1) : r[i] = s[i]
  <2>1. n - (n - 1) = 1 /\ n + 1 - (n - 1) = 2 /\ n - 1 + 2 = n + 1
    BY <1>1
  <2>2. n \in 1..(n - 1 + 2) /\ n + 1 \in 1..(n - 1 + 2) /\ ~(n <= n - 1) /\ ~(n + 1 <= n - 1)
    BY <1>1
  <2>3. r[n] = pair[1] /\ r[n + 1] = pair[2]
    BY <1>5, <2>1, <2>2
  <2>4. \A i \in 1..(n - 1) : r[i] = Front(s)[i]
    BY <1>1, <1>5
  <2> QED BY <1>1, <1>4, <1>5, <2>1, <2>3, <2>4
<1>7. \A i \in 1..Len(r) : \/ i \in 1..n /\ i # n /\ r[i] = s[i]
                           \/ i = n /\ r[i] = one
                           \/ i = n + 1 /\ r[i] = two
  BY <1>1, <1>6
<1>8. \A i \in 1..n : i # n => s[i].at # "crash"
  BY DEF Shape
<1>9. n <= MaxFrames + 1 /\ n \in 1..Len(r)
  BY <1>1, <1>6 DEF Shape
<1>10. \A i \in 1..Len(r) : /\ r[i].call = "panic_handler" <=> r[i].at \in Handling
                            /\ r[i].at # "crash"
  BY <1>2, <1>7, <1>8 DEF Shape, Handling
<1>11. Shape(r)
  BY <1>1, <1>2, <1>6, <1>9, <1>10 DEF Shape
<1>12. Fewer(s, r, Locked)
  BY <1>2, <1>7 DEF Fewer, Locked
<1> QED BY <1>5, <1>11, <1>12 DEF r, one, two

-----------------------------------------------------------------------------
(* What a step does *)

USE HubLockAssumption

TypeInv == TypeOK /\ \A t \in Threads : Shape(stack[t])

Moved(t) ==
  /\ stack' = [stack EXCEPT ![t] = stack'[t]]
  /\ stack'[t] \in Seq(Frames) /\ Shape(stack'[t])

Requeued(t) ==
  /\ queued' \ {t} \subseteq queued
  /\ t \in queued' => stack'[t] = stack[t] /\ stack[t] # <<>> /\ Last(stack[t]).at \in Writes

(* No thread comes to run code of the application with the lock; or one     *)
(* does, with the lock it was waiting for; or a panic unwinds one.          *)
TakesNone(t) == Fewer(stack[t], stack'[t], Locked) /\ UNCHANGED <<poisoned, torn>>
TakesRead(t) ==
  /\ ~poisoned /\ Writers = {}
  /\ Fewer(stack[t], stack'[t], {"closure"}) /\ UNCHANGED <<poisoned, torn>>
TakesWrite(t) ==
  /\ ~poisoned /\ CanWrite
  /\ Fewer(stack[t], stack'[t], {"hooks"}) /\ UNCHANGED <<poisoned, torn>>

Effect(t) ==
  /\ Moved(t) /\ Requeued(t) /\ (\/ TakesNone(t) \/ TakesRead(t) \/ TakesWrite(t) \/ Unwind(t))
  /\ poisoned' \in BOOLEAN /\ torn' \in BOOLEAN /\ aborted' \in BOOLEAN /\ calls' \in 0..MaxCalls

LEMMA StackIs ==
  ASSUME TypeInv, NEW t \in Threads
  PROVE  stack[t] \in Seq(Frames) /\ Shape(stack[t]) /\ stack \in [Threads -> Seq(Frames)]
BY DEF TypeInv, TypeOK

(* Only who waits to write is queued *)
LEMMA QueuedWait ==
  ASSUME TypeInv, NEW t \in Threads, NEW P, At(t, P), P \cap Writes = {}
  PROVE  t \notin queued
BY DEF TypeInv, TypeOK, At

LEMMA AdvanceIs ==
  ASSUME TypeInv, NEW t \in Threads, NEW P, At(t, P), P \cap Handling = {},
         NEW at \in Positions, at \notin Handling, Advance(t, at)
  PROVE  Moved(t) /\ \A Q : at \notin Q => Fewer(stack[t], stack'[t], Q)
<1> DEFINE r == [stack[t] EXCEPT ![Len(stack[t])].at = at]
<1>1. stack[t] \in Seq(Frames) /\ stack[t] # <<>> /\ Shape(stack[t])
      /\ Last(stack[t]).at \notin Handling /\ MaxFrames \in Nat
  BY StackIs DEF At
<1>2. r \in Seq(Frames) /\ Shape(r) /\ \A Q : at \notin Q => Fewer(stack[t], r, Q)
  BY <1>1, AdvanceShape
<1>3. stack' = [stack EXCEPT ![t] = r]
  BY DEF Advance
<1> HIDE DEF r
<1>4. stack'[t] = r
  BY <1>3, StackIs
<1> QED BY <1>2, <1>3, <1>4 DEF Moved

LEMMA ReturnIs ==
  ASSUME TypeInv, NEW t \in Threads, NEW P, At(t, P), P \cap Handling = {}, Return(t)
  PROVE  Moved(t) /\ \A Q : Fewer(stack[t], stack'[t], Q)
<1>1. stack[t] \in Seq(Frames) /\ stack[t] # <<>> /\ Shape(stack[t])
      /\ Last(stack[t]).at \notin Handling /\ MaxFrames \in Nat
  BY StackIs DEF At
<1>2. /\ Front(stack[t]) \in Seq(Frames) /\ Shape(Front(stack[t]))
      /\ \A Q : Fewer(stack[t], Front(stack[t]), Q)
  BY <1>1, ReturnShape
<1>3. stack'[t] = Front(stack[t]) /\ stack' = [stack EXCEPT ![t] = Front(stack[t])]
  BY StackIs DEF Return
<1> QED BY <1>2, <1>3 DEF Moved

LEMMA CallIs ==
  ASSUME TypeInv, NEW t \in Threads, stack[t] # <<>> => Last(stack[t]).at \notin Handling,
         NEW frame \in Frames,
         \/ /\ Len(stack[t]) < MaxFrames
            /\ frame.call # "panic_handler" /\ frame.at \notin Handling
         \/ /\ \A i \in 1..Len(stack[t]) : stack[t][i].call # "panic_handler"
            /\ frame.call = "panic_handler" /\ frame.at = "crash",
         stack' = [stack EXCEPT ![t] = Append(stack[t], frame)]
  PROVE  Moved(t) /\ \A Q : frame.at \notin Q => Fewer(stack[t], stack'[t], Q)
<1>1. stack[t] \in Seq(Frames) /\ Shape(stack[t]) /\ MaxFrames \in Nat
  BY StackIs
<1>2. LET r == Append(stack[t], frame)
      IN  /\ r \in Seq(Frames) /\ Shape(r)
          /\ \A Q : frame.at \notin Q => Fewer(stack[t], r, Q)
  BY <1>1, CallShape
<1>3. stack'[t] = Append(stack[t], frame)
  BY StackIs
<1> QED BY <1>2, <1>3 DEF Moved

LEMMA UnwindIs == ASSUME TypeInv, NEW t \in Threads, Unwind(t) PROVE Moved(t)
<1>1. stack'[t] = <<>> /\ stack' = [stack EXCEPT ![t] = <<>>]
  BY StackIs DEF Unwind
<1>2. <<>> \in Seq(Frames) /\ Shape(<<>>)
  BY DEF Shape
<1> QED BY <1>1, <1>2 DEF Moved

LEMMA StillIs == ASSUME TypeInv, NEW t \in Threads, UNCHANGED stack
                 PROVE  Moved(t) /\ \A Q : Fewer(stack[t], stack'[t], Q)
<1>1. stack'[t] = stack[t] /\ stack' = [stack EXCEPT ![t] = stack[t]]
  BY StackIs
<1> QED BY <1>1, StackIs DEF Moved, Fewer

LEMMA PanicsIs ==
  ASSUME TypeInv, NEW t \in Threads, NEW P, At(t, P), P \cap Handling = {}, Panics(t)
  PROVE  Moved(t) /\ (TakesNone(t) \/ Unwind(t))
<1> DEFINE frame == [call |-> "panic_handler", at |-> "crash"]
<1>1. CASE UNCHANGED <<stack, poisoned, torn>>
  BY <1>1, StillIs DEF TakesNone
<1>2. ASSUME \A i \in DOMAIN stack[t] : stack[t][i].call # "panic_handler",
             stack' = [stack EXCEPT ![t] = Append(stack[t], frame)], UNCHANGED <<poisoned, torn>>
      PROVE  Moved(t) /\ TakesNone(t)
  <2>1. frame \in Frames /\ frame.call = "panic_handler" /\ frame.at = "crash"
    BY DEF Frames, Writes
  <2> HIDE DEF frame
  <2>2. \A i \in 1..Len(stack[t]) : stack[t][i].call # "panic_handler"
    BY <1>2, StackIs
  <2>3. stack[t] # <<>> => Last(stack[t]).at \notin Handling
    BY DEF At
  <2>4. Moved(t) /\ \A Q : frame.at \notin Q => Fewer(stack[t], stack'[t], Q)
    BY <1>2, <2>1, <2>2, <2>3, CallIs
  <2>5. frame.at \notin Locked
    BY <2>1 DEF Locked
  <2> QED BY <1>2, <2>4, <2>5 DEF TakesNone
<1> QED BY <1>1, <1>2, UnwindIs DEF Panics

LEMMA StepIs ==
  ASSUME TypeInv, NEW t \in Threads, Step(t) \/ \E call \in Calls : Call(t, call)
  PROVE  Effect(t)
<1> DEFINE Typed == poisoned' \in BOOLEAN /\ torn' \in BOOLEAN /\ aborted' \in BOOLEAN
                    /\ calls' \in 0..MaxCalls
<1>0. poisoned \in BOOLEAN /\ torn \in BOOLEAN /\ aborted \in BOOLEAN /\ calls \in 0..MaxCalls
      /\ MaxFrames \in Nat /\ MaxCalls \in Nat
  BY DEF TypeInv, TypeOK
<1>1. ASSUME NEW call \in Calls, Call(t, call) PROVE Effect(t)
  <2>1. /\ Len(stack[t]) < MaxFrames /\ calls < MaxCalls /\ calls' = calls + 1
        /\ stack' = [stack EXCEPT ![t] = Append(stack[t], [call |-> call, at |-> First(call)])]
        /\ UNCHANGED <<queued, poisoned, aborted, torn>>
        /\ stack[t] = <<>> \/ At(t, Locked \cup Unlocked)
    BY <1>1 DEF Call
  <2> DEFINE frame == [call |-> call, at |-> First(call)]
  <2>2. First(call) \in {"write", "client", "read"}
    BY DEF First, Calls
  <2>3. /\ frame \in Frames /\ frame.call # "panic_handler"
        /\ frame.at \notin Handling /\ frame.at \notin Locked
    BY <2>2 DEF Frames, Reads, Writes, Handling, Locked, Calls
  <2> HIDE DEF frame
  <2>4. stack[t] # <<>> => Last(stack[t]).at \notin Handling
    BY <2>1 DEF At, Locked, Unlocked, Handling
  <2>5. Moved(t) /\ Fewer(stack[t], stack'[t], Locked)
    BY <2>1, <2>3, <2>4, CallIs DEF frame
  <2>6. t \notin queued
    <3>1. CASE stack[t] = <<>>
      BY <3>1 DEF TypeInv, TypeOK
    <3>2. CASE At(t, Locked \cup Unlocked)
      BY <3>2, QueuedWait DEF Locked, Unlocked, Writes
    <3> QED BY <2>1, <3>1, <3>2
  <2> QED BY <1>0, <2>1, <2>5, <2>6 DEF Effect, Requeued, TakesNone
<1>2. CASE Queue(t)
  BY <1>0, <1>2, StillIs DEF Queue, Effect, Requeued, TakesNone, At
<1>3. CASE TakeClient(t)
  <2>1. At(t, {"client"}) /\ UNCHANGED <<queued, poisoned, aborted, calls, torn>>
    BY <1>3 DEF TakeClient
  <2>2. \/ Return(t)
        \/ \E at \in {"read", "before_breadcrumb", "push"} : Advance(t, at)
    BY <1>3 DEF TakeClient
  <2>3. {"client"} \cap Handling = {} /\ {"client"} \cap Writes = {}
    BY DEF Handling, Writes
  <2>4. \A at \in {"read", "before_breadcrumb", "push"} : at \in Positions /\ at \notin Handling /\ at \notin Locked
    BY DEF Positions, Reads, Writes, Unlocked, Handling, Locked
  <2>5. Moved(t) /\ Fewer(stack[t], stack'[t], Locked)
    BY <2>1, <2>2, <2>3, <2>4, AdvanceIs, ReturnIs
  <2>6. t \notin queued
    BY <2>1, <2>3, QueuedWait
  <2> QED BY <1>0, <2>1, <2>5, <2>6 DEF Effect, Requeued, TakesNone
<1>4. CASE TakeRead(t)
  <2>1. At(t, {"read"}) /\ CanRead /\ UNCHANGED <<queued, calls>>
    BY <1>4 DEF TakeRead
  <2>2. {"read"} \cap Handling = {} /\ {"read"} \cap Writes = {}
    BY DEF Handling, Writes
  <2>3. t \notin queued
    BY <2>1, <2>2, QueuedWait
  <2>4. CASE Panics(t)
    <3>1. Moved(t) /\ (TakesNone(t) \/ Unwind(t))
      BY <2>1, <2>2, <2>4, PanicsIs
    <3>2. poisoned' \in BOOLEAN /\ torn' \in BOOLEAN /\ aborted' \in BOOLEAN
      BY <1>0, <2>4 DEF Panics, Unwind
    <3> QED BY <1>0, <2>1, <2>3, <3>1, <3>2 DEF Effect, Requeued
  <2>5. CASE Return(t) /\ UNCHANGED <<poisoned, aborted, torn>>
    <3>1. Moved(t) /\ Fewer(stack[t], stack'[t], Locked)
      BY <2>1, <2>2, <2>5, ReturnIs
    <3> QED BY <1>0, <2>1, <2>3, <2>5, <3>1 DEF Effect, Requeued, TakesNone
  <2>6. CASE ~poisoned /\ Advance(t, "hooks") /\ UNCHANGED <<poisoned, aborted, torn>>
    <3>1. "hooks" \in Positions /\ "hooks" \notin Handling /\ "hooks" \notin {"closure"}
      BY DEF Positions, Locked, Handling
    <3>2. Moved(t) /\ Fewer(stack[t], stack'[t], {"closure"})
      BY <2>1, <2>2, <2>6, <3>1, AdvanceIs
    <3> QED BY <1>0, <2>1, <2>3, <2>6, <3>2 DEF Effect, Requeued, TakesRead, CanRead
  <2> QED BY <1>4, <2>4, <2>5, <2>6 DEF TakeRead
<1>5. CASE TakeWrite(t)
  <2>1. At(t, {"write"}) /\ CanWrite /\ queued' = queued \ {t} /\ UNCHANGED calls
    BY <1>5 DEF TakeWrite
  <2>2. {"write"} \cap Handling = {}
    BY DEF Handling
  <2>3. CASE Panics(t)
    <3>1. Moved(t) /\ (TakesNone(t) \/ Unwind(t))
      BY <2>1, <2>2, <2>3, PanicsIs
    <3>2. poisoned' \in BOOLEAN /\ torn' \in BOOLEAN /\ aborted' \in BOOLEAN
      BY <1>0, <2>3 DEF Panics, Unwind
    <3> QED BY <1>0, <2>1, <3>1, <3>2 DEF Effect, Requeued
  <2>4. CASE Return(t) /\ UNCHANGED <<poisoned, aborted, torn>>
    <3>1. Moved(t) /\ Fewer(stack[t], stack'[t], Locked)
      BY <2>1, <2>2, <2>4, ReturnIs
    <3> QED BY <1>0, <2>1, <2>4, <3>1 DEF Effect, Requeued, TakesNone
  <2>5. CASE ~poisoned /\ Advance(t, "closure") /\ UNCHANGED <<poisoned, aborted, torn>>
    <3>1. "closure" \in Positions /\ "closure" \notin Handling /\ "closure" \notin {"hooks"}
      BY DEF Positions, Locked, Handling
    <3>2. Moved(t) /\ Fewer(stack[t], stack'[t], {"hooks"})
      BY <2>1, <2>2, <2>5, <3>1, AdvanceIs
    <3> QED BY <1>0, <2>1, <2>5, <3>2 DEF Effect, Requeued, TakesWrite
  <2> QED BY <1>5, <2>3, <2>4, <2>5 DEF TakeWrite
<1>6. CASE TakeBriefly(t)
  <2>1. /\ At(t, {"push", "mark", "pop"}) /\ Return(t) /\ queued' = queued \ {t}
        /\ UNCHANGED <<poisoned, aborted, calls, torn>>
    BY <1>6 DEF TakeBriefly
  <2>2. Moved(t) /\ Fewer(stack[t], stack'[t], Locked)
    BY <2>1, ReturnIs DEF Handling
  <2> QED BY <1>0, <2>1, <2>2 DEF Effect, Requeued, TakesNone
(* The application's code returns *)
<1>7. ASSUME NEW P, At(t, P), P \subseteq Locked \cup Unlocked,
             \/ Return(t)
             \/ \E at \in {"mark", "body", "pop", "push"} : Advance(t, at),
             UNCHANGED <<queued, poisoned, aborted, calls, torn>>
      PROVE  Effect(t)
  <2>1. P \cap Handling = {} /\ P \cap Writes = {}
    BY <1>7 DEF Locked, Unlocked, Handling, Writes
  <2>2. \A at \in {"mark", "body", "pop", "push"} :
          at \in Positions /\ at \notin Handling /\ at \notin Locked
    BY DEF Positions, Writes, Unlocked, Handling, Locked
  <2>3. Moved(t) /\ Fewer(stack[t], stack'[t], Locked)
    BY <1>7, <2>1, <2>2, AdvanceIs, ReturnIs
  <2>4. t \notin queued
    BY <1>7, <2>1, QueuedWait
  <2> QED BY <1>0, <1>7, <2>3, <2>4 DEF Effect, Requeued, TakesNone
<1>8. CASE HooksReturn(t) \/ ClosureReturns(t) \/ BodyReturns(t) \/ BreadcrumbReturns(t)
  <2>1. \A P \in {{"hooks"}, {"closure"}, {"body"}, {"before_breadcrumb"}} : P \subseteq Locked \cup Unlocked
    BY DEF Locked, Unlocked
  <2>2. \E P \in {{"hooks"}, {"closure"}, {"body"}, {"before_breadcrumb"}} : At(t, P)
    BY <1>8 DEF HooksReturn, ClosureReturns, BodyReturns, BreadcrumbReturns
  <2>3. /\ \/ Return(t)
           \/ \E at \in {"mark", "body", "pop", "push"} : Advance(t, at)
        /\ UNCHANGED <<queued, poisoned, aborted, calls, torn>>
    BY <1>8 DEF HooksReturn, ClosureReturns, BodyReturns, BreadcrumbReturns
  <2> QED BY <1>7, <2>1, <2>2, <2>3
<1>9. CASE AppPanics(t)
  <2>1. At(t, Locked \cup Unlocked) /\ Panics(t) /\ UNCHANGED <<queued, calls>>
    BY <1>9 DEF AppPanics
  <2>2. (Locked \cup Unlocked) \cap Handling = {} /\ (Locked \cup Unlocked) \cap Writes = {}
    BY DEF Locked, Unlocked, Handling, Writes
  <2>3. Moved(t) /\ (TakesNone(t) \/ Unwind(t))
    BY <2>1, <2>2, PanicsIs
  <2>4. poisoned' \in BOOLEAN /\ torn' \in BOOLEAN /\ aborted' \in BOOLEAN
    BY <1>0, <2>1 DEF Panics, Unwind
  <2>5. t \notin queued
    BY <2>1, <2>2, QueuedWait
  <2> QED BY <1>0, <2>1, <2>3, <2>4, <2>5 DEF Effect, Requeued
<1>10. CASE MarkCrashed(t)
  <2> DEFINE r == Front(stack[t]) \o <<[call |-> "panic_handler", at |-> "flush"],
                                      [call |-> "capture_event", at |-> "client"]>>
  <2>1. /\ stack[t] # <<>> /\ Last(stack[t]).at = "crash" /\ queued' = queued \ {t}
        /\ stack' = [stack EXCEPT ![t] = r] /\ UNCHANGED <<poisoned, aborted, calls, torn>>
    BY <1>10 DEF MarkCrashed, At
  <2>2. r \in Seq(Frames) /\ Shape(r) /\ Fewer(stack[t], r, Locked)
    BY <1>0, <2>1, StackIs, MarkedShape
  <2> HIDE DEF r
  <2>3. stack'[t] = r
    BY <2>1, StackIs
  <2> QED BY <1>0, <2>1, <2>2, <2>3 DEF Effect, Moved, Requeued, TakesNone
<1>11. CASE Flush(t)
  <2>1. At(t, {"flush"}) /\ Unwind(t) /\ UNCHANGED <<queued, calls>>
    BY <1>11 DEF Flush
  <2>2. t \notin queued
    BY <2>1, QueuedWait DEF Writes
  <2>3. poisoned' \in BOOLEAN /\ torn' \in BOOLEAN /\ aborted' \in BOOLEAN
    BY <1>0, <2>1 DEF Unwind
  <2> QED BY <1>0, <2>1, <2>2, <2>3, UnwindIs DEF Effect, Requeued
<1> QED BY <1>1, <1>2, <1>3, <1>4, <1>5, <1>6, <1>8, <1>9, <1>10, <1>11 DEF Step

-----------------------------------------------------------------------------
(* The type *)

LEMMA TypeStep ==
  ASSUME TypeInv, NEW t \in Threads, Effect(t), UNCHANGED panicHook
  PROVE  TypeInv'
<1>1. /\ stack' = [stack EXCEPT ![t] = stack'[t]]
      /\ stack'[t] \in Seq(Frames) /\ Shape(stack'[t])
      /\ \A u \in Threads \ {t} : stack'[u] = stack[u]
  BY StackIs DEF Effect, Moved
<1>2. stack' \in [Threads -> Seq(Frames)]
  BY <1>1, StackIs
<1>3. \A u \in Threads : Shape(stack'[u])
  BY <1>1 DEF TypeInv
<1>4. \A u \in Threads : Len(stack'[u]) <= MaxFrames + 2
  BY <1>3 DEF Shape
<1>5. queued' \subseteq {u \in Threads : stack'[u] # <<>> /\ Last(stack'[u]).at \in Writes}
  <2>1. ASSUME NEW u \in queued' PROVE u \in Threads /\ stack'[u] # <<>> /\ Last(stack'[u]).at \in Writes
    <3>1. CASE u = t
      BY <3>1, <2>1 DEF Effect, Requeued
    <3>2. CASE u # t
      BY <1>1, <2>1, <3>2 DEF Effect, Requeued, TypeInv, TypeOK
    <3> QED BY <3>1, <3>2
  <2> QED BY <2>1
<1>6. /\ panicHook' \in PanicHooks
      /\ poisoned' \in BOOLEAN /\ aborted' \in BOOLEAN /\ torn' \in BOOLEAN
      /\ calls' \in 0..MaxCalls
  BY DEF Effect, TypeInv, TypeOK
<1>7. TypeOK'
  BY <1>2, <1>4, <1>5, <1>6 DEF TypeOK
<1> QED BY <1>3, <1>7 DEF TypeInv

LEMMA TypeInit == Init => TypeInv
<1> SUFFICES ASSUME Init PROVE TypeInv
  OBVIOUS
<1>1. \A t \in Threads : stack[t] = <<>> /\ stack[t] \in Seq(Frames) /\ Len(stack[t]) = 0
  BY DEF Init
<1>2. TypeOK
  <2>1. stack \in [Threads -> Seq(Frames)] /\ \A t \in Threads : Len(stack[t]) <= MaxFrames + 2
    BY <1>1 DEF Init
  <2>2. /\ queued \subseteq {t \in Threads : stack[t] # <<>> /\ Last(stack[t]).at \in Writes}
        /\ calls \in 0..MaxCalls /\ panicHook \in PanicHooks
        /\ poisoned \in BOOLEAN /\ aborted \in BOOLEAN /\ torn \in BOOLEAN
    <3>1. queued = {} /\ calls = 0 /\ 0 \in 0..MaxCalls
      BY DEF Init
    <3>2. panicHook \in PanicHooks
      BY DEF Init
    <3>3. poisoned = FALSE /\ aborted = FALSE /\ torn = FALSE
      BY DEF Init
    <3> QED BY <3>1, <3>2, <3>3
  <2> QED BY <2>1, <2>2 DEF TypeOK
<1>3. \A t \in Threads : Shape(stack[t])
  BY <1>1 DEF Shape
<1> QED BY <1>2, <1>3 DEF TypeInv

LEMMA NextIsEffect ==
  TypeInv /\ Next => UNCHANGED panicHook /\ \E t \in Threads : Effect(t)
BY StepIs DEF Next

THEOREM TypeInvariance == Spec => []TypeInv
<1>1. TypeInv /\ [Next]_vars => TypeInv'
  <2>1. ASSUME TypeInv, UNCHANGED vars PROVE TypeInv'
    BY <2>1 DEF vars, TypeInv, TypeOK
  <2>2. ASSUME TypeInv, Next PROVE TypeInv'
    BY <2>2, NextIsEffect, TypeStep
  <2> QED BY <2>1, <2>2
<1> QED BY <1>1, TypeInit, PTL DEF Spec

(* Every thread's calls, the queue of writers and the flags keep their      *)
(* types; a panic never stacks a second handler on the first, so that no    *)
(* thread is more than the handler and its event above its own calls.       *)
THEOREM TypeCorrect == Spec => []TypeOK
<1>1. TypeInv => TypeOK
  BY DEF TypeInv
<1> QED BY <1>1, TypeInvariance, PTL

-----------------------------------------------------------------------------
(* Who has the lock *)

(* A writer is alone; a lock that a panic poisoned is not taken again; and  *)
(* it was poisoned when a closure left its changes half made.               *)
LockInv ==
  /\ \A t \in Writers : Writers = {t} /\ Readers = {}
  /\ poisoned => Holders = {}
  /\ torn => poisoned

LEMMA HoldersAre ==
  ASSUME TypeInv
  PROVE  /\ \A t \in Threads : t \in Writers <=> \E i \in 1..Len(stack[t]) : stack[t][i].at = "closure"
         /\ \A t \in Threads : t \in Readers <=> \E i \in 1..Len(stack[t]) : stack[t][i].at = "hooks"
         /\ Writers \subseteq Threads /\ Readers \subseteq Threads
<1>1. \A t \in Threads : DOMAIN stack[t] = 1..Len(stack[t])
  BY StackIs
<1> QED BY <1>1 DEF Writers, Readers, Has

LEMMA LockStep ==
  ASSUME TypeInv, TypeInv', LockInv, NEW t \in Threads, Effect(t)
  PROVE  LockInv'
<1>1. \A u \in Threads \ {t} : stack'[u] = stack[u]
  BY StackIs DEF Effect, Moved
<1>2. /\ \A u \in Threads : u \in Writers' <=> \E i \in 1..Len(stack'[u]) : stack'[u][i].at = "closure"
      /\ \A u \in Threads : u \in Readers' <=> \E i \in 1..Len(stack'[u]) : stack'[u][i].at = "hooks"
      /\ Writers' \subseteq Threads /\ Readers' \subseteq Threads
  <2>1. \A u \in Threads : DOMAIN stack'[u] = 1..Len(stack'[u])
    BY DEF TypeInv, TypeOK
  <2> QED BY <2>1 DEF Writers, Readers, Has
<1>3. Writers' \ {t} = Writers \ {t} /\ Readers' \ {t} = Readers \ {t}
  BY <1>1, <1>2, HoldersAre
<1>4. CASE TakesNone(t)
  <2>1. \A i \in 1..Len(stack'[t]) : stack'[t][i].at \in {"closure", "hooks"} =>
          i \in 1..Len(stack[t]) /\ stack'[t][i] = stack[t][i]
    BY <1>4 DEF TakesNone, Fewer, Locked
  <2>2. (t \in Writers' => t \in Writers) /\ (t \in Readers' => t \in Readers)
    BY <1>2, <2>1, HoldersAre
  <2>3. Writers' \subseteq Writers /\ Readers' \subseteq Readers
    BY <1>3, <2>2
  <2> QED BY <1>4, <2>3 DEF TakesNone, LockInv, Holders
<1>5. CASE TakesRead(t)
  <2>1. Writers' = {} /\ ~poisoned' /\ (torn' => poisoned')
    BY <1>2, <1>3, <1>5, HoldersAre DEF TakesRead, Fewer, LockInv
  <2> QED BY <2>1 DEF LockInv
<1>6. CASE TakesWrite(t)
  <2>1. Writers' \subseteq {t} /\ Readers' = {} /\ ~poisoned' /\ (torn' => poisoned')
    BY <1>2, <1>3, <1>6, HoldersAre DEF TakesWrite, CanWrite, Fewer, LockInv
  <2> QED BY <2>1 DEF LockInv
<1>7. CASE Unwind(t)
  <2>1. stack'[t] = <<>>
    BY <1>7, StackIs DEF Unwind
  <2>2. t \notin Writers' /\ t \notin Readers'
    BY <1>2, <2>1
  <2>3. Writers' \subseteq Writers /\ Readers' \subseteq Readers
    BY <1>3, <2>2
  <2>4. poisoned' => Holders' = {}
    <3>1. CASE poisoned
      BY <2>3, <3>1 DEF LockInv, Holders
    <3>2. CASE Has(t, "closure")
      BY <1>3, <2>2, <3>2 DEF LockInv, Holders, Writers
    <3> QED BY <1>7, <3>1, <3>2 DEF Unwind
  <2>5. torn' => poisoned'
    <3>1. CASE torn
      BY <1>7, <3>1 DEF LockInv, Unwind
    <3>2. CASE [call |-> "configure_scope", at |-> "closure"] \in Range(stack[t])
      BY <1>7, <3>2 DEF Unwind, Has, Range
    <3> QED BY <1>7, <3>1, <3>2 DEF Unwind
  <2> QED BY <2>3, <2>4, <2>5 DEF LockInv
<1> QED BY <1>4, <1>5, <1>6, <1>7 DEF Effect

(* Once a closure of configure_scope panicked half way through its changes, *)
(* nothing runs with the lock again: what panics left of the scope is never *)
(* read, cloned or sent.                                                    *)
THEOREM NothingHalfChanged == Spec => []HalfChangedUnseen
<1>1. Init => LockInv
  BY DEF Init, LockInv, Writers, Readers, Holders, Has
<1>2. TypeInv /\ TypeInv' /\ LockInv /\ [Next]_vars => LockInv'
  <2>1. ASSUME LockInv, UNCHANGED vars PROVE LockInv'
    BY <2>1 DEF vars, LockInv, Holders, Writers, Readers, Has
  <2>2. ASSUME TypeInv, TypeInv', LockInv, Next PROVE LockInv'
    BY <2>2, NextIsEffect, LockStep
  <2> QED BY <2>1, <2>2
<1>3. LockInv => HalfChangedUnseen
  BY DEF LockInv, HalfChangedUnseen
<1> QED BY <1>1, <1>2, <1>3, TypeInvariance, PTL DEF Spec
=============================================================================
