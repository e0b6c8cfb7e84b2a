------------------------------- MODULE HubLock -------------------------------
(***************************************************************************)
(* The RwLock of one hub that threads share (Hub, src/src/hub.rs): which   *)
(* calls hold it while they run code of the application (closures of       *)
(* configure_scope and with_scope, integrations and before_send inside     *)
(* capture_event), what that code may do there, and the panic hook         *)
(* (src/src/panic.rs), which runs on the panicking thread before anything  *)
(* is unwound.                                                             *)
(*                                                                         *)
(* A thread is the stack of the hub's calls it is in; what the calls do to *)
(* scopes, sessions and events is in Scopes, Sessions and Pipeline.  A     *)
(* panic is caught at the bottom of the stack, or ends the process when    *)
(* the thread is panicking already.                                        *)
(***************************************************************************)
EXTENDS Naturals, Sequences, FiniteSets, SequencesExt

CONSTANTS
  Threads,
  PanicHooks,   \* whether the panic integration is installed: {TRUE}, {FALSE} or either
  WriterFirst,  \* whether a queued writer keeps readers out, as std's RwLock may
  MaxFrames,    \* bound: nested calls
  MaxCalls      \* bound: calls

ASSUME HubLockAssumption ==
  PanicHooks \subseteq BOOLEAN /\ WriterFirst \in BOOLEAN /\ MaxFrames \in Nat /\ MaxCalls \in Nat

VARIABLES
  panicHook, \* chosen once
  stack,     \* of each thread, the innermost call last
  queued,    \* threads that wait to write
  poisoned,
  aborted,   \* the process ended in a panic inside a panic
  calls

(* History: a closure of configure_scope panicked half way *)
VARIABLE torn

vars == <<panicHook, stack, queued, poisoned, aborted, calls, torn>>

Calls == {"configure_scope", "with_scope", "add_breadcrumb", "capture_event", "new_from_top"}

(* Where a call waits for the lock, to read and to write *)
Reads == {"client", "read", "flush"}
Writes == {"write", "push", "mark", "pop", "crash"}
(* Where it runs code of the application: with the lock, and without *)
Locked == {"closure", "hooks"}
Unlocked == {"body", "before_breadcrumb"}

Frames == [call : Calls \cup {"panic_handler"}, at : Reads \cup Writes \cup Locked \cup Unlocked]

TypeOK ==
  /\ stack \in [Threads -> Seq(Frames)]
  /\ \A t \in Threads : Len(stack[t]) <= MaxFrames + 2
  /\ queued \subseteq {t \in Threads : stack[t] # <<>> /\ Last(stack[t]).at \in Writes}
  /\ panicHook \in PanicHooks
  /\ poisoned \in BOOLEAN /\ aborted \in BOOLEAN /\ torn \in BOOLEAN
  /\ calls \in 0..MaxCalls

-----------------------------------------------------------------------------
At(t, positions) == ~aborted /\ stack[t] # <<>> /\ Last(stack[t]).at \in positions
Has(t, at) == \E i \in DOMAIN stack[t] : stack[t][i].at = at

(* Mutant: capture_event keeps the read lock until it has marked the session *)
ReadersMark == {t \in Threads : Has(t, "hooks") \/ Has(t, "mark")}

Writers == {t \in Threads : Has(t, "closure")}
Readers == {t \in Threads : Has(t, "hooks")}
CanRead == Writers = {} /\ (WriterFirst => queued = {})
CanWrite == Writers = {} /\ Readers = {}

Advance(t, at) == stack' = [stack EXCEPT ![t][Len(stack[t])].at = at]
Return(t) == stack' = [stack EXCEPT ![t] = Front(@)]
First(call) ==
  CASE call \in {"configure_scope", "with_scope"} -> "write"
    [] call \in {"add_breadcrumb", "capture_event"} -> "client"
    [] call = "new_from_top" -> "read"

(* The guards on the stack are dropped: one that can write poisons the lock *)
Unwind(t) ==
  /\ stack' = [stack EXCEPT ![t] = <<>>]
  /\ poisoned' = (poisoned \/ Has(t, "closure"))
  /\ torn' = (torn \/ [call |-> "configure_scope", at |-> "closure"] \in Range(stack[t]))
  /\ UNCHANGED aborted

(* Mutant: a panic inside the handler runs the handler again *)
PanicsAgain(t) ==
  /\ stack' = [stack EXCEPT ![t] = Append(@, [call |-> "panic_handler", at |-> "crash"])]
  /\ UNCHANGED <<poisoned, aborted, torn>>

(* panic_handler runs first, with every lock of the thread still held *)
Panics(t) ==
  IF \E i \in DOMAIN stack[t] : stack[t][i].call = "panic_handler"
  THEN aborted' = TRUE /\ UNCHANGED <<stack, poisoned, torn>>
  ELSE IF panicHook
       THEN /\ stack' = [stack EXCEPT ![t] =
                           Append(@, [call |-> "panic_handler", at |-> "crash"])]
            /\ UNCHANGED <<poisoned, aborted, torn>>
       ELSE Unwind(t)

-----------------------------------------------------------------------------
(* A thread calls the hub, from outside or from code the hub runs *)
Call(t, call) ==
  /\ IF stack[t] = <<>> THEN ~aborted ELSE At(t, Locked \cup Unlocked)
  /\ Len(stack[t]) < MaxFrames /\ calls < MaxCalls
  /\ stack' = [stack EXCEPT ![t] = Append(@, [call |-> call, at |-> First(call)])]
  /\ calls' = calls + 1
  /\ UNCHANGED <<queued, poisoned, aborted, torn>>

Queue(t) ==
  /\ At(t, Writes) /\ ~CanWrite /\ t \notin queued
  /\ queued' = queued \cup {t}
  /\ UNCHANGED <<stack, poisoned, aborted, calls, torn>>

(* Hub::client, None once the lock is poisoned: capture_event returns, and a *)
(* breadcrumb goes on to configure_scope as it is                           *)
TakeClient(t) ==
  /\ At(t, {"client"}) /\ CanRead
  /\ IF Last(stack[t]).call = "capture_event"
     THEN IF poisoned THEN Return(t) ELSE Advance(t, "read")
     ELSE Advance(t, IF poisoned THEN "push" ELSE "before_breadcrumb")
  /\ UNCHANGED <<queued, poisoned, aborted, calls, torn>>

(* read().expect("hub poisoned") *)
TakeRead(t) ==
  /\ At(t, {"read"}) /\ CanRead
  /\ IF poisoned THEN Panics(t)
     ELSE /\ IF Last(stack[t]).call = "capture_event" THEN Advance(t, "hooks") ELSE Return(t)
          /\ UNCHANGED <<poisoned, aborted, torn>>
  /\ UNCHANGED <<queued, calls>>

(* Mutant: what a panic left behind is taken as it is *)
TakeWriteAnyway(t) ==
  /\ At(t, {"write"}) /\ CanWrite
  /\ queued' = queued \ {t}
  /\ Advance(t, "closure") /\ UNCHANGED <<poisoned, aborted, torn>>
  /\ UNCHANGED calls

(* write(): with_scope expects the lock, configure_scope returns without it *)
TakeWrite(t) ==
  /\ At(t, {"write"}) /\ CanWrite
  /\ queued' = queued \ {t}
  /\ IF poisoned /\ Last(stack[t]).call = "with_scope" THEN Panics(t)
     ELSE /\ IF poisoned THEN Return(t) ELSE Advance(t, "closure")
          /\ UNCHANGED <<poisoned, aborted, torn>>
  /\ UNCHANGED calls

(* The SDK's own writes: the breadcrumb, the session's mark, the pop *)
TakeBriefly(t) ==
  /\ At(t, {"push", "mark", "pop"}) /\ CanWrite
  /\ Return(t) /\ queued' = queued \ {t}
  /\ UNCHANGED <<poisoned, aborted, calls, torn>>

(* The application's code returns.  The read lock is gone before an error   *)
(* event marks the session.                                                *)
HooksReturn(t) ==
  /\ At(t, {"hooks"})
  /\ Return(t) \/ Advance(t, "mark")
  /\ UNCHANGED <<queued, poisoned, aborted, calls, torn>>

ClosureReturns(t) ==
  /\ At(t, {"closure"})
  /\ IF Last(stack[t]).call = "with_scope" THEN Advance(t, "body") ELSE Return(t)
  /\ UNCHANGED <<queued, poisoned, aborted, calls, torn>>

BodyReturns(t) ==
  /\ At(t, {"body"}) /\ Advance(t, "pop")
  /\ UNCHANGED <<queued, poisoned, aborted, calls, torn>>

BreadcrumbReturns(t) ==
  /\ At(t, {"before_breadcrumb"})
  /\ Return(t) \/ Advance(t, "push")
  /\ UNCHANGED <<queued, poisoned, aborted, calls, torn>>

(* ... or panics *)
AppPanics(t) ==
  /\ At(t, Locked \cup Unlocked) /\ Panics(t)
  /\ UNCHANGED <<queued, calls>>

(* panic_handler: mark_session_crashed, capture_event, flush *)
MarkCrashed(t) ==
  /\ At(t, {"crash"}) /\ CanWrite
  /\ stack' = [stack EXCEPT ![t] =
       Front(@) \o <<[call |-> "panic_handler", at |-> "flush"],
                     [call |-> "capture_event", at |-> "client"]>>]
  /\ queued' = queued \ {t}
  /\ UNCHANGED <<poisoned, aborted, calls, torn>>

Flush(t) ==
  /\ At(t, {"flush"}) /\ CanRead /\ Unwind(t)
  /\ UNCHANGED <<queued, calls>>

Init ==
  /\ panicHook \in PanicHooks
  /\ stack = [t \in Threads |-> <<>>] /\ queued = {} /\ calls = 0
  /\ poisoned = FALSE /\ aborted = FALSE /\ torn = FALSE

Step(t) ==
  \/ Queue(t) \/ TakeClient(t) \/ TakeRead(t) \/ TakeWrite(t) \/ TakeBriefly(t)
  \/ HooksReturn(t) \/ ClosureReturns(t) \/ BodyReturns(t) \/ BreadcrumbReturns(t)
  \/ AppPanics(t) \/ MarkCrashed(t) \/ Flush(t)

Next ==
  /\ \E t \in Threads : Step(t) \/ \E call \in Calls : Call(t, call)
  /\ UNCHANGED panicHook

Spec == Init /\ [][Next]_vars

(* Threads are scheduled, and the application's code returns or panics *)
FairSpec == Spec /\ \A t \in Threads : WF_vars(Step(t) /\ UNCHANGED panicHook)

-----------------------------------------------------------------------------
(* Properties *)

Holders == Writers \cup Readers
Waits(t) == stack[t] # <<>> /\ Last(stack[t]).at \in Reads \cup Writes
Stuck == Holders # {} /\ \A t \in Holders : Waits(t)
Reentered ==   \* a call, or panic_handler, runs above code that has the lock
  \E t \in Threads : \E i \in DOMAIN stack[t] :
    stack[t][i].at \in Locked /\ i < Len(stack[t])

(* Every wait for the lock comes to its end, in a panic handler and after a  *)
(* panic poisoned the lock as well, unless everyone who has the lock waits  *)
(* for it because code of the application that ran with the lock held       *)
(* called the hub again, or panicked with the panic hook installed: the     *)
(* SDK's own calls, and hooks that leave the hub alone, never block one     *)
(* another for ever.                                                        *)
EveryWaitEnds ==
  \A t \in Threads : Waits(t) ~> (~Waits(t) \/ aborted \/ (Stuck /\ Reentered))

(* Once a closure of configure_scope panicked half way through its changes, *)
(* no event, closure or new hub ever gets to see the scope.                *)
HalfChangedUnseen == torn => Holders = {}
=============================================================================
