----------------------------- MODULE EventSpool -----------------------------
(***************************************************************************)
(* The spool directory (EventSpool, src/src/transport.rs) file by file,    *)
(* for processes that share it: two of one application, or one that starts *)
(* while another still runs.  Transport has the spool of one process as a  *)
(* set that changes at once; here a file is created, then written, then    *)
(* the directory is listed and files are removed one by one, and a worker  *)
(* replays from the listing it made when it started.  No result of         *)
(* fs::remove_file is looked at: any removal may leave its file.           *)
(*                                                                         *)
(* Every envelope is persisted in one file, whose name stands for it.      *)
(* Names sort by a wall clock and a random id: any unused name may be next.*)
(***************************************************************************)
EXTENDS Integers, FiniteSets, Functions

CONSTANTS
  Processes,
  MaxEvents, MaxBytes,   \* offline_queue_max_events, offline_queue_max_bytes
  SizeOf,                \* of each file when it is written
  MaxFiles,              \* bound: files made
  MaxStarts,             \* bound: starts of a worker
  MaxFaults              \* bound: operations on a file that fail, and processes that end

Files == 1..MaxFiles
Least(names) == CHOOSE f \in names : \A g \in names : f <= g

(* A listing of the directory: the names, and the bytes of each by then *)
Sizes == {0} \cup {SizeOf[f] : f \in Files}
Listings == UNION {[names -> Sizes] : names \in SUBSET Files}
NoFiles == [f \in {} |-> 0]

ASSUME SpoolAssumption ==
  /\ MaxEvents \in Nat \ {0} /\ MaxBytes \in Nat \ {0}
  /\ MaxFiles \in Nat /\ MaxStarts \in Nat /\ MaxFaults \in Nat
  /\ SizeOf \in [Files -> Nat]

VARIABLES
  dir,      \* the files there are, and of each whether it is written
  persist,  \* of each process, the persist call under way
  drain,    \* of each process, its worker's replay
  made,     \* files that were ever made
  starts,
  faults    \* operations on a file that failed, and processes that ended

(* History: read by the properties alone *)
VARIABLES
  promised, \* files of which persist said true
  acked,    \* how often the server acknowledged each
  ended,    \* files the server refused, the limits removed, or no replay could load
  stray,    \* files the limits did not come to, or could not remove
  exposed   \* read while another replay had them, or outlived their answer: the
            \* process ended before the removal, or the removal failed

history == <<promised, acked, ended, stray, exposed>>
vars == <<dir, persist, drain, made, starts, faults, history>>

Persisting(at, file, listed) == [at |-> at, file |-> file, listed |-> listed]
NoPersist == Persisting("idle", 0, NoFiles)
NoDrain == [at |-> "idle", listed |-> {}]

TypeOK ==
  /\ made \subseteq Files /\ DOMAIN dir \subseteq made /\ dir \in [DOMAIN dir -> BOOLEAN]
  /\ persist \in [Processes -> [at : {"idle", "create", "list", "limit"},
                                file : made \cup {0}, listed : Listings]]
  /\ drain \in [Processes -> [at : {"idle", "next", "discard", "deliver", "remove"},
                              listed : SUBSET made]]
  /\ \A p \in Processes : /\ persist[p].at = "idle" <=> persist[p].file = 0
                          /\ persist[p].at = "limit" => DOMAIN persist[p].listed # {}
                          /\ drain[p].at = "idle" <=> drain[p].listed = {}
  /\ starts \in 0..MaxStarts /\ faults \in 0..MaxFaults
  /\ promised \cup ended \cup stray \cup exposed \subseteq made
  /\ acked \in [Files -> Nat]

-----------------------------------------------------------------------------
Without(files, f) == [g \in DOMAIN files \ {f} |-> files[g]]
(* files_with_sizes: the names, each with the bytes written so far *)
files_with_sizes(names) == [f \in names |-> IF dir[f] THEN SizeOf[f] ELSE 0]

(* The file system fails an operation, whose error is dropped, or a process ends *)
Fault == faults < MaxFaults /\ faults' = faults + 1

(* fs::write makes an empty file ... *)
Create(p) ==
  /\ persist[p].at = "idle"
  /\ \E f \in Files \ made :
       /\ made' = made \cup {f}
       /\ dir' = [g \in DOMAIN dir \cup {f} |-> IF g = f THEN FALSE ELSE dir[g]]
       /\ persist' = [persist EXCEPT ![p] = Persisting("create", f, NoFiles)]
  /\ UNCHANGED <<drain, starts, faults, history>>

(* ... and fills it, whether or not another process has removed it since *)
Write(p) ==
  LET f == persist[p].file
  IN  /\ persist[p].at = "create"
      /\ dir' = [g \in DOMAIN dir |-> g = f \/ dir[g]]
      /\ persist' = [persist EXCEPT ![p] = Persisting("list", f, NoFiles)]
      /\ UNCHANGED <<drain, made, starts, faults, history>>

(* ... or not: persist says false, and the file stays as it is *)
WriteFails(p) ==
  /\ persist[p].at = "create" /\ Fault
  /\ persist' = [persist EXCEPT ![p] = NoPersist]
  /\ stray' = stray \cup {persist[p].file}
  /\ UNCHANGED <<dir, drain, made, starts, promised, acked, ended, exposed>>

Over(listed) == Cardinality(DOMAIN listed) > MaxEvents \/ SumFunction(listed) > MaxBytes

(* persist says true when the files left of its listing are within limits *)
ReturnOrEvict(p, listed) ==
  IF Over(listed)
  THEN /\ persist' = [persist EXCEPT ![p] = Persisting("limit", @.file, listed)]
       /\ UNCHANGED promised
  ELSE /\ persist' = [persist EXCEPT ![p] = NoPersist]
       /\ promised' = promised \cup {persist[p].file}

(* Mutant: the limits are checked against the files that were there before *)
ListOthers(p) ==
  /\ persist[p].at = "list"
  /\ ReturnOrEvict(p, files_with_sizes(DOMAIN dir \ {persist[p].file}))
  /\ UNCHANGED <<dir, drain, made, starts, faults, acked, ended, stray, exposed>>

(* enforce_limits lists the directory once ... *)
List(p) ==
  /\ persist[p].at = "list"
  /\ ReturnOrEvict(p, files_with_sizes(DOMAIN dir))
  /\ UNCHANGED <<dir, drain, made, starts, faults, acked, ended, stray, exposed>>

(* fs::remove_file, whose result is ignored *)
Remove(f) ==
  \/ dir' = Without(dir, f) /\ UNCHANGED faults
  \/ f \in DOMAIN dir /\ Fault /\ UNCHANGED dir

(* ... and removes what it listed, the first by name first; another process *)
(* may have removed it already.                                            *)
Evict(p) ==
  LET f == Least(DOMAIN persist[p].listed)
  IN  /\ persist[p].at = "limit"
      /\ Remove(f)
      /\ ended' = ended \cup ({f} \cap (DOMAIN dir \ DOMAIN dir'))
      /\ stray' = stray \cup ({f} \cap DOMAIN dir')
      /\ ReturnOrEvict(p, Without(persist[p].listed, f))
      /\ UNCHANGED <<drain, made, starts, acked, exposed>>

-----------------------------------------------------------------------------
(* drain_spool: a worker that starts replays what it lists, by name *)

Current(p) == Least(drain[p].listed)
Rest(p) == drain[p].listed \ {Current(p)}
Goto(p, at) == drain' = [drain EXCEPT ![p] = [at |-> at, listed |-> @.listed]]
(* Mutant: the replay does not notice its end *)
ReplayOn(p, listed) ==
  drain' = [drain EXCEPT ![p] = [at |-> "next", listed |-> listed]]

Replay(p, listed) ==   \* the replay ends with its listing
  drain' = [drain EXCEPT ![p] =
              IF listed = {} THEN NoDrain ELSE [at |-> "next", listed |-> listed]]
Replaying(f) ==   \* replays that have read f and not removed it
  {p \in Processes : drain[p].at \in {"deliver", "remove"} /\ Current(p) = f}

DrainStart(p) ==
  /\ drain[p].at = "idle" /\ starts < MaxStarts
  /\ starts' = starts + 1
  /\ Replay(p, DOMAIN dir)
  /\ UNCHANGED <<dir, persist, made, faults, history>>

(* Mutant: what a file held is taken from the listing *)
ReadAnyway(p) ==
  /\ drain[p].at = "next"
  /\ Goto(p, "deliver")
  /\ exposed' = IF Replaying(Current(p)) = {} THEN exposed ELSE exposed \cup {Current(p)}
  /\ UNCHANGED <<dir, persist, made, starts, faults, promised, acked, ended, stray>>

(* load_file, of a file that is wholly written ... *)
Read(p) ==
  LET f == Current(p)
  IN  /\ drain[p].at = "next" /\ f \in DOMAIN dir /\ dir[f]
      /\ Goto(p, "deliver")
      /\ exposed' = IF Replaying(f) # {} THEN exposed \cup {f} ELSE exposed
      /\ UNCHANGED <<dir, persist, made, starts, faults, promised, acked, ended, stray>>

(* ... and of any that is gone or half written, or that cannot be read or    *)
(* parsed: it counts as dropped                                               *)
ReadFails(p) ==
  LET f == Current(p)
  IN  /\ drain[p].at = "next"
      /\ IF f \in DOMAIN dir /\ dir[f] THEN Fault ELSE UNCHANGED faults
      /\ Goto(p, "discard")
      /\ ended' = ended \cup ({f} \cap DOMAIN dir)
      /\ UNCHANGED <<dir, persist, made, starts, promised, acked, stray, exposed>>

Discard(p) ==
  /\ drain[p].at = "discard"
  /\ Remove(Current(p))
  /\ Replay(p, Rest(p))
  /\ UNCHANGED <<persist, made, starts, history>>

Accepted(p) ==
  /\ drain[p].at = "deliver" /\ Goto(p, "remove")
  /\ acked' = [acked EXCEPT ![Current(p)] = @ + 1]
  /\ UNCHANGED <<dir, persist, made, starts, faults, promised, ended, stray, exposed>>

Refused(p) ==
  /\ drain[p].at = "deliver" /\ Goto(p, "remove")
  /\ ended' = ended \cup {Current(p)}
  /\ UNCHANGED <<dir, persist, made, starts, faults, promised, acked, stray, exposed>>

Retryable(p) ==   \* the replay stops at the first one
  /\ drain[p].at = "deliver"
  /\ drain' = [drain EXCEPT ![p] = NoDrain]
  /\ UNCHANGED <<dir, persist, made, starts, faults, history>>

(* Mutant: the first file of the directory is removed, not the replayed one *)
RemoveOldest(p) ==
  /\ drain[p].at = "remove"
  /\ dir' = IF DOMAIN dir = {} THEN dir ELSE Without(dir, Least(DOMAIN dir))
  /\ Replay(p, Rest(p))
  /\ UNCHANGED <<persist, made, starts, faults, history>>

(* An answered file goes, or stays where the next replay finds it *)
RemoveReplayed(p) ==
  /\ drain[p].at = "remove"
  /\ Remove(Current(p))
  /\ exposed' = exposed \cup ({Current(p)} \cap DOMAIN dir')
  /\ Replay(p, Rest(p))
  /\ UNCHANGED <<persist, made, starts, promised, acked, ended, stray>>

-----------------------------------------------------------------------------
(* A process ends anywhere: the directory stays as it is *)
Crash(p) ==
  /\ persist[p].at # "idle" \/ drain[p].at # "idle"
  /\ Fault
  /\ persist' = [persist EXCEPT ![p] = NoPersist]
  /\ drain' = [drain EXCEPT ![p] = NoDrain]
  /\ stray' = stray \cup (made \cap {persist[p].file})
  /\ exposed' = IF drain[p].at = "remove" THEN exposed \cup {Current(p)} ELSE exposed
  /\ UNCHANGED <<dir, made, starts, promised, acked, ended>>

Init ==
  /\ dir = NoFiles /\ made = {} /\ starts = 0 /\ faults = 0
  /\ persist = [p \in Processes |-> NoPersist] /\ drain = [p \in Processes |-> NoDrain]
  /\ promised = {} /\ acked = [f \in Files |-> 0]
  /\ ended = {} /\ stray = {} /\ exposed = {}

Next ==
  \E p \in Processes :
    \/ Create(p) \/ Write(p) \/ WriteFails(p) \/ List(p) \/ Evict(p)
    \/ DrainStart(p) \/ Read(p) \/ ReadFails(p) \/ Discard(p)
    \/ Accepted(p) \/ Refused(p) \/ Retryable(p) \/ RemoveReplayed(p)
    \/ Crash(p)

Spec == Init /\ [][Next]_vars

-----------------------------------------------------------------------------
(* Properties *)

Whole == {f \in DOMAIN dir : dir[f]}
UnderWay == {persist[p].file : p \in Processes}

(* An envelope persist said true of is in the directory until the server    *)
(* answered for it or the limits removed it, whatever listings the          *)
(* processes work from; the one loss is a replay that could not load the    *)
(* file, because it was still being written or cannot be read.              *)
PromiseKept ==
  promised \subseteq Whole \cup {f \in Files : acked[f] > 0} \cup ended

(* Processes that enforce the limits at once, each from its own listing,    *)
(* keep the directory within them, but for files of calls under way, of     *)
(* calls that failed or crashed before they came to the limits, and those   *)
(* the limits chose and could not remove: persist says true all the same.   *)
LimitHolds ==
  LET settled == DOMAIN dir \ (stray \cup UnderWay)
  IN  ~Over(files_with_sizes(settled))

(* The server acknowledges an envelope twice only if two replays had its    *)
(* file at once, or if the file outlived its answer: the process ended      *)
(* before the removal, or the removal, whose result is ignored, failed.     *)
ResentOnlyIfExposed == \A f \in Files : acked[f] > 1 => f \in exposed
=============================================================================
