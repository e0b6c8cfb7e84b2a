---------------------------- MODULE ScopesProofs ----------------------------
(***************************************************************************)
(* Proofs about Scopes for any number of threads, requests and guards, any *)
(* nesting and any number of panics.                                       *)
(***************************************************************************)
EXTENDS Scopes, SequenceLemmas, FiniteSetTheorems

-----------------------------------------------------------------------------
(* The type.  Hubs that are in use were made. *)

USE ScopesAssumption

MadeHubs == {h \in Hubs : stack[h] # <<>>}

FrameMade(f, S) ==
  /\ f.kind = "scope" => f.hub \in S
  /\ f.kind = "run" => f.prev \in S \cup {None}

FramesMade == \A t \in Threads : \A i \in 1..Len(frames[t]) : FrameMade(frames[t][i], MadeHubs)

HubsMade ==
  /\ \A t \in Threads : current[t] \in MadeHubs \cup {None} /\ serving[t] \in MadeHubs \cup {None}
  /\ FramesMade
  /\ \A g \in Guards : guard[g] \in MadeHubs \cup {None}
  /\ \A r \in Requests : request[r] = "none" => r \notin MadeHubs
  /\ \A h \in Hubs \ MadeHubs : leaked[h] = 0

TypeInv == TypeOK /\ HubsMade

Steps(t) ==
  \/ ConfigureScope(t) \/ WithScope(t) \/ WithScopeEnd(t)
  \/ \E g \in Guards : PushScope(t, g)
  \/ \E r \in Requests : RequestCall(t, r) \/ RequestRun(t, r) \/ Poll(t, r)
  \/ RequestRunEnd(t) \/ Panic(t)
  \/ \E ready \in BOOLEAN : PollEnd(t, ready)

LEMMA HubIsMade ==
  ASSUME TypeInv, NEW t \in Threads
  PROVE  /\ Hub(t) \in Hubs /\ stack[Hub(t)] # <<>> /\ stack[Hub(t)] \in Seq(SUBSET Tags)
         /\ Top(Hub(t)) \in SUBSET Tags
         /\ Actor(t) \in Actors /\ \A b \in BOOLEAN : Tag(t, b) \in Tags
<1>1. Hub(t) \in Hubs /\ stack[Hub(t)] # <<>> /\ stack[Hub(t)] \in Seq(SUBSET Tags)
  BY DEF TypeInv, TypeOK, HubsMade, MadeHubs, Hub, Hubs
<1>2. Top(Hub(t)) \in SUBSET Tags
  BY <1>1, FrontIs DEF Top
<1>3. Actor(t) \in Actors
  BY DEF TypeInv, TypeOK, Actor, Actors
<1> QED BY <1>1, <1>2, <1>3 DEF Tag, Tags

LEMMA PushKeeps ==
  ASSUME TypeInv, NEW h \in Hubs, stack[h] # <<>>, NEW scope \in SUBSET Tags, Push(h, scope)
  PROVE  /\ stack' \in [Hubs -> Seq(SUBSET Tags)]
         /\ \A g \in Hubs : stack[g] = <<>> <=> stack'[g] = <<>>
         /\ \A g \in Hubs \ {h} : stack'[g] = stack[g]
         /\ Len(stack[h]) \in Nat \ {0} /\ Len(stack'[h]) = Len(stack[h]) + 1
         /\ \A i \in 1..Len(stack[h]) : stack'[h][i] = stack[h][i]
         /\ stack'[h][Len(stack[h]) + 1] = scope
<1>1. stack \in [Hubs -> Seq(SUBSET Tags)] /\ stack[h] \in Seq(SUBSET Tags)
  BY DEF TypeInv, TypeOK
<1>2. stack' = [stack EXCEPT ![h] = Append(stack[h], scope)]
  BY DEF Push
<1>3. Len(stack[h]) \in Nat \ {0}
  BY <1>1, EmptySeq
<1>4. /\ stack'[h] = Append(stack[h], scope)
      /\ \A g \in Hubs \ {h} : stack'[g] = stack[g]
  BY <1>1, <1>2
<1>5. Append(stack[h], scope) \in Seq(SUBSET Tags)
  BY <1>1, AppendIs
<1>6. stack' \in [Hubs -> Seq(SUBSET Tags)]
  BY <1>1, <1>2, <1>5
<1> QED BY <1>1, <1>3, <1>4, <1>6, AppendIs

LEMMA PopKeeps ==
  ASSUME TypeInv, NEW h \in Hubs, Pop(h)
  PROVE  /\ stack' \in [Hubs -> Seq(SUBSET Tags)]
         /\ \A g \in Hubs : stack[g] = <<>> <=> stack'[g] = <<>>
         /\ \A g \in Hubs \ {h} : stack'[g] = stack[g]
         /\ Len(stack[h]) \in Nat
         /\ \/ Len(stack[h]) <= 1 /\ stack'[h] = stack[h]
            \/ /\ Len(stack[h]) > 1 /\ Len(stack'[h]) = Len(stack[h]) - 1
               /\ \A i \in 1..(Len(stack[h]) - 1) : stack'[h][i] = stack[h][i]
<1>1. stack \in [Hubs -> Seq(SUBSET Tags)] /\ stack[h] \in Seq(SUBSET Tags)
      /\ Len(stack[h]) \in Nat
  BY DEF TypeInv, TypeOK
<1>2. /\ stack'[h] = IF Len(stack[h]) > 1 THEN Front(stack[h]) ELSE stack[h]
      /\ \A g \in Hubs \ {h} : stack'[g] = stack[g]
  BY <1>1 DEF Pop
<1>3. CASE Len(stack[h]) > 1
  <2>1. /\ stack[h] # <<>> /\ stack'[h] = Front(stack[h])
        /\ stack' = [stack EXCEPT ![h] = Front(stack[h])]
    BY <1>1, <1>2, <1>3, EmptySeq DEF Pop
  <2>2. /\ Front(stack[h]) \in Seq(SUBSET Tags) /\ Len(stack'[h]) = Len(stack[h]) - 1
        /\ \A i \in 1..(Len(stack[h]) - 1) : stack'[h][i] = stack[h][i]
    <3>1. PICK f : f = Front(stack[h])
      OBVIOUS
    <3>2. /\ f \in Seq(SUBSET Tags) /\ Len(f) = Len(stack[h]) - 1
          /\ \A i \in 1..(Len(stack[h]) - 1) : f[i] = stack[h][i]
      <4>1. PICK s \in Seq(SUBSET Tags) : s = stack[h] /\ s # <<>>
        BY <1>1, <2>1
      <4> QED BY <3>1, <4>1, FrontIs
    <3>3. stack'[h] = f
      BY <2>1, <3>1
    <3> QED BY <3>1, <3>2, <3>3
  <2>3. stack' \in [Hubs -> Seq(SUBSET Tags)]
    BY <1>1, <2>1, <2>2
  <2>4. stack'[h] # <<>>
    BY <1>1, <1>3, <2>2, EmptySeq
  <2> QED BY <1>1, <1>2, <1>3, <2>1, <2>2, <2>3, <2>4
<1>4. CASE ~(Len(stack[h]) > 1)
  <2>1. stack'[h] = stack[h] /\ stack' \in [Hubs -> Seq(SUBSET Tags)]
    BY <1>1, <1>2, <1>4 DEF Pop
  <2> QED BY <1>1, <1>2, <1>4, <2>1
<1> QED BY <1>3, <1>4

LEMMA ConfigureKeeps ==
  ASSUME TypeInv, NEW t \in Threads, ConfigureScope(t)
  PROVE  LET h == Hub(t)
         IN  /\ stack' \in [Hubs -> Seq(SUBSET Tags)]
             /\ \A g \in Hubs : stack[g] = <<>> <=> stack'[g] = <<>>
             /\ \A g \in Hubs \ {h} : stack'[g] = stack[g]
             /\ Len(stack'[h]) = Len(stack[h]) /\ Len(stack[h]) \in Nat \ {0}
             /\ \A i \in 1..Len(stack[h]) :
                  stack'[h][i] = IF i = Len(stack[h]) THEN stack[h][i] \cup {Tag(t, FALSE)}
                                 ELSE stack[h][i]
<1> DEFINE h == Hub(t)
           top == Last(stack[h]) \cup {Tag(t, FALSE)}
           new == Append(Front(stack[h]), top)
<1>1. /\ stack \in [Hubs -> Seq(SUBSET Tags)] /\ h \in Hubs
      /\ stack[h] # <<>> /\ stack[h] \in Seq(SUBSET Tags)
      /\ Tag(t, FALSE) \in Tags
  BY HubIsMade DEF TypeInv, TypeOK
<1>2. Last(stack[h]) = stack[h][Len(stack[h])] /\ Last(stack[h]) \in SUBSET Tags
  BY <1>1, FrontIs
<1>3. top \in SUBSET Tags
  BY <1>1, <1>2
<1>4. stack' = [stack EXCEPT ![h] = new]
  BY DEF ConfigureScope
<1> HIDE DEF h, top
<1>5. /\ new \in Seq(SUBSET Tags) /\ new # <<>> /\ Len(new) = Len(stack[h])
      /\ Len(stack[h]) \in Nat \ {0}
      /\ \A i \in 1..Len(stack[h]) : new[i] = IF i = Len(stack[h]) THEN top ELSE stack[h][i]
  BY <1>1, <1>3, TopReplaced
<1> HIDE DEF new
<1>6. stack' \in [Hubs -> Seq(SUBSET Tags)] /\ stack'[h] = new
      /\ \A g \in Hubs \ {h} : stack'[g] = stack[g]
  BY <1>1, <1>4, <1>5
<1>7. \A i \in 1..Len(stack[h]) :
        stack'[h][i] = IF i = Len(stack[h]) THEN stack[h][i] \cup {Tag(t, FALSE)}
                       ELSE stack[h][i]
  BY <1>2, <1>5, <1>6 DEF top
<1> QED BY <1>1, <1>5, <1>6, <1>7 DEF h

LEMMA EnterKeeps ==
  ASSUME TypeInv, NEW t \in Threads, NEW frame \in Frames, Enter(t, frame)
  PROVE  /\ frames' \in [Threads -> Seq(Frames)] /\ \A u \in Threads : Len(frames'[u]) <= MaxFrames
         /\ \A u \in Threads \ {t} : frames'[u] = frames[u]
         /\ Len(frames'[t]) = Len(frames[t]) + 1 /\ Len(frames[t]) \in Nat
         /\ \A i \in 1..Len(frames[t]) : frames'[t][i] = frames[t][i]
         /\ frames'[t][Len(frames[t]) + 1] = frame
<1>1. /\ frames \in [Threads -> Seq(Frames)] /\ \A u \in Threads : Len(frames[u]) <= MaxFrames
      /\ Len(frames[t]) < MaxFrames /\ frames' = [frames EXCEPT ![t] = Append(frames[t], frame)]
  BY DEF TypeInv, TypeOK, Enter
<1>2. /\ frames'[t] = Append(frames[t], frame)
      /\ \A u \in Threads \ {t} : frames'[u] = frames[u]
  BY <1>1
<1>3. /\ Append(frames[t], frame) \in Seq(Frames) /\ Len(frames[t]) \in Nat
      /\ Len(Append(frames[t], frame)) = Len(frames[t]) + 1
      /\ \A i \in 1..Len(frames[t]) : Append(frames[t], frame)[i] = frames[t][i]
      /\ Append(frames[t], frame)[Len(frames[t]) + 1] = frame
  BY <1>1, AppendIs
<1>4. frames' \in [Threads -> Seq(Frames)]
  BY <1>1, <1>3
<1>5. \A u \in Threads : Len(frames'[u]) <= MaxFrames
  BY <1>1, <1>2, <1>3
<1> QED BY <1>2, <1>3, <1>4, <1>5

LEMMA LeaveKeeps ==
  ASSUME TypeInv, NEW t \in Threads, NEW kind, Leave(t, kind)
  PROVE  /\ frames' \in [Threads -> Seq(Frames)] /\ \A u \in Threads : Len(frames'[u]) <= MaxFrames
         /\ \A u \in Threads \ {t} : frames'[u] = frames[u]
         /\ Len(frames'[t]) = Len(frames[t]) - 1 /\ Len(frames[t]) \in Nat \ {0}
         /\ \A i \in 1..(Len(frames[t]) - 1) : frames'[t][i] = frames[t][i]
         /\ Last(frames[t]) = frames[t][Len(frames[t])] /\ Last(frames[t]) \in Frames
         /\ frames[t] # <<>> /\ Last(frames[t]).kind = kind
<1>1. /\ frames \in [Threads -> Seq(Frames)] /\ \A u \in Threads : Len(frames[u]) <= MaxFrames
      /\ frames[t] \in Seq(Frames) /\ frames[t] # <<>> /\ Last(frames[t]).kind = kind
      /\ frames' = [frames EXCEPT ![t] = Front(frames[t])]
  BY DEF TypeInv, TypeOK, Leave
<1>2. /\ frames'[t] = Front(frames[t])
      /\ \A u \in Threads \ {t} : frames'[u] = frames[u]
  BY <1>1
<1>3. /\ Front(frames[t]) \in Seq(Frames) /\ Len(frames[t]) \in Nat \ {0}
      /\ Len(Front(frames[t])) = Len(frames[t]) - 1
      /\ \A i \in 1..(Len(frames[t]) - 1) : Front(frames[t])[i] = frames[t][i]
      /\ Last(frames[t]) = frames[t][Len(frames[t])] /\ Last(frames[t]) \in Frames
  BY <1>1, FrontIs
<1>4. frames' \in [Threads -> Seq(Frames)]
  BY <1>1, <1>3
<1>5. \A u \in Threads : Len(frames'[u]) <= MaxFrames
  BY <1>1, <1>2, <1>3
<1> QED BY <1>1, <1>2, <1>3, <1>4, <1>5

LEMMA OpenBodiesFinite ==
  ASSUME NEW T \in SUBSET Threads, NEW h
  PROVE  IsFiniteSet(OpenBodies(T, h)) /\ Cardinality(OpenBodies(T, h)) \in Nat
<1>1. IsFiniteSet(Threads) /\ IsFiniteSet(T) /\ MaxFrames \in Nat
  BY FS_Subset
<1>2. IsFiniteSet(1..MaxFrames)
  BY <1>1, FS_Interval
<1>3. IsFiniteSet(T \X (1..MaxFrames))
  BY <1>1, <1>2, FS_Product
<1>4. OpenBodies(T, h) \subseteq T \X (1..MaxFrames)
  BY DEF OpenBodies
<1> QED BY <1>3, <1>4, FS_Subset, FS_CardinalityType

LEMMA ScopeFrame == ASSUME NEW h \in Hubs PROVE [kind |-> "scope", hub |-> h] \in Frames
BY DEF Frames

LEMMA FrameKinds ==
  \A f \in Frames : /\ f.kind \in {"scope", "run"}
                    /\ f.kind = "scope" => f.hub \in Hubs
                    /\ f.kind = "run" => f.prev \in Hubs \cup {None}
BY DEF Frames

LEMMA MadeStay ==
  ASSUME \A g \in Hubs : stack[g] = <<>> <=> stack'[g] = <<>>
  PROVE  MadeHubs' = MadeHubs
BY DEF MadeHubs, Hubs

(* Calls that are entered on made hubs, or left, are calls on made hubs *)
LEMMA FramesStayMade ==
  ASSUME FramesMade, MadeHubs \subseteq MadeHubs',
         \A u \in Threads : \A i \in 1..Len(frames'[u]) :
           \/ i \in 1..Len(frames[u]) /\ frames'[u][i] = frames[u][i]
           \/ FrameMade(frames'[u][i], MadeHubs')
  PROVE  FramesMade'
BY DEF FramesMade, FrameMade

LEMMA TypeStep ==
  ASSUME TypeInv, NEW t \in Threads, Steps(t)
  PROVE  TypeInv'
<1>0. /\ stack \in [Hubs -> Seq(SUBSET Tags)]
      /\ \A u \in Threads : frames[u] \in Seq(Frames) /\ Len(frames[u]) \in Nat
      /\ FramesMade
  BY DEF TypeInv, TypeOK, HubsMade
<1>1. CASE ConfigureScope(t)
  <2>1. stack' \in [Hubs -> Seq(SUBSET Tags)] /\ \A g \in Hubs : stack[g] = <<>> <=> stack'[g] = <<>>
    BY <1>1, ConfigureKeeps
  <2>2. MadeHubs' = MadeHubs
    BY <2>1, MadeStay
  <2>3. UNCHANGED <<current, frames, guard, request, serving, history>>
    BY <1>1 DEF ConfigureScope
  <2>4. TypeOK'
    BY <2>1, <2>3 DEF TypeInv, TypeOK, history, Hubs
  <2>5. HubsMade'
    BY <2>2, <2>3 DEF TypeInv, HubsMade, FramesMade, history
  <2> QED BY <2>4, <2>5 DEF TypeInv
<1>2. CASE WithScope(t)
  <2>1. /\ Enter(t, [kind |-> "scope", hub |-> Hub(t)])
        /\ Push(Hub(t), Top(Hub(t)) \cup {Tag(t, TRUE)})
        /\ UNCHANGED <<current, guard, request, serving, history>>
    BY <1>2 DEF WithScope
  <2>2. Hub(t) \in Hubs /\ stack[Hub(t)] # <<>> /\ Top(Hub(t)) \cup {Tag(t, TRUE)} \in SUBSET Tags
    BY HubIsMade
  <2>3. stack' \in [Hubs -> Seq(SUBSET Tags)] /\ \A g \in Hubs : stack[g] = <<>> <=> stack'[g] = <<>>
    BY <2>1, <2>2, PushKeeps
  <2>4. MadeHubs' = MadeHubs
    BY <2>3, MadeStay
  <2> DEFINE frame == [kind |-> "scope", hub |-> Hub(t)]
  <2>5. frame \in Frames /\ FrameMade(frame, MadeHubs)
    BY <2>2, ScopeFrame DEF FrameMade, MadeHubs
  <2> HIDE DEF frame
  <2>6. /\ frames' \in [Threads -> Seq(Frames)] /\ \A u \in Threads : Len(frames'[u]) <= MaxFrames
        /\ \A u \in Threads \ {t} : frames'[u] = frames[u]
        /\ Len(frames'[t]) = Len(frames[t]) + 1 /\ Len(frames[t]) \in Nat
        /\ \A i \in 1..Len(frames[t]) : frames'[t][i] = frames[t][i]
        /\ frames'[t][Len(frames[t]) + 1] = frame
    BY <2>1, <2>5, EnterKeeps DEF frame
  <2>7. FramesMade'
    <3>1. \A u \in Threads : \A i \in 1..Len(frames'[u]) :
            \/ i \in 1..Len(frames[u]) /\ frames'[u][i] = frames[u][i]
            \/ FrameMade(frames'[u][i], MadeHubs')
      <4>1. FrameMade(frame, MadeHubs')
        BY <2>4, <2>5
      <4>2. \A i \in 1..Len(frames'[t]) : i \in 1..Len(frames[t]) \/ i = Len(frames[t]) + 1
        BY <2>6
      <4>3. \A u \in Threads \ {t} : \A i \in 1..Len(frames'[u]) :
              i \in 1..Len(frames[u]) /\ frames'[u][i] = frames[u][i]
        BY <2>6
      <4> QED BY <2>6, <4>1, <4>2, <4>3
    <3> QED BY <1>0, <2>4, <3>1, FramesStayMade
  <2>8. TypeOK'
    BY <2>1, <2>3, <2>6 DEF TypeInv, TypeOK, history, Hubs
  <2>9. HubsMade'
    BY <2>1, <2>4, <2>7 DEF TypeInv, HubsMade, history
  <2> QED BY <2>8, <2>9 DEF TypeInv
<1>3. CASE WithScopeEnd(t)
  <2>1. /\ Leave(t, "scope") /\ Pop(Last(frames[t]).hub)
        /\ UNCHANGED <<current, guard, request, serving, history>>
    BY <1>3 DEF WithScopeEnd
  <2>2. /\ frames' \in [Threads -> Seq(Frames)] /\ \A u \in Threads : Len(frames'[u]) <= MaxFrames
        /\ \A u \in Threads \ {t} : frames'[u] = frames[u]
        /\ Len(frames'[t]) = Len(frames[t]) - 1 /\ Len(frames[t]) \in Nat \ {0}
        /\ \A i \in 1..(Len(frames[t]) - 1) : frames'[t][i] = frames[t][i]
        /\ Last(frames[t]) \in Frames /\ Last(frames[t]).kind = "scope"
    BY <2>1, LeaveKeeps
  <2>3. Last(frames[t]).hub \in Hubs
    BY <2>2, FrameKinds
  <2>4. stack' \in [Hubs -> Seq(SUBSET Tags)] /\ \A g \in Hubs : stack[g] = <<>> <=> stack'[g] = <<>>
    BY <2>1, <2>3, PopKeeps
  <2>5. MadeHubs' = MadeHubs
    BY <2>4, MadeStay
  <2>6. FramesMade'
    <3>1. \A u \in Threads : \A i \in 1..Len(frames'[u]) :
            i \in 1..Len(frames[u]) /\ frames'[u][i] = frames[u][i]
      BY <1>0, <2>2
    <3> QED BY <1>0, <2>5, <3>1, FramesStayMade
  <2>7. TypeOK'
    BY <2>1, <2>2, <2>4 DEF TypeInv, TypeOK, history, Hubs
  <2>8. HubsMade'
    BY <2>1, <2>5, <2>6 DEF TypeInv, HubsMade, history
  <2> QED BY <2>7, <2>8 DEF TypeInv
<1>4. ASSUME NEW g \in Guards, PushScope(t, g) PROVE TypeInv'
  <2>1. /\ Push(Hub(t), Top(Hub(t))) /\ guard' = [guard EXCEPT ![g] = Hub(t)]
        /\ UNCHANGED <<current, frames, request, serving, history>>
    BY <1>4 DEF PushScope
  <2>2. Hub(t) \in Hubs /\ stack[Hub(t)] # <<>> /\ Top(Hub(t)) \in SUBSET Tags
    BY HubIsMade
  <2>3. stack' \in [Hubs -> Seq(SUBSET Tags)] /\ \A f \in Hubs : stack[f] = <<>> <=> stack'[f] = <<>>
    BY <2>1, <2>2, PushKeeps
  <2>4. MadeHubs' = MadeHubs /\ Hub(t) \in MadeHubs
    BY <2>2, <2>3, MadeStay DEF MadeHubs
  <2>5. TypeOK'
    BY <2>1, <2>2, <2>3 DEF TypeInv, TypeOK, history, Hubs
  <2>6. HubsMade'
    BY <2>1, <2>4 DEF TypeInv, TypeOK, HubsMade, FramesMade, history
  <2> QED BY <2>5, <2>6 DEF TypeInv
<1>5. ASSUME NEW r \in Requests, RequestCall(t, r) PROVE TypeInv'
  <2>1. /\ request[r] = "none" /\ request' = [request EXCEPT ![r] = "made"]
        /\ stack' = [stack EXCEPT ![r] = <<Top(Hub(t))>>]
        /\ inherited' = [inherited EXCEPT ![r] = Top(Hub(t))]
        /\ UNCHANGED <<current, frames, guard, serving, leaked, escaped, panics>>
    BY <1>5 DEF RequestCall
  <2>2. Top(Hub(t)) \in SUBSET Tags
    BY HubIsMade
  <2>3. /\ stack' \in [Hubs -> Seq(SUBSET Tags)] /\ stack'[r] # <<>>
        /\ \A h \in Hubs \ {r} : stack'[h] = stack[h]
    BY <1>0, <2>1, <2>2 DEF Hubs
  <2>4. MadeHubs' = MadeHubs \cup {r}
    BY <2>3 DEF MadeHubs, Hubs
  <2>5. FramesMade'
    BY <1>0, <2>1, <2>4, FramesStayMade
  <2>6. TypeOK'
    BY <2>1, <2>2, <2>3 DEF TypeInv, TypeOK, Hubs
  <2>7. HubsMade'
    BY <2>1, <2>4, <2>5 DEF TypeInv, TypeOK, HubsMade
  <2> QED BY <2>6, <2>7 DEF TypeInv
<1>6. ASSUME NEW r \in Requests, RequestRun(t, r) PROVE TypeInv'
  <2>1. /\ request[r] = "made" /\ Enter(t, [kind |-> "run", prev |-> current[t]])
        /\ current' = [current EXCEPT ![t] = r]
        /\ request' = [request EXCEPT ![r] = "call"]
        /\ serving' = [serving EXCEPT ![t] = r]
        /\ UNCHANGED <<stack, guard, history>>
    BY <1>6 DEF RequestRun
  <2>2. MadeHubs' = MadeHubs /\ r \in MadeHubs
    BY <2>1 DEF TypeInv, TypeOK, MadeHubs, Hubs
  <2> DEFINE frame == [kind |-> "run", prev |-> current[t]]
  <2>3. frame \in Frames /\ FrameMade(frame, MadeHubs)
    BY DEF TypeInv, TypeOK, HubsMade, FrameMade, Frames
  <2> HIDE DEF frame
  <2>4. /\ frames' \in [Threads -> Seq(Frames)] /\ \A u \in Threads : Len(frames'[u]) <= MaxFrames
        /\ \A u \in Threads \ {t} : frames'[u] = frames[u]
        /\ Len(frames'[t]) = Len(frames[t]) + 1 /\ Len(frames[t]) \in Nat
        /\ \A i \in 1..Len(frames[t]) : frames'[t][i] = frames[t][i]
        /\ frames'[t][Len(frames[t]) + 1] = frame
    BY <2>1, <2>3, EnterKeeps DEF frame
  <2>5. FramesMade'
    <3>1. \A u \in Threads : \A i \in 1..Len(frames'[u]) :
            \/ i \in 1..Len(frames[u]) /\ frames'[u][i] = frames[u][i]
            \/ FrameMade(frames'[u][i], MadeHubs')
      BY <1>0, <2>2, <2>3, <2>4
    <3> QED BY <1>0, <2>2, <3>1, FramesStayMade
  <2>6. TypeOK'
    BY <2>1, <2>4 DEF TypeInv, TypeOK, history, Hubs
  <2>7. HubsMade'
    BY <2>1, <2>2, <2>5 DEF TypeInv, TypeOK, HubsMade, history
  <2> QED BY <2>6, <2>7 DEF TypeInv
<1>7. CASE RequestRunEnd(t)
  <2>1. /\ Leave(t, "run") /\ current' = [current EXCEPT ![t] = Last(frames[t]).prev]
        /\ request' = [request EXCEPT ![serving[t]] = "await"]
        /\ UNCHANGED <<stack, guard, serving, history>>
    BY <1>7 DEF RequestRunEnd
  <2>2. /\ frames' \in [Threads -> Seq(Frames)] /\ \A u \in Threads : Len(frames'[u]) <= MaxFrames
        /\ \A u \in Threads \ {t} : frames'[u] = frames[u]
        /\ Len(frames'[t]) = Len(frames[t]) - 1 /\ Len(frames[t]) \in Nat \ {0}
        /\ \A i \in 1..(Len(frames[t]) - 1) : frames'[t][i] = frames[t][i]
        /\ Last(frames[t]) = frames[t][Len(frames[t])]
        /\ Last(frames[t]) \in Frames /\ Last(frames[t]).kind = "run"
    BY <2>1, LeaveKeeps
  <2>3. MadeHubs' = MadeHubs
    BY <2>1 DEF MadeHubs
  <2>4. Last(frames[t]).prev \in MadeHubs \cup {None} /\ Last(frames[t]).prev \in Hubs \cup {None}
    <3>1. Len(frames[t]) \in 1..Len(frames[t])
      BY <2>2
    <3>2. FrameMade(Last(frames[t]), MadeHubs)
      BY <1>0, <2>2, <3>1 DEF FramesMade
    <3> QED BY <2>2, <3>2, FrameKinds DEF FrameMade
  <2>5. FramesMade'
    <3>1. \A u \in Threads : \A i \in 1..Len(frames'[u]) :
            i \in 1..Len(frames[u]) /\ frames'[u][i] = frames[u][i]
      BY <1>0, <2>2
    <3> QED BY <1>0, <2>3, <3>1, FramesStayMade
  <2>6. \A r \in Requests : request'[r] = request[r] \/ (request'[r] = "await" /\ r \in MadeHubs)
    BY <2>1 DEF TypeInv, TypeOK, HubsMade
  <2>7. TypeOK'
    BY <2>1, <2>2, <2>4, <2>6 DEF TypeInv, TypeOK, history, MadeHubs
  <2>8. HubsMade'
    BY <2>1, <2>3, <2>4, <2>5, <2>6 DEF TypeInv, TypeOK, HubsMade, history
  <2> QED BY <2>7, <2>8 DEF TypeInv
<1>8. ASSUME NEW r \in Requests, Poll(t, r) PROVE TypeInv'
  <2>1. /\ request[r] # "none" /\ serving' = [serving EXCEPT ![t] = r]
        /\ UNCHANGED <<stack, current, frames, guard, request, history>>
    BY <1>8 DEF Poll
  <2>2. MadeHubs' = MadeHubs /\ r \in MadeHubs
    BY <2>1 DEF TypeInv, TypeOK, MadeHubs, Hubs
  <2>3. TypeOK'
    BY <2>1 DEF TypeInv, TypeOK, history
  <2>4. HubsMade'
    BY <2>1, <2>2 DEF TypeInv, TypeOK, HubsMade, FramesMade, history
  <2> QED BY <2>3, <2>4 DEF TypeInv
<1>9. ASSUME NEW ready \in BOOLEAN, PollEnd(t, ready) PROVE TypeInv'
  <2>1. /\ serving[t] # None /\ serving' = [serving EXCEPT ![t] = None]
        /\ request' = IF ready THEN [request EXCEPT ![serving[t]] = "done"] ELSE request
        /\ UNCHANGED <<stack, current, frames, guard, history>>
    BY <1>9 DEF PollEnd
  <2>2. MadeHubs' = MadeHubs
    BY <2>1 DEF MadeHubs
  <2>3. \A r \in Requests : request'[r] = request[r] \/ (request'[r] = "done" /\ r \in MadeHubs)
    BY <2>1 DEF TypeInv, TypeOK, HubsMade
  <2>4. TypeOK'
    BY <2>1, <2>3 DEF TypeInv, TypeOK, history, MadeHubs
  <2>5. HubsMade'
    BY <2>1, <2>2, <2>3 DEF TypeInv, TypeOK, HubsMade, FramesMade, history
  <2> QED BY <2>4, <2>5 DEF TypeInv
<1>10. CASE Panic(t)
  <2>1. /\ panics < MaxPanics /\ panics' = panics + 1
        /\ frames' = [frames EXCEPT ![t] = <<>>]
        /\ leaked' = [h \in Hubs |-> leaked[h] + Cardinality(OpenBodies({t}, h))]
        /\ escaped' = escaped \cup {u \in {t} : \E f \in ToSet(frames[t]) : f.kind = "run"}
        /\ request' = [r \in Requests |-> IF serving[t] = r THEN "done" ELSE request[r]]
        /\ serving' = [serving EXCEPT ![t] = None]
        /\ UNCHANGED <<stack, current, guard, inherited>>
    BY <1>10 DEF Panic
  <2>2. MadeHubs' = MadeHubs
    BY <2>1 DEF MadeHubs
  <2>3. \A h : Cardinality(OpenBodies({t}, h)) \in Nat
    BY OpenBodiesFinite
  <2>4. \A h \in Hubs \ MadeHubs : leaked'[h] = 0
    <3>1. \A h \in Hubs \ MadeHubs : OpenBodies({t}, h) = {}
      BY <1>0 DEF OpenBodies, FramesMade, FrameMade
    <3>2. Cardinality({}) = 0
      BY FS_EmptySet
    <3>3. \A h \in Hubs \ MadeHubs : leaked[h] = 0 /\ leaked'[h] = leaked[h] + 0
      BY <2>1, <3>1, <3>2 DEF TypeInv, HubsMade
    <3> QED BY <3>3
  <2>5. leaked' \in [Hubs -> Nat]
    <3>1. leaked \in [Hubs -> Nat]
      BY DEF TypeInv, TypeOK
    <3>2. \A h \in Hubs : leaked[h] + Cardinality(OpenBodies({t}, h)) \in Nat
      BY <2>3, <3>1
    <3> QED BY <2>1, <3>2
  <2>6. /\ frames' \in [Threads -> Seq(Frames)] /\ \A u \in Threads : Len(frames'[u]) <= MaxFrames
        /\ \A u \in Threads \ {t} : frames'[u] = frames[u]
        /\ frames'[t] = <<>>
    BY <2>1 DEF TypeInv, TypeOK
  <2>7. FramesMade'
    <3>1. \A u \in Threads : \A i \in 1..Len(frames'[u]) :
            i \in 1..Len(frames[u]) /\ frames'[u][i] = frames[u][i]
      BY <1>0, <2>6
    <3> QED BY <1>0, <2>2, <3>1, FramesStayMade
  <2>8. \A r \in Requests : request'[r] = request[r] \/ (request'[r] = "done" /\ r \in MadeHubs)
    BY <2>1 DEF TypeInv, TypeOK, HubsMade
  <2>9. /\ request' \in [Requests -> {"none", "made", "call", "await", "done"}]
        /\ escaped' \subseteq Threads /\ panics' \in 0..MaxPanics
        /\ serving' \in [Threads -> Requests \cup {None}]
    BY <2>1 DEF TypeInv, TypeOK
  <2>10. TypeOK'
    BY <2>1, <2>5, <2>6, <2>8, <2>9 DEF TypeInv, TypeOK, MadeHubs
  <2>11. HubsMade'
    <3>1. /\ \A u \in Threads : current'[u] \in MadeHubs \cup {None}
          /\ \A g \in Guards : guard'[g] \in MadeHubs \cup {None}
      BY <2>1 DEF TypeInv, HubsMade
    <3>2. \A u \in Threads : serving'[u] \in MadeHubs \cup {None}
      BY <2>1 DEF TypeInv, TypeOK, HubsMade
    <3>3. \A r \in Requests : request'[r] = "none" => r \notin MadeHubs
      BY <2>8 DEF TypeInv, HubsMade
    <3> QED BY <2>2, <2>4, <2>7, <3>1, <3>2, <3>3 DEF HubsMade
  <2> QED BY <2>10, <2>11 DEF TypeInv
<1> QED BY <1>1, <1>2, <1>3, <1>4, <1>5, <1>6, <1>7, <1>8, <1>9, <1>10 DEF Steps

LEMMA DropKeeps ==
  ASSUME TypeInv, NEW g \in Guards, DropScopeGuard(g)
  PROVE  TypeInv'
<1>1. /\ guard[g] # None /\ Pop(guard[g]) /\ guard' = [guard EXCEPT ![g] = None]
      /\ UNCHANGED <<current, frames, request, serving, history>>
  BY DEF DropScopeGuard
<1>2. guard[g] \in Hubs
  BY <1>1 DEF TypeInv, TypeOK
<1>3. stack' \in [Hubs -> Seq(SUBSET Tags)] /\ \A h \in Hubs : stack[h] = <<>> <=> stack'[h] = <<>>
  BY <1>1, <1>2, PopKeeps
<1>4. MadeHubs' = MadeHubs
  BY <1>3, MadeStay
<1>5. TypeOK'
  BY <1>1, <1>3 DEF TypeInv, TypeOK, history, Hubs
<1>6. HubsMade'
  BY <1>1, <1>4 DEF TypeInv, TypeOK, HubsMade, FramesMade, history
<1> QED BY <1>5, <1>6 DEF TypeInv

THEOREM TypeInvariance == Spec => []TypeInv
<1>1. Init => TypeInv
  <2>1. ASSUME Init PROVE TypeInv
    <3>1. TypeOK
      <4>1. stack \in [Hubs -> Seq(SUBSET Tags)] /\ stack[Main] # <<>>
        <5>1. <<{}>> \in Seq(SUBSET Tags) /\ <<>> \in Seq(SUBSET Tags) /\ <<{}>> # <<>>
          BY EmptySeq
        <5>2. Main \in Hubs /\ stack = [h \in Hubs |-> IF h = Main THEN <<{}>> ELSE <<>>]
          BY <2>1 DEF Init, Hubs
        <5> QED BY <5>1, <5>2
      <4>2. frames \in [Threads -> Seq(Frames)] /\ \A t \in Threads : Len(frames[t]) <= MaxFrames
        BY <2>1 DEF Init
      <4>3. leaked \in [Hubs -> Nat] /\ inherited \in [Requests -> SUBSET Tags]
        BY <2>1 DEF Init
      <4>4. \A r \in Requests : request[r] = "none"
        BY <2>1 DEF Init
      <4> QED BY <2>1, <4>1, <4>2, <4>3, <4>4 DEF Init, TypeOK
    <3>2. FramesMade
      BY <2>1 DEF Init, FramesMade
    <3>3. HubsMade
      BY <2>1, <3>2 DEF Init, HubsMade, MadeHubs, Hubs
    <3> QED BY <3>1, <3>3 DEF TypeInv
  <2> QED BY <2>1
<1>2. TypeInv /\ [Next]_vars => TypeInv'
  <2>1. ASSUME TypeInv, UNCHANGED vars PROVE TypeInv'
    <3>1. TypeOK' /\ MadeHubs' = MadeHubs
      BY <2>1 DEF vars, history, TypeInv, TypeOK, Hubs, MadeHubs
    <3>2. HubsMade'
      BY <2>1, <3>1 DEF vars, history, TypeInv, HubsMade, FramesMade
    <3> QED BY <3>1, <3>2 DEF TypeInv
  <2>2. ASSUME TypeInv, Next PROVE TypeInv'
    BY <2>2, TypeStep, DropKeeps DEF Next, Steps
  <2> QED BY <2>1, <2>2
<1> QED BY <1>1, <1>2, PTL DEF Spec

(* The hubs, the thread-local hub and the calls of every thread keep their   *)
(* types: no step pops the main hub's base, and no request is served before  *)
(* its layer made its hub.                                                   *)
THEOREM TypeCorrect == Spec => []TypeOK
<1>1. TypeInv => TypeOK
  BY DEF TypeInv
<1> QED BY <1>1, TypeInvariance, PTL

-----------------------------------------------------------------------------
(* What a scope holds *)

(* The hub a thread has bound is that of the request it serves, from the    *)
(* Hub::run call its stack begins with, unless a panic left Hub::run.        *)
Bound ==
  \A t \in Threads \ escaped :
    /\ current[t] # None =>
         serving[t] = current[t] /\ frames[t] # <<>> /\ frames[t][1].kind = "run"
    /\ \A i \in 1..Len(frames[t]) :
         frames[t][i].kind = "run" => i = 1 /\ frames[t][i].prev = None /\ current[t] # None

LEMMA BoundStep ==
  ASSUME TypeInv, Bound, NEW t \in Threads, Steps(t)
  PROVE  Bound'
<1>0. /\ current \in [Threads -> Hubs \cup {None}] /\ serving \in [Threads -> Requests \cup {None}]
      /\ \A u \in Threads : frames[u] \in Seq(Frames) /\ Len(frames[u]) \in Nat
                           /\ (frames[u] # <<>> <=> Len(frames[u]) # 0)
      /\ escaped \subseteq Threads /\ frames \in [Threads -> Seq(Frames)]
  BY EmptySeq DEF TypeInv, TypeOK
<1>1. ASSUME UNCHANGED <<current, frames, serving, escaped>> PROVE Bound'
  BY <1>1 DEF Bound
<1>2. CASE WithScope(t)
  <2>1. /\ Enter(t, [kind |-> "scope", hub |-> Hub(t)])
        /\ UNCHANGED <<current, serving, escaped>>
    BY <1>2 DEF WithScope, history
  <2> DEFINE frame == [kind |-> "scope", hub |-> Hub(t)]
  <2>2. frame \in Frames /\ frame.kind = "scope"
    BY HubIsMade, ScopeFrame
  <2> HIDE DEF frame
  <2>3. /\ \A u \in Threads \ {t} : frames'[u] = frames[u]
        /\ Len(frames'[t]) = Len(frames[t]) + 1 /\ Len(frames[t]) \in Nat
        /\ \A i \in 1..Len(frames[t]) : frames'[t][i] = frames[t][i]
        /\ frames'[t][Len(frames[t]) + 1] = frame
    BY <2>1, <2>2, EnterKeeps DEF frame
  <2>4. \A i \in 1..Len(frames'[t]) :
          (i \in 1..Len(frames[t]) /\ frames'[t][i] = frames[t][i]) \/ frames'[t][i].kind = "scope"
    BY <2>2, <2>3
  <2>5. frames[t] # <<>> => frames'[t] # <<>> /\ frames'[t][1] = frames[t][1]
    BY <1>0, <2>3
  <2> QED BY <2>1, <2>3, <2>4, <2>5 DEF Bound
<1>3. CASE WithScopeEnd(t)
  <2>1. Leave(t, "scope") /\ UNCHANGED <<current, serving, escaped>>
    BY <1>3 DEF WithScopeEnd, history
  <2>2. /\ \A u \in Threads \ {t} : frames'[u] = frames[u]
        /\ Len(frames'[t]) = Len(frames[t]) - 1 /\ Len(frames[t]) \in Nat \ {0}
        /\ \A i \in 1..(Len(frames[t]) - 1) : frames'[t][i] = frames[t][i]
        /\ frames[t][Len(frames[t])].kind = "scope"
    BY <2>1, LeaveKeeps
  <2>3. \A i \in 1..Len(frames'[t]) : i \in 1..Len(frames[t]) /\ frames'[t][i] = frames[t][i]
    BY <2>2
  <2>4. ASSUME frames[t][1].kind = "run" PROVE frames'[t] # <<>> /\ frames'[t][1] = frames[t][1]
    <3>1. Len(frames[t]) # 1
      BY <2>2, <2>4
    <3>2. PICK n \in Nat \ {0} : n = Len(frames[t])
      BY <2>2
    <3>3. n - 1 # 0 /\ 1 \in 1..(n - 1)
      <4>1. n \in Nat /\ n # 0 /\ n # 1
        BY <3>1, <3>2
      <4>2. n >= 2
        BY <4>1
      <4> QED BY <4>1, <4>2
    <3>4. Len(<<>>) = 0
      OBVIOUS
    <3> QED BY <2>2, <3>2, <3>3, <3>4
  <2>5. current' = current /\ serving' = serving /\ escaped' = escaped
    BY <2>1
  <2>6. t \in escaped \/
          /\ current'[t] # None =>
               serving'[t] = current'[t] /\ frames'[t] # <<>> /\ frames'[t][1].kind = "run"
          /\ \A i \in 1..Len(frames'[t]) :
               frames'[t][i].kind = "run" => i = 1 /\ frames'[t][i].prev = None /\ current'[t] # None
    BY <2>3, <2>4, <2>5 DEF Bound
  <2> QED BY <2>2, <2>5, <2>6 DEF Bound
<1>4. ASSUME NEW r \in Requests, RequestRun(t, r) PROVE Bound'
  <2>1. /\ frames[t] = <<>> /\ Enter(t, [kind |-> "run", prev |-> current[t]])
        /\ current' = [current EXCEPT ![t] = r] /\ serving' = [serving EXCEPT ![t] = r]
        /\ UNCHANGED escaped
    BY <1>4 DEF RequestRun, history
  <2> DEFINE frame == [kind |-> "run", prev |-> current[t]]
  <2>2. frame \in Frames /\ frame.kind = "run" /\ frame.prev = current[t]
    BY <1>0 DEF Frames
  <2> HIDE DEF frame
  <2>3. /\ \A u \in Threads \ {t} : frames'[u] = frames[u]
        /\ Len(frames'[t]) = Len(frames[t]) + 1
        /\ frames'[t][Len(frames[t]) + 1] = frame
    BY <2>1, <2>2, EnterKeeps DEF frame
  <2>4. Len(frames'[t]) = 1 /\ frames'[t][1] = frame /\ frames'[t] # <<>>
    BY <2>1, <2>3
  <2>5. t \in escaped \/ current[t] = None
    BY <2>1 DEF Bound
  <2>6. current'[t] = r /\ serving'[t] = r /\ r # None
    BY <1>0, <2>1
  <2>7. \A u \in Threads \ {t} : current'[u] = current[u] /\ serving'[u] = serving[u]
    BY <1>0, <2>1
  <2> QED BY <2>1, <2>2, <2>3, <2>4, <2>5, <2>6, <2>7 DEF Bound
<1>5. CASE RequestRunEnd(t)
  <2>1. /\ Leave(t, "run") /\ current' = [current EXCEPT ![t] = Last(frames[t]).prev]
        /\ UNCHANGED <<serving, escaped>>
    BY <1>5 DEF RequestRunEnd, history
  <2>2. /\ \A u \in Threads \ {t} : frames'[u] = frames[u]
        /\ Len(frames'[t]) = Len(frames[t]) - 1 /\ Len(frames[t]) \in Nat \ {0}
        /\ Last(frames[t]) = frames[t][Len(frames[t])] /\ Last(frames[t]).kind = "run"
    BY <2>1, LeaveKeeps
  <2>3. t \in escaped \/ (Len(frames[t]) = 1 /\ Last(frames[t]).prev = None)
    <3>1. PICK n \in 1..Len(frames[t]) : n = Len(frames[t])
      BY <2>2
    <3>2. frames[t][n] = Last(frames[t]) /\ frames[t][n].kind = "run"
      BY <2>2, <3>1
    <3>3. t \in escaped \/ (n = 1 /\ frames[t][n].prev = None)
      BY <3>1, <3>2 DEF Bound
    <3> QED BY <3>1, <3>2, <3>3
  <2>4. t \in escaped \/ (current'[t] = None /\ Len(frames'[t]) = 0)
    BY <1>0, <2>1, <2>2, <2>3
  <2>5. \A u \in Threads \ {t} : current'[u] = current[u]
    BY <1>0, <2>1
  <2> QED BY <2>1, <2>2, <2>4, <2>5 DEF Bound
<1>6. ASSUME frames[t] = <<>>, NEW to, serving' = [serving EXCEPT ![t] = to],
             UNCHANGED <<current, frames, escaped>>
      PROVE  Bound'
  <2>1. t \in escaped \/ current[t] = None
    BY <1>6 DEF Bound
  <2>2. \A u \in Threads \ {t} : serving'[u] = serving[u]
    BY <1>0, <1>6
  <2> QED BY <1>6, <2>1, <2>2 DEF Bound
<1>7. CASE Panic(t)
  <2>1. /\ frames' = [frames EXCEPT ![t] = <<>>]
        /\ escaped' = escaped \cup {u \in {t} : \E f \in ToSet(frames[t]) : f.kind = "run"}
        /\ serving' = [serving EXCEPT ![t] = None] /\ UNCHANGED current
    BY <1>7 DEF Panic
  <2>2. /\ frames'[t] = <<>> /\ \A u \in Threads \ {t} : frames'[u] = frames[u]
        /\ \A u \in Threads \ {t} : serving'[u] = serving[u]
    BY <1>0, <2>1
  <2>3. ToSet(frames[t]) = {frames[t][i] : i \in 1..Len(frames[t])}
    BY <1>0 DEF ToSet
  <2>4. t \in escaped' \/ current[t] = None
    <3>1. CASE t \in escaped
      BY <2>1, <3>1
    <3>2. CASE current[t] # None /\ t \notin escaped
      <4>1. frames[t][1].kind = "run" /\ 1 \in 1..Len(frames[t])
        BY <1>0, <3>2 DEF Bound
      <4> QED BY <2>1, <2>3, <4>1
    <3> QED BY <3>1, <3>2
  <2>5. \A i \in 1..Len(<<>>) : FALSE
    OBVIOUS
  <2> QED BY <2>1, <2>2, <2>4, <2>5 DEF Bound
<1>8. ConfigureScope(t) \/ (\E g \in Guards : PushScope(t, g)) \/ (\E r \in Requests : RequestCall(t, r))
        => UNCHANGED <<current, frames, serving, escaped>>
  BY DEF ConfigureScope, PushScope, RequestCall, history
<1>9. \A r \in Requests : Poll(t, r) => /\ frames[t] = <<>> /\ serving' = [serving EXCEPT ![t] = r]
                                      /\ UNCHANGED <<current, frames, escaped>>
  BY DEF Poll, history
<1>10. \A ready \in BOOLEAN : PollEnd(t, ready) =>
         /\ frames[t] = <<>> /\ serving' = [serving EXCEPT ![t] = None]
         /\ UNCHANGED <<current, frames, escaped>>
  BY DEF PollEnd, history
<1> QED BY <1>1, <1>2, <1>3, <1>4, <1>5, <1>6, <1>7, <1>8, <1>9, <1>10 DEF Steps

(* What a step of a thread puts on a hub's stack: its own tags on the hub it *)
(* uses, and what was there; a request's hub is made with what it inherits.  *)
LEMMA Contents ==
  ASSUME TypeInv, NEW t \in Threads, Steps(t)
  PROVE  /\ \A h \in Hubs : \A i \in 1..Len(stack'[h]) :
              \/ i \in 1..Len(stack[h]) /\ stack'[h][i] = stack[h][i]
              \/ /\ i \in 1..Len(stack[h]) /\ h = Hub(t)
                 /\ stack'[h][i] = stack[h][i] \cup {Tag(t, FALSE)}
              \/ /\ i = Len(stack[h]) + 1 /\ Len(stack[h]) \in 1..Len(stack[h]) /\ h = Hub(t)
                 /\ stack'[h][i] \subseteq stack[h][Len(stack[h])] \cup {Tag(t, TRUE)}
              \/ h \in Requests /\ stack[h] = <<>> /\ inherited'[h] = stack'[h][i]
         /\ \A r \in Requests : inherited'[r] = inherited[r] \/ stack[r] = <<>>
<1>0. /\ stack \in [Hubs -> Seq(SUBSET Tags)] /\ inherited \in [Requests -> SUBSET Tags]
      /\ \A h \in Hubs : Len(stack[h]) \in Nat
      /\ Hub(t) \in Hubs /\ stack[Hub(t)] # <<>> /\ stack[Hub(t)] \in Seq(SUBSET Tags)
      /\ Top(Hub(t)) \in SUBSET Tags /\ Tag(t, TRUE) \in Tags
  <2>1. /\ Hub(t) \in Hubs /\ stack[Hub(t)] # <<>> /\ stack[Hub(t)] \in Seq(SUBSET Tags)
        /\ Top(Hub(t)) \in SUBSET Tags /\ Tag(t, TRUE) \in Tags
    BY HubIsMade
  <2>2. stack \in [Hubs -> Seq(SUBSET Tags)] /\ inherited \in [Requests -> SUBSET Tags]
    BY DEF TypeInv, TypeOK
  <2>3. \A h \in Hubs : Len(stack[h]) \in Nat
    BY <2>2
  <2> QED BY <2>1, <2>2, <2>3
<1>1. CASE ConfigureScope(t)
  <2>1. /\ \A g \in Hubs \ {Hub(t)} : stack'[g] = stack[g]
        /\ Len(stack'[Hub(t)]) = Len(stack[Hub(t)])
        /\ \A i \in 1..Len(stack[Hub(t)]) :
             \/ stack'[Hub(t)][i] = stack[Hub(t)][i] \cup {Tag(t, FALSE)}
             \/ stack'[Hub(t)][i] = stack[Hub(t)][i]
    BY <1>1, ConfigureKeeps
  <2>2. UNCHANGED inherited
    BY <1>1 DEF ConfigureScope, history
  <2> QED BY <2>1, <2>2
<1>2. ASSUME NEW scope \in SUBSET Tags, scope \subseteq Top(Hub(t)) \cup {Tag(t, TRUE)},
             Push(Hub(t), scope), UNCHANGED inherited
      PROVE  /\ \A h \in Hubs : \A i \in 1..Len(stack'[h]) :
                  \/ i \in 1..Len(stack[h]) /\ stack'[h][i] = stack[h][i]
                  \/ /\ i = Len(stack[h]) + 1 /\ Len(stack[h]) \in 1..Len(stack[h]) /\ h = Hub(t)
                     /\ stack'[h][i] \subseteq stack[h][Len(stack[h])] \cup {Tag(t, TRUE)}
             /\ \A r \in Requests : inherited'[r] = inherited[r]
  <2>1. /\ \A g \in Hubs \ {Hub(t)} : stack'[g] = stack[g]
        /\ Len(stack[Hub(t)]) \in Nat \ {0} /\ Len(stack'[Hub(t)]) = Len(stack[Hub(t)]) + 1
        /\ \A i \in 1..Len(stack[Hub(t)]) : stack'[Hub(t)][i] = stack[Hub(t)][i]
        /\ stack'[Hub(t)][Len(stack[Hub(t)]) + 1] = scope
    BY <1>0, <1>2, PushKeeps
  <2>2. Top(Hub(t)) = stack[Hub(t)][Len(stack[Hub(t)])]
    BY <1>0, FrontIs DEF Top
  <2>3. \A i \in 1..Len(stack'[Hub(t)]) : i \in 1..Len(stack[Hub(t)]) \/ i = Len(stack[Hub(t)]) + 1
    BY <2>1
  <2>4. Len(stack[Hub(t)]) \in 1..Len(stack[Hub(t)])
    BY <2>1
  <2> QED BY <1>2, <2>1, <2>2, <2>3, <2>4
<1>3. CASE WithScope(t)
  <2>1. Push(Hub(t), Top(Hub(t)) \cup {Tag(t, TRUE)}) /\ UNCHANGED inherited
    BY <1>3 DEF WithScope, history
  <2>2. Top(Hub(t)) \cup {Tag(t, TRUE)} \in SUBSET Tags
    BY <1>0
  <2> QED BY <1>2, <2>1, <2>2
<1>4. ASSUME NEW g \in Guards, PushScope(t, g)
      PROVE  Push(Hub(t), Top(Hub(t))) /\ UNCHANGED inherited
  BY <1>4 DEF PushScope, history
<1>5. CASE WithScopeEnd(t)
  <2>1. Leave(t, "scope") /\ Pop(Last(frames[t]).hub) /\ UNCHANGED inherited
    BY <1>5 DEF WithScopeEnd, history
  <2>2. Last(frames[t]) \in Frames /\ Last(frames[t]).kind = "scope"
    BY <2>1, LeaveKeeps
  <2>3. PICK h \in Hubs : Pop(h)
    BY <2>1, <2>2, FrameKinds
  <2>4. /\ \A g \in Hubs \ {h} : stack'[g] = stack[g]
        /\ Len(stack[h]) \in Nat
        /\ \/ stack'[h] = stack[h]
           \/ /\ Len(stack'[h]) = Len(stack[h]) - 1
              /\ \A i \in 1..(Len(stack[h]) - 1) : stack'[h][i] = stack[h][i]
    BY <2>3, PopKeeps
  <2>5. \A f \in Hubs : \A i \in 1..Len(stack'[f]) :
          i \in 1..Len(stack[f]) /\ stack'[f][i] = stack[f][i]
    BY <2>4
  <2> QED BY <2>1, <2>5
<1>6. ASSUME NEW r \in Requests, RequestCall(t, r)
      PROVE  /\ stack[r] = <<>> /\ stack'[r] = <<Top(Hub(t))>> /\ inherited'[r] = Top(Hub(t))
             /\ \A h \in Hubs \ {r} : stack'[h] = stack[h]
             /\ \A q \in Requests \ {r} : inherited'[q] = inherited[q]
  <2>1. stack[r] = <<>>
    BY <1>6 DEF RequestCall, TypeInv, HubsMade, MadeHubs, Hubs
  <2>2. stack' = [stack EXCEPT ![r] = <<Top(Hub(t))>>] /\ inherited' = [inherited EXCEPT ![r] = Top(Hub(t))]
    BY <1>6 DEF RequestCall
  <2> QED BY <1>0, <2>1, <2>2 DEF Hubs
<1>7. ASSUME NEW r \in Requests, RequestCall(t, r)
      PROVE  /\ \A h \in Hubs : \A i \in 1..Len(stack'[h]) :
                  \/ i \in 1..Len(stack[h]) /\ stack'[h][i] = stack[h][i]
                  \/ h \in Requests /\ stack[h] = <<>> /\ inherited'[h] = stack'[h][i]
             /\ \A q \in Requests : inherited'[q] = inherited[q] \/ stack[q] = <<>>
  BY <1>6, <1>7
<1>8. ASSUME UNCHANGED <<stack, inherited>>
      PROVE  /\ \A h \in Hubs : \A i \in 1..Len(stack'[h]) :
                  i \in 1..Len(stack[h]) /\ stack'[h][i] = stack[h][i]
             /\ \A q \in Requests : inherited'[q] = inherited[q]
  BY <1>8
<1>9. \/ RequestRunEnd(t) \/ Panic(t)
      \/ \E r \in Requests : RequestRun(t, r) \/ Poll(t, r)
      \/ \E ready \in BOOLEAN : PollEnd(t, ready)
      => UNCHANGED <<stack, inherited>>
  BY DEF RequestRunEnd, Panic, RequestRun, Poll, PollEnd, history
<1>10. CASE \E g \in Guards : PushScope(t, g)
  BY <1>0, <1>2, <1>4, <1>10
<1>11. CASE \E r \in Requests : RequestCall(t, r)
  BY <1>7, <1>11
<1>12. CASE UNCHANGED <<stack, inherited>>
  BY <1>8, <1>12
<1> QED BY <1>1, <1>3, <1>5, <1>9, <1>10, <1>11, <1>12 DEF Steps

(* A guard that is dropped leaves what it does not pop *)
LEMMA DropContents ==
  ASSUME TypeInv, NEW g \in Guards, DropScopeGuard(g)
  PROVE  /\ \A h \in Hubs : \A i \in 1..Len(stack'[h]) :
              i \in 1..Len(stack[h]) /\ stack'[h][i] = stack[h][i]
         /\ UNCHANGED <<inherited, escaped, current, frames, serving>>
<1>1. guard[g] \in Hubs /\ Pop(guard[g])
  BY DEF DropScopeGuard, TypeInv, TypeOK
<1>2. PICK h \in Hubs : Pop(h)
  BY <1>1
<1>3. /\ \A f \in Hubs \ {h} : stack'[f] = stack[f]
      /\ Len(stack[h]) \in Nat
      /\ \/ stack'[h] = stack[h]
         \/ /\ Len(stack'[h]) = Len(stack[h]) - 1
            /\ \A i \in 1..(Len(stack[h]) - 1) : stack'[h][i] = stack[h][i]
  BY <1>2, PopKeeps
<1> QED BY <1>3 DEF DropScopeGuard, history

BaseKept == \A tag \in stack[Main][1] : ~tag.temporary

(* What with_scope set for its body never reaches the base of the main hub, *)
(* in whatever order threads return, panic and drop their guards: what is   *)
(* pushed lands above the base, and only configure_scope writes in place.   *)
LEMMA BaseNeverTemporary == Spec => []BaseKept
<1>1. Init => BaseKept
  BY DEF Init, BaseKept, Hubs
<1>2. TypeInv /\ TypeInv' /\ BaseKept /\ [Next]_vars => BaseKept'
  <2>1. ASSUME TypeInv, TypeInv', BaseKept, NEW t \in Threads, Steps(t)
        PROVE  BaseKept'
    <3>1. /\ Main \in Hubs \ Requests /\ stack[Main] # <<>> /\ Len(stack[Main]) \in Nat
          /\ 1 \in 1..Len(stack'[Main])
      <4>1. stack[Main] \in Seq(SUBSET Tags) /\ stack'[Main] \in Seq(SUBSET Tags)
            /\ stack[Main] # <<>> /\ stack'[Main] # <<>> /\ Main \in Hubs \ Requests
        BY <2>1 DEF TypeInv, TypeOK, Hubs
      <4> QED BY <4>1, EmptySeq
    <3>2. \/ stack'[Main][1] = stack[Main][1]
          \/ stack'[Main][1] = stack[Main][1] \cup {Tag(t, FALSE)}
      <4>1. \/ stack'[Main][1] = stack[Main][1]
            \/ stack'[Main][1] = stack[Main][1] \cup {Tag(t, FALSE)}
            \/ 1 = Len(stack[Main]) + 1 /\ Len(stack[Main]) \in 1..Len(stack[Main])
        BY <2>1, <3>1, Contents
      <4>2. PICK n \in Nat : n = Len(stack[Main])
        BY <3>1
      <4>3. ~(1 = n + 1 /\ n \in 1..n)
        OBVIOUS
      <4> QED BY <4>1, <4>2, <4>3
    <3>3. Tag(t, FALSE).temporary = FALSE
      BY DEF Tag
    <3>4. \A tag \in stack'[Main][1] : tag \in stack[Main][1] \/ tag = Tag(t, FALSE)
      BY <3>2
    <3> QED BY <2>1, <3>3, <3>4 DEF BaseKept
  <2>2. ASSUME TypeInv, TypeInv', BaseKept, NEW g \in Guards, DropScopeGuard(g)
        PROVE  BaseKept'
    <3>1. Main \in Hubs /\ 1 \in 1..Len(stack'[Main])
      <4>1. stack'[Main] \in Seq(SUBSET Tags) /\ stack'[Main] # <<>> /\ Main \in Hubs
        BY <2>2 DEF TypeInv, TypeOK, Hubs
      <4> QED BY <4>1, EmptySeq
    <3>2. stack'[Main][1] = stack[Main][1]
      BY <2>2, <3>1, DropContents
    <3> QED BY <2>2, <3>2 DEF BaseKept
  <2>3. ASSUME BaseKept, UNCHANGED vars PROVE BaseKept'
    BY <2>3 DEF vars, BaseKept
  <2> QED BY <2>1, <2>2, <2>3 DEF Next, Steps
<1> QED BY <1>1, <1>2, TypeInvariance, PTL DEF Spec

(* No scope of a request's hub holds a tag that neither the scope it was    *)
(* cloned from nor the request's own code gave it, as long as no panic left  *)
(* Hub::run, which is the one way a thread keeps a hub that is not its own.  *)
THEOREM RequestsKeepApart == Spec => []RequestHubOwn
<1> DEFINE Own == Bound /\ RequestHubOwn
<1>1. Init => Own
  BY DEF Init, Bound, RequestHubOwn, Hubs
<1>2. TypeInv /\ TypeInv' /\ Own /\ [Next]_vars => Own'
  <2>1. ASSUME TypeInv, Own, NEW t \in Threads, Steps(t), escaped' = {},
               NEW r \in Requests, NEW i \in DOMAIN stack'[r], NEW tag \in stack'[r][i],
               stack'[r] \in Seq(SUBSET Tags), stack[r] \in Seq(SUBSET Tags)
        PROVE  tag \in inherited'[r] \/ tag.by = r
    <3>1. escaped = {}
      BY <2>1 DEF Steps, ConfigureScope, WithScope, WithScopeEnd, PushScope, RequestCall,
                  RequestRun, Poll, RequestRunEnd, Panic, PollEnd, history
    <3>2. \A j \in 1..Len(stack[r]) : \A g \in stack[r][j] : g \in inherited[r] \/ g.by = r
      BY <2>1, <3>1 DEF RequestHubOwn
    <3>3. Hub(t) = r => \A b \in BOOLEAN : Tag(t, b).by = r
      <4>1. r # None /\ r # Main
        OBVIOUS
      <4> QED BY <2>1, <3>1, <4>1 DEF Hub, Bound, Tag, Actor
    <3>4. r \in Hubs /\ i \in 1..Len(stack'[r])
      BY <2>1 DEF Hubs
    <3>5. \/ i \in 1..Len(stack[r]) /\ stack'[r][i] = stack[r][i]
          \/ /\ i \in 1..Len(stack[r]) /\ r = Hub(t)
             /\ stack'[r][i] = stack[r][i] \cup {Tag(t, FALSE)}
          \/ /\ i = Len(stack[r]) + 1 /\ Len(stack[r]) \in 1..Len(stack[r]) /\ r = Hub(t)
             /\ stack'[r][i] \subseteq stack[r][Len(stack[r])] \cup {Tag(t, TRUE)}
          \/ stack[r] = <<>> /\ inherited'[r] = stack'[r][i]
      <4>1. \A h \in Hubs : \A j \in 1..Len(stack'[h]) :
              \/ j \in 1..Len(stack[h]) /\ stack'[h][j] = stack[h][j]
              \/ /\ j \in 1..Len(stack[h]) /\ h = Hub(t)
                 /\ stack'[h][j] = stack[h][j] \cup {Tag(t, FALSE)}
              \/ /\ j = Len(stack[h]) + 1 /\ Len(stack[h]) \in 1..Len(stack[h]) /\ h = Hub(t)
                 /\ stack'[h][j] \subseteq stack[h][Len(stack[h])] \cup {Tag(t, TRUE)}
              \/ h \in Requests /\ stack[h] = <<>> /\ inherited'[h] = stack'[h][j]
        BY <2>1, Contents
      <4> QED BY <3>4, <4>1
    <3>6. inherited'[r] = inherited[r] \/ stack[r] = <<>>
      BY <2>1, Contents
    <3>7. stack[r] = <<>> => 1..Len(stack[r]) = {}
      BY <2>1
    <3> QED BY <2>1, <3>2, <3>3, <3>5, <3>6, <3>7
  <2>2. ASSUME TypeInv, TypeInv', Own, NEW t \in Threads, Steps(t) PROVE Own'
    <3>1. \A r \in Requests : stack[r] \in Seq(SUBSET Tags) /\ stack'[r] \in Seq(SUBSET Tags)
      BY <2>2 DEF TypeInv, TypeOK, Hubs
    <3>2. RequestHubOwn'
      BY <2>1, <2>2, <3>1 DEF RequestHubOwn
    <3> QED BY <2>2, <3>2, BoundStep
  <2>3. ASSUME TypeInv, TypeInv', Own, NEW g \in Guards, DropScopeGuard(g) PROVE Own'
    <3>1. /\ \A h \in Requests : \A i \in 1..Len(stack'[h]) :
                i \in 1..Len(stack[h]) /\ stack'[h][i] = stack[h][i]
          /\ UNCHANGED <<inherited, escaped, current, frames, serving>>
      BY <2>3, DropContents DEF Hubs
    <3>2. \A r \in Requests : DOMAIN stack[r] = 1..Len(stack[r]) /\ DOMAIN stack'[r] = 1..Len(stack'[r])
      <4>1. \A r \in Requests : stack[r] \in Seq(SUBSET Tags) /\ stack'[r] \in Seq(SUBSET Tags)
        BY <2>3 DEF TypeInv, TypeOK, Hubs
      <4> QED BY <4>1
    <3>3. RequestHubOwn'
      BY <2>3, <3>1, <3>2 DEF RequestHubOwn
    <3> QED BY <2>3, <3>1, <3>3 DEF Bound
  <2>4. ASSUME Own, UNCHANGED vars PROVE Own'
    BY <2>4 DEF vars, history, Bound, RequestHubOwn
  <2> QED BY <2>2, <2>3, <2>4 DEF Next, Steps
<1>3. Own => RequestHubOwn
  OBVIOUS
<1> QED BY <1>1, <1>2, <1>3, TypeInvariance, PTL DEF Spec

-----------------------------------------------------------------------------
(* How deep a stack is *)

One(b) == IF b THEN 1 ELSE 0

(* One body more, or as many, when a call is entered *)
LEMMA BodyEntered ==
  ASSUME TypeInv, NEW t \in Threads, NEW frame \in Frames, Enter(t, frame), NEW h \in Hubs
  PROVE  Cardinality(OpenBodies(Threads, h))'
           = Cardinality(OpenBodies(Threads, h)) + One(frame.kind = "scope" /\ frame.hub = h)
<1> DEFINE B == OpenBodies(Threads, h)
           n == Len(frames[t]) + 1
<1>1. /\ \A u \in Threads \ {t} : frames'[u] = frames[u]
      /\ Len(frames'[t]) = n /\ Len(frames[t]) \in Nat
      /\ \A i \in 1..Len(frames[t]) : frames'[t][i] = frames[t][i]
      /\ frames'[t][n] = frame
  BY EnterKeeps
<1>2. n \in 1..MaxFrames
  BY <1>1 DEF Enter
<1>3. /\ \A u \in Threads : \A i \in 1..MaxFrames :
           <<u, i>> \in B <=> i <= Len(frames[u]) /\ frames[u][i].kind = "scope" /\ frames[u][i].hub = h
      /\ \A u \in Threads : \A i \in 1..MaxFrames :
           <<u, i>> \in B' <=> i <= Len(frames'[u]) /\ frames'[u][i].kind = "scope" /\ frames'[u][i].hub = h
      /\ \A p \in B \cup B' : \E u \in Threads : \E i \in 1..MaxFrames : p = <<u, i>>
  BY DEF OpenBodies
<1>4. IsFiniteSet(B) /\ Cardinality(B) \in Nat
  BY OpenBodiesFinite
<1> HIDE DEF B
<1>5. <<t, n>> \notin B
  BY <1>1, <1>2, <1>3
<1>6. ASSUME NEW u \in Threads, NEW i \in 1..MaxFrames
      PROVE  <<u, i>> \in B' <=>
               (<<u, i>> \in B \/ (u = t /\ i = n /\ frame.kind = "scope" /\ frame.hub = h))
  <2>1. CASE u # t
    BY <1>1, <1>3, <2>1
  <2>2. CASE u = t /\ i = n
    BY <1>1, <1>2, <1>3, <1>5, <2>2
  <2>3. CASE u = t /\ i # n
    <3>1. i <= Len(frames'[t]) <=> i <= Len(frames[t])
      BY <1>1, <2>3
    <3>2. i <= Len(frames[t]) => frames'[t][i] = frames[t][i]
      BY <1>1
    <3> QED BY <1>3, <2>3, <3>1, <3>2
  <2> QED BY <2>1, <2>2, <2>3
<1> DEFINE Entered == Cardinality(B') = Cardinality(B) + One(frame.kind = "scope" /\ frame.hub = h)
<1>7. ASSUME frame.kind = "scope" /\ frame.hub = h PROVE Entered
  <2>1. B' = B \cup {<<t, n>>}
    <3>1. <<t, n>> \in B'
      BY <1>2, <1>6, <1>7
    <3>2. B \subseteq B'
      BY <1>3, <1>6
    <3>3. B' \subseteq B \cup {<<t, n>>}
      BY <1>3, <1>6
    <3> QED BY <3>1, <3>2, <3>3
  <2>2. Cardinality(B \cup {<<t, n>>}) = Cardinality(B) + 1
    BY <1>4, <1>5, FS_AddElement
  <2> QED BY <1>7, <2>1, <2>2 DEF One
<1>8. ASSUME ~(frame.kind = "scope" /\ frame.hub = h) PROVE Entered
  <2>1. \A u \in Threads : \A i \in 1..MaxFrames : <<u, i>> \in B' <=> <<u, i>> \in B
    BY <1>6, <1>8
  <2>2. B' \subseteq B /\ B \subseteq B'
    BY <1>3, <2>1
  <2>3. B' = B
    BY <2>2
  <2> QED BY <1>4, <1>8, <2>3 DEF One
<1>9. Entered
  BY <1>7, <1>8
<1> QED BY <1>9 DEF B

(* One body less, or as many, when the last call returns *)
LEMMA BodyLeft ==
  ASSUME TypeInv, NEW t \in Threads, NEW kind, Leave(t, kind), NEW h \in Hubs
  PROVE  LET frame == Last(frames[t])
         IN  /\ Cardinality(OpenBodies(Threads, h))' \in Nat
             /\ Cardinality(OpenBodies(Threads, h))'
                  = Cardinality(OpenBodies(Threads, h)) - One(frame.kind = "scope" /\ frame.hub = h)
<1> DEFINE B == OpenBodies(Threads, h)
           n == Len(frames[t])
           frame == Last(frames[t])
<1>1. /\ \A u \in Threads \ {t} : frames'[u] = frames[u]
      /\ Len(frames'[t]) = n - 1 /\ n \in Nat \ {0}
      /\ \A i \in 1..(n - 1) : frames'[t][i] = frames[t][i]
      /\ frames[t][n] = frame
  BY LeaveKeeps
<1>2. n \in 1..MaxFrames
  BY <1>1 DEF TypeInv, TypeOK
<1>3. /\ \A u \in Threads : \A i \in 1..MaxFrames :
           <<u, i>> \in B <=> i <= Len(frames[u]) /\ frames[u][i].kind = "scope" /\ frames[u][i].hub = h
      /\ \A u \in Threads : \A i \in 1..MaxFrames :
           <<u, i>> \in B' <=> i <= Len(frames'[u]) /\ frames'[u][i].kind = "scope" /\ frames'[u][i].hub = h
      /\ \A p \in B \cup B' : \E u \in Threads : \E i \in 1..MaxFrames : p = <<u, i>>
  BY DEF OpenBodies
<1>4. IsFiniteSet(B) /\ Cardinality(B) \in Nat
  BY OpenBodiesFinite
<1> HIDE DEF B, frame
<1>5. <<t, n>> \notin B'
  BY <1>1, <1>2, <1>3
<1>6. ASSUME NEW u \in Threads, NEW i \in 1..MaxFrames
      PROVE  <<u, i>> \in B <=>
               (<<u, i>> \in B' \/ (u = t /\ i = n /\ frame.kind = "scope" /\ frame.hub = h))
  <2>1. CASE u # t
    BY <1>1, <1>3, <2>1
  <2>2. CASE u = t /\ i = n
    BY <1>1, <1>2, <1>3, <1>5, <2>2
  <2>3. CASE u = t /\ i # n
    <3>1. i <= Len(frames'[t]) <=> i <= Len(frames[t])
      BY <1>1, <2>3
    <3>2. i <= Len(frames'[t]) => frames'[t][i] = frames[t][i]
      BY <1>1
    <3> QED BY <1>3, <2>3, <3>1, <3>2
  <2> QED BY <2>1, <2>2, <2>3
<1>7. CASE frame.kind = "scope" /\ frame.hub = h
  <2>1. B' = B \ {<<t, n>>} /\ <<t, n>> \in B
    BY <1>2, <1>3, <1>5, <1>6, <1>7
  <2>2. Cardinality(B \ {<<t, n>>}) = Cardinality(B) - 1 /\ IsFiniteSet(B \ {<<t, n>>})
    BY <1>4, <2>1, FS_RemoveElement
  <2>3. Cardinality(B \ {<<t, n>>}) \in Nat
    BY <2>2, FS_CardinalityType
  <2> QED BY <1>7, <2>1, <2>2, <2>3 DEF B, One, frame
<1>8. CASE ~(frame.kind = "scope" /\ frame.hub = h)
  <2>1. B' = B
    <3>1. \A u \in Threads : \A i \in 1..MaxFrames : <<u, i>> \in B <=> <<u, i>> \in B'
      BY <1>6, <1>8
    <3>2. \A p : p \in B <=> p \in B'
      BY <1>3, <3>1
    <3> QED BY <3>2
  <2> QED BY <1>4, <1>8, <2>1 DEF B, One, frame
<1> QED BY <1>7, <1>8 DEF frame

(* The bodies a panic unwinds are those that are not open any more *)
LEMMA BodiesUnwound ==
  ASSUME TypeInv, NEW t \in Threads, frames' = [frames EXCEPT ![t] = <<>>], NEW h \in Hubs
  PROVE  Cardinality(OpenBodies(Threads, h))'
           = Cardinality(OpenBodies(Threads, h)) - Cardinality(OpenBodies({t}, h))
<1> DEFINE B == OpenBodies(Threads, h)
           P == OpenBodies({t}, h)
<1>1. /\ \A u \in Threads \ {t} : frames'[u] = frames[u]
      /\ Len(frames'[t]) = 0
  BY DEF TypeInv, TypeOK
<1>2. /\ \A u \in Threads : \A i \in 1..MaxFrames :
           <<u, i>> \in B <=> i <= Len(frames[u]) /\ frames[u][i].kind = "scope" /\ frames[u][i].hub = h
      /\ \A u \in Threads : \A i \in 1..MaxFrames :
           <<u, i>> \in B' <=> i <= Len(frames'[u]) /\ frames'[u][i].kind = "scope" /\ frames'[u][i].hub = h
      /\ \A u \in Threads : \A i \in 1..MaxFrames :
           <<u, i>> \in P <=> u = t /\ <<u, i>> \in B
      /\ \A p \in B \cup B' \cup P : \E u \in Threads : \E i \in 1..MaxFrames : p = <<u, i>>
  BY DEF OpenBodies
<1>3. IsFiniteSet(B) /\ Cardinality(B) \in Nat /\ IsFiniteSet(P) /\ Cardinality(P) \in Nat
  BY OpenBodiesFinite
<1> HIDE DEF B, P
<1>4. ASSUME NEW u \in Threads, NEW i \in 1..MaxFrames
      PROVE  <<u, i>> \in B' <=> <<u, i>> \in B /\ <<u, i>> \notin P
  <2>1. CASE u # t
    BY <1>1, <1>2, <2>1
  <2>2. CASE u = t
    <3>1. ~(i <= Len(frames'[t]))
      BY <1>1
    <3> QED BY <1>2, <2>2, <3>1
  <2> QED BY <2>1, <2>2
<1>5. B = B' \cup P /\ B' \cap P = {} /\ B' \subseteq B
  BY <1>2, <1>4
<1>6. IsFiniteSet(B') /\ Cardinality(B') \in Nat
  BY <1>3, <1>5, FS_Subset, FS_CardinalityType
<1>7. Cardinality(B' \cup P) = Cardinality(B') + Cardinality(P) - Cardinality({})
  BY <1>3, <1>5, <1>6, FS_Union
<1>8. Cardinality({}) = 0
  BY FS_EmptySet
<1>9. Cardinality(B') = Cardinality(B) - Cardinality(P)
  BY <1>3, <1>5, <1>6, <1>7, <1>8
<1> QED BY <1>9 DEF B, P

LEMMA OpenGuardsFinite ==
  ASSUME NEW h
  PROVE  IsFiniteSet(OpenGuards(h)) /\ Cardinality(OpenGuards(h)) \in Nat
<1>1. IsFiniteSet(Guards) /\ OpenGuards(h) \subseteq Guards
  BY DEF OpenGuards
<1> QED BY <1>1, FS_Subset, FS_CardinalityType

LEMMA GuardTaken ==
  ASSUME TypeInv, NEW g \in Guards, NEW hub \in Hubs, guard[g] = None,
         guard' = [guard EXCEPT ![g] = hub], NEW h \in Hubs
  PROVE  Cardinality(OpenGuards(h))' = Cardinality(OpenGuards(h)) + One(hub = h)
<1> DEFINE G == OpenGuards(h)
<1>1. guard \in [Guards -> Hubs \cup {None}] /\ h # None
  BY DEF TypeInv, TypeOK, Hubs
<1>2. IsFiniteSet(G) /\ Cardinality(G) \in Nat
  BY OpenGuardsFinite
<1>3. CASE hub = h
  <2>1. G' = G \cup {g} /\ g \notin G
    BY <1>1, <1>3 DEF OpenGuards
  <2>2. Cardinality(G \cup {g}) = Cardinality(G) + 1
    BY <1>2, <2>1, FS_AddElement
  <2> QED BY <1>3, <2>1, <2>2 DEF One
<1>4. CASE hub # h
  <2>1. G' = G
    BY <1>1, <1>4 DEF OpenGuards
  <2> QED BY <1>2, <1>4, <2>1 DEF One
<1> QED BY <1>3, <1>4

LEMMA GuardDropped ==
  ASSUME TypeInv, NEW g \in Guards, guard[g] # None,
         guard' = [guard EXCEPT ![g] = None], NEW h \in Hubs
  PROVE  /\ Cardinality(OpenGuards(h))' = Cardinality(OpenGuards(h)) - One(guard[g] = h)
         /\ Cardinality(OpenGuards(h))' \in Nat
<1> DEFINE G == OpenGuards(h)
<1>1. guard \in [Guards -> Hubs \cup {None}] /\ h # None
  BY DEF TypeInv, TypeOK, Hubs
<1>2. IsFiniteSet(G) /\ Cardinality(G) \in Nat
  BY OpenGuardsFinite
<1>3. CASE guard[g] = h
  <2>1. G' = G \ {g} /\ g \in G
    BY <1>1, <1>3 DEF OpenGuards
  <2>2. Cardinality(G \ {g}) = Cardinality(G) - 1 /\ IsFiniteSet(G \ {g})
    BY <1>2, <2>1, FS_RemoveElement
  <2>3. Cardinality(G \ {g}) \in Nat
    BY <2>2, FS_CardinalityType
  <2> QED BY <1>3, <2>1, <2>2, <2>3 DEF One
<1>4. CASE guard[g] # h
  <2>1. G' = G
    BY <1>1, <1>4 DEF OpenGuards
  <2> QED BY <1>2, <1>4, <2>1 DEF One
<1> QED BY <1>3, <1>4

(* A stack is as deep as its hub's users hold it, so that a pop by one of   *)
(* them never takes the base.                                               *)
LEMMA DepthStep ==
  ASSUME TypeInv, DepthMatches, NEW t \in Threads, Steps(t)
  PROVE  DepthMatches'
<1>1. SUFFICES ASSUME NEW h \in Hubs, stack'[h] # <<>>
               PROVE  Len(stack'[h]) = 1 + Cardinality(OpenBodies(Threads, h))'
                                         + Cardinality(OpenGuards(h))' + leaked'[h]
  BY DEF DepthMatches
<1> DEFINE bodies == Cardinality(OpenBodies(Threads, h))
           held == Cardinality(OpenGuards(h))
           deep == Len(stack'[h]) = 1 + bodies' + held' + leaked'[h]
<1>0. /\ stack[h] \in Seq(SUBSET Tags) /\ Len(stack[h]) \in Nat /\ leaked[h] \in Nat
      /\ bodies \in Nat /\ held \in Nat
      /\ stack[h] # <<>> => Len(stack[h]) = 1 + bodies + held + leaked[h]
  <2>1. stack[h] \in Seq(SUBSET Tags) /\ leaked[h] \in Nat
    BY DEF TypeInv, TypeOK
  <2>2. bodies \in Nat /\ held \in Nat
    BY OpenBodiesFinite, OpenGuardsFinite
  <2>3. stack[h] # <<>> => Len(stack[h]) = 1 + bodies + held + leaked[h]
    BY DEF DepthMatches
  <2> QED BY <2>1, <2>2, <2>3
<1>2. frames' = frames => bodies' = bodies
  BY DEF OpenBodies
<1>3. guard' = guard => held' = held
  BY DEF OpenGuards
<1>4. leaked' = leaked => leaked'[h] = leaked[h]
  OBVIOUS
<1> SUFFICES deep
  OBVIOUS
<1> HIDE DEF bodies, held
<1>5. CASE ConfigureScope(t)
  <2>1. (stack[h] = <<>> <=> stack'[h] = <<>>) /\ Len(stack'[h]) = Len(stack[h])
    BY <1>5, ConfigureKeeps
  <2>2. UNCHANGED <<frames, guard, leaked>>
    BY <1>5 DEF ConfigureScope, history
  <2> QED BY <1>0, <1>1, <1>2, <1>3, <1>4, <2>1, <2>2
<1>6. CASE WithScope(t)
  <2>1. /\ Enter(t, [kind |-> "scope", hub |-> Hub(t)])
        /\ Push(Hub(t), Top(Hub(t)) \cup {Tag(t, TRUE)})
        /\ UNCHANGED <<guard, leaked>>
    BY <1>6 DEF WithScope, history
  <2>2. /\ Hub(t) \in Hubs /\ stack[Hub(t)] # <<>>
        /\ Top(Hub(t)) \cup {Tag(t, TRUE)} \in SUBSET Tags
    BY HubIsMade
  <2>3. /\ stack[h] = <<>> <=> stack'[h] = <<>>
        /\ Len(stack'[h]) = Len(stack[h]) + One(Hub(t) = h)
    <3>1. /\ \A g \in Hubs : stack[g] = <<>> <=> stack'[g] = <<>>
          /\ \A g \in Hubs \ {Hub(t)} : stack'[g] = stack[g]
          /\ Len(stack'[Hub(t)]) = Len(stack[Hub(t)]) + 1
      BY <2>1, <2>2, PushKeeps
    <3>2. CASE Hub(t) = h
      BY <3>1, <3>2 DEF One
    <3>3. CASE Hub(t) # h
      BY <1>0, <3>1, <3>3 DEF One
    <3> QED BY <3>2, <3>3
  <2> DEFINE frame == [kind |-> "scope", hub |-> Hub(t)]
  <2>4. frame \in Frames /\ frame.kind = "scope" /\ frame.hub = Hub(t)
    BY <2>2, ScopeFrame
  <2> HIDE DEF frame
  <2>5. bodies' = bodies + One(frame.kind = "scope" /\ frame.hub = h)
    BY <2>1, <2>4, BodyEntered DEF frame, bodies
  <2>6. bodies' = bodies + One(Hub(t) = h) /\ One(Hub(t) = h) \in {0, 1}
    BY <2>4, <2>5 DEF One
  <2> QED BY <1>0, <1>1, <1>3, <1>4, <2>1, <2>3, <2>6
<1>7. CASE WithScopeEnd(t)
  <2>1. Leave(t, "scope") /\ Pop(Last(frames[t]).hub) /\ UNCHANGED <<guard, leaked>>
    BY <1>7 DEF WithScopeEnd, history
  <2> DEFINE frame == Last(frames[t])
  <2>2. frame \in Frames /\ frame.kind = "scope" /\ frame.hub \in Hubs
    BY <2>1, LeaveKeeps, FrameKinds
  <2>3. bodies' \in Nat /\ bodies' = bodies - One(frame.kind = "scope" /\ frame.hub = h)
    BY <2>1, BodyLeft DEF bodies
  <2>4. stack[h] = <<>> <=> stack'[h] = <<>>
    BY <2>1, <2>2, PopKeeps
  <2>5. CASE frame.hub = h
    <3>1. Len(stack[h]) > 1
      BY <1>0, <1>1, <2>2, <2>3, <2>4, <2>5 DEF One
    <3>2. Len(stack'[h]) = Len(stack[h]) - 1
      <4>1. PICK k \in Hubs : k = Last(frames[t]).hub
        BY <2>2
      <4>2. Pop(k) /\ k = h
        BY <2>1, <2>5, <4>1
      <4> QED BY <3>1, <4>2, PopKeeps
    <3>3. stack[h] # <<>> /\ held' = held /\ leaked'[h] = leaked[h]
      BY <1>1, <1>3, <1>4, <2>1, <2>4
    <3>4. One(frame.kind = "scope" /\ frame.hub = h) = 1
      BY <2>2, <2>5 DEF One
    <3>5. Len(stack[h]) = 1 + bodies + held + leaked[h]
      BY <1>0, <3>3
    <3> HIDE DEF frame
    <3> QED BY <1>0, <2>3, <3>2, <3>3, <3>4, <3>5
  <2>6. CASE frame.hub # h
    <3>1. stack'[h] = stack[h]
      BY <2>1, <2>2, <2>6, PopKeeps
    <3> QED BY <1>0, <1>1, <1>3, <1>4, <2>1, <2>3, <2>6, <3>1 DEF One
  <2> QED BY <2>5, <2>6
<1>8. ASSUME NEW g \in Guards, PushScope(t, g) PROVE deep
  <2>1. /\ guard[g] = None /\ guard' = [guard EXCEPT ![g] = Hub(t)]
        /\ Push(Hub(t), Top(Hub(t))) /\ UNCHANGED <<frames, leaked>>
    BY <1>8 DEF PushScope, history
  <2>2. Hub(t) \in Hubs /\ stack[Hub(t)] # <<>> /\ Top(Hub(t)) \in SUBSET Tags
    BY HubIsMade
  <2>3. /\ stack[h] = <<>> <=> stack'[h] = <<>>
        /\ Len(stack'[h]) = Len(stack[h]) + One(Hub(t) = h)
    <3>1. /\ \A k \in Hubs : stack[k] = <<>> <=> stack'[k] = <<>>
          /\ \A k \in Hubs \ {Hub(t)} : stack'[k] = stack[k]
          /\ Len(stack'[Hub(t)]) = Len(stack[Hub(t)]) + 1
      BY <2>1, <2>2, PushKeeps
    <3>2. CASE Hub(t) = h
      BY <3>1, <3>2 DEF One
    <3>3. CASE Hub(t) # h
      BY <1>0, <3>1, <3>3 DEF One
    <3> QED BY <3>2, <3>3
  <2>4. held' = held + One(Hub(t) = h)
    <3>1. PICK hub \in Hubs : hub = Hub(t)
      BY <2>2
    <3>2. guard[g] = None /\ guard' = [guard EXCEPT ![g] = hub]
      BY <2>1, <3>1
    <3>3. held' = held + One(hub = h)
      BY <3>2, GuardTaken DEF held, One
    <3> QED BY <3>1, <3>3
  <2>5. PICK one \in {0, 1} : one = One(Hub(t) = h)
    BY DEF One
  <2>6. stack[h] # <<>> /\ bodies' = bodies /\ leaked'[h] = leaked[h]
    BY <1>1, <1>2, <1>4, <2>1, <2>3
  <2>7. Len(stack[h]) = 1 + bodies + held + leaked[h]
    BY <1>0, <2>6
  <2> QED BY <1>0, <2>3, <2>4, <2>5, <2>6, <2>7
<1>9. ASSUME NEW r \in Requests, RequestCall(t, r) PROVE deep
  <2>1. /\ request[r] = "none" /\ stack' = [stack EXCEPT ![r] = <<Top(Hub(t))>>]
        /\ UNCHANGED <<frames, guard, leaked>>
    BY <1>9 DEF RequestCall
  <2>2. stack \in [Hubs -> Seq(SUBSET Tags)] /\ r \in Hubs
    BY DEF TypeInv, TypeOK, Hubs
  <2>3. CASE h = r
    <3>1. r \in Hubs \ MadeHubs
      BY <2>1, <2>2 DEF TypeInv, HubsMade
    <3>2. OpenBodies(Threads, r) = {}
      BY <3>1 DEF OpenBodies, TypeInv, HubsMade, FramesMade, FrameMade
    <3>3. OpenGuards(r) = {} /\ leaked[r] = 0
      BY <3>1 DEF OpenGuards, TypeInv, HubsMade, Hubs
    <3>4. bodies = 0 /\ held = 0
      BY <2>3, <3>2, <3>3, FS_EmptySet DEF bodies, held
    <3>5. Len(stack'[h]) = 1
      BY <2>1, <2>2, <2>3
    <3> QED BY <1>2, <1>3, <1>4, <2>1, <2>3, <3>3, <3>4, <3>5
  <2>4. CASE h # r
    <3>1. stack'[h] = stack[h]
      BY <2>1, <2>2, <2>4
    <3> QED BY <1>0, <1>1, <1>2, <1>3, <1>4, <2>1, <3>1
  <2> QED BY <2>3, <2>4
<1>10. ASSUME NEW r \in Requests, RequestRun(t, r) PROVE deep
  <2>1. Enter(t, [kind |-> "run", prev |-> current[t]]) /\ UNCHANGED <<stack, guard, leaked>>
    BY <1>10 DEF RequestRun, history
  <2> DEFINE frame == [kind |-> "run", prev |-> current[t]]
  <2>2. frame \in Frames /\ frame.kind = "run"
    BY DEF TypeInv, TypeOK, Frames
  <2> HIDE DEF frame
  <2>3. bodies' = bodies + One(frame.kind = "scope" /\ frame.hub = h)
    BY <2>1, <2>2, BodyEntered DEF frame, bodies
  <2> QED BY <1>0, <1>1, <1>3, <1>4, <2>1, <2>2, <2>3 DEF One
<1>11. CASE RequestRunEnd(t)
  <2>1. Leave(t, "run") /\ UNCHANGED <<stack, guard, leaked>>
    BY <1>11 DEF RequestRunEnd, history
  <2> DEFINE frame == Last(frames[t])
  <2>2. frame.kind = "run"
    BY <2>1, LeaveKeeps
  <2>3. bodies' = bodies - One(frame.kind = "scope" /\ frame.hub = h)
    BY <2>1, BodyLeft DEF bodies
  <2> QED BY <1>0, <1>1, <1>3, <1>4, <2>1, <2>2, <2>3 DEF One
<1>12. CASE Panic(t)
  <2>1. /\ frames' = [frames EXCEPT ![t] = <<>>]
        /\ leaked' = [g \in Hubs |-> leaked[g] + Cardinality(OpenBodies({t}, g))]
        /\ UNCHANGED <<stack, guard>>
    BY <1>12 DEF Panic
  <2>2. Cardinality(OpenBodies({t}, h)) \in Nat
    BY OpenBodiesFinite
  <2>3. bodies' = bodies - Cardinality(OpenBodies({t}, h))
    BY <2>1, BodiesUnwound DEF bodies
  <2>4. leaked'[h] = leaked[h] + Cardinality(OpenBodies({t}, h))
    BY <2>1
  <2> QED BY <1>0, <1>1, <1>3, <2>1, <2>2, <2>3, <2>4
<1>13. ASSUME UNCHANGED <<stack, frames, guard, leaked>> PROVE deep
  BY <1>0, <1>1, <1>2, <1>3, <1>13
<1>14. \/ \E r \in Requests : Poll(t, r)
       \/ \E ready \in BOOLEAN : PollEnd(t, ready)
       => UNCHANGED <<stack, frames, guard, leaked>>
  BY DEF Poll, PollEnd, history
<1> QED BY <1>5, <1>6, <1>7, <1>8, <1>9, <1>10, <1>11, <1>12, <1>13, <1>14 DEF Steps

(* A hub's stack holds its base, one scope for every body and every guard   *)
(* open on it and those panics left behind: whatever the order in which     *)
(* threads return and drop their guards, a pop never takes a scope that     *)
(* nobody gave up.                                                          *)
THEOREM StacksMatch == Spec => []DepthMatches
<1>1. Init => DepthMatches
  <2>1. ASSUME Init, NEW h \in Hubs, stack[h] # <<>>
        PROVE  Len(stack[h])
                 = 1 + Cardinality(OpenBodies(Threads, h)) + Cardinality(OpenGuards(h)) + leaked[h]
    <3>1. Len(stack[h]) = 1 /\ leaked[h] = 0
      BY <2>1 DEF Init
    <3>2. OpenGuards(h) = {}
      BY <2>1 DEF Init, OpenGuards, Hubs
    <3>3. OpenBodies(Threads, h) = {}
      BY <2>1 DEF Init, OpenBodies
    <3> QED BY <3>1, <3>2, <3>3, FS_EmptySet
  <2> QED BY <2>1 DEF DepthMatches
<1>2. TypeInv /\ DepthMatches /\ [Next]_vars => DepthMatches'
  <2>1. ASSUME TypeInv, DepthMatches, NEW g \in Guards, DropScopeGuard(g), NEW h \in Hubs,
               stack'[h] # <<>>
        PROVE  Len(stack'[h]) = 1 + Cardinality(OpenBodies(Threads, h))'
                                  + Cardinality(OpenGuards(h))' + leaked'[h]
    <3>1. /\ guard[g] # None /\ Pop(guard[g]) /\ guard' = [guard EXCEPT ![g] = None]
          /\ UNCHANGED <<frames, leaked>>
      BY <2>1 DEF DropScopeGuard, history
    <3>2. guard[g] \in Hubs /\ leaked[h] \in Nat
      BY <2>1, <3>1 DEF TypeInv, TypeOK
    <3> DEFINE bodies == Cardinality(OpenBodies(Threads, h))
               held == Cardinality(OpenGuards(h))
    <3>3. bodies \in Nat /\ held \in Nat
      BY OpenBodiesFinite, OpenGuardsFinite
    <3>4. bodies' = bodies
      BY <3>1 DEF OpenBodies
    <3>5. held' = held - One(guard[g] = h) /\ held' \in Nat
      BY <2>1, <3>1, GuardDropped
    <3>6. (stack[h] = <<>> <=> stack'[h] = <<>>) /\ (guard[g] # h => stack'[h] = stack[h])
      BY <2>1, <3>1, <3>2, PopKeeps
    <3>7. Len(stack[h]) = 1 + bodies + held + leaked[h]
      BY <2>1, <3>6 DEF DepthMatches
    <3> HIDE DEF bodies, held
    <3>8. CASE guard[g] = h
      <4>1. Len(stack[h]) > 1
        BY <3>2, <3>3, <3>5, <3>7, <3>8 DEF One
      <4>2. Len(stack'[h]) = Len(stack[h]) - 1
        BY <2>1, <3>1, <3>8, <4>1, PopKeeps
      <4> QED BY <3>1, <3>2, <3>3, <3>4, <3>5, <3>7, <3>8, <4>2 DEF One, bodies, held
    <3>9. CASE guard[g] # h
      BY <3>1, <3>2, <3>3, <3>4, <3>5, <3>6, <3>7, <3>9 DEF One, bodies, held
    <3> QED BY <3>8, <3>9
  <2>2. ASSUME DepthMatches, UNCHANGED vars PROVE DepthMatches'
    BY <2>2 DEF vars, history, DepthMatches, OpenBodies, OpenGuards
  <2> QED BY <2>1, <2>2, DepthStep DEF Next, Steps, DepthMatches
<1> QED BY <1>1, <1>2, TypeInvariance, PTL DEF Spec

(* What with_scope set never reaches the main hub's base scope, and the base *)
(* is the whole stack once all bodies have returned, all guards are dropped  *)
(* and no panic left a scope behind.                                         *)
THEOREM TemporaryGone == Spec => []TemporaryNeverSticks
<1>1. TypeInv /\ BaseKept /\ DepthMatches => TemporaryNeverSticks
  <2> SUFFICES ASSUME TypeInv, BaseKept, DepthMatches, NEW i \in DOMAIN stack[Main],
                      i = 1 \/ Quiet(Main), NEW tag \in stack[Main][i]
               PROVE  ~tag.temporary
    BY DEF TemporaryNeverSticks
  <2>1. stack[Main] \in Seq(SUBSET Tags) /\ stack[Main] # <<>> /\ Main \in Hubs
    BY DEF TypeInv, TypeOK, Hubs
  <2>2. CASE Quiet(Main)
    <3>1. Cardinality(OpenBodies(Threads, Main)) = 0 /\ Cardinality(OpenGuards(Main)) = 0
          /\ leaked[Main] = 0
      BY <2>2, FS_EmptySet DEF Quiet
    <3>2. Len(stack[Main]) = 1
      <4>1. Len(stack[Main]) = 1 + Cardinality(OpenBodies(Threads, Main))
                                 + Cardinality(OpenGuards(Main)) + leaked[Main]
        BY <2>1 DEF DepthMatches
      <4>2. Len(stack[Main]) = 1 + 0 + 0 + 0
        BY <3>1, <4>1
      <4> QED BY <4>2
    <3>3. i = 1
      BY <2>1, <3>2
    <3> QED BY <3>3 DEF BaseKept
  <2>3. CASE i = 1
    BY <2>3 DEF BaseKept
  <2> QED BY <2>2, <2>3
<1> QED BY <1>1, TypeInvariance, BaseNeverTemporary, StacksMatch, PTL
=============================================================================
