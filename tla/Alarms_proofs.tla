---------------------------- MODULE Alarms_proofs ----------------------------
(***************************************************************************)
(* Proofs of the properties of Alarms for every number of drives, codes,   *)
(* panels, calls of RunCodeFile and generations of pollers, every budget   *)
(* of events and every capacity of the input channel.                      *)
(*                                                                         *)
(* GateShut follows from Standing, which looks at the cache and not at the *)
(* gate; AlarmHasOwner from Owned, which adds that what is cached while    *)
(* nobody watches is late; NobodyMisses from Lists, the list of clients as *)
(* long as nothing disturbed it, and Reaches, which follows a panel from   *)
(* the load of the cached alarm on.  One lemma for each action, and in it  *)
(* one step for each part of IInv that the action can disturb.             *)
(***************************************************************************)
EXTENDS Alarms, SequenceTheorems, TLAPS

(* A report that no other clear overwrote keeps the cache from "No Alarms". *)
Standing ==
  \A d \in Drives : Reported(d) /\ d \notin wiped => cached # Clear

(* A poller that is about to report, or to take a report back, has one.     *)
Remembers ==
  \A p \in Pollers :
    poller[p] \in {"report", "send", "recover"} => last[p] # Clear

(* A cached error has its owner; where nobody watches it came late.         *)
Owned ==
  /\ AlarmHasOwner
  /\ ~ watching
       /\ resetting \notin {"tell", "fault", "cleared", "kept", "done",
                            "failed"}
     => cached \notin Codes \/ late

(* As long as no panel has left and no two changes of the list met, every   *)
(* panel that was put into the list is in it, and is passed over by nobody. *)
Lists ==
  ~ disturbed =>
    /\ torn = {}
    /\ \A c \in Clients :
         /\ link[c] # "leaving"
         /\ link[c] \in {"added", "loaded", "on"} => c \in listed
         /\ link[c] \in {"loaded", "on"} => c \notin skipped

(* From the load of the cached alarm on, a panel holds it, has received it, *)
(* will receive it, or was passed over.                                     *)
Reaches ==
  \A c \in Clients :
    \/ link[c] \notin {"loaded", "on"}
    \/ link[c] = "loaded" /\ held[c] = cached
    \/ Reached(c)
    \/ c \in skipped

IInv ==
  /\ TypeOK
  /\ Standing
  /\ Remembers
  /\ Owned
  /\ Lists
  /\ Reaches
  /\ AlwaysWatched
  /\ AlarmStops

----------------------------------------------------------------------------
\* A poller is a drive and a generation, and the newest of a drive is one.
LEMMA PollerPair ==
  ASSUME NEW p \in Pollers
  PROVE  p = <<p[1], p[2]>> /\ p[1] \in Drives /\ p[2] \in Gens
BY DEF Pollers

LEMMA Newest ==
  ASSUME PollTypes, NEW d \in Drives
  PROVE  <<d, cur>> \in Pollers
BY DEF PollTypes, Pollers

\* The input channel is written at its end and read at its head.
LEMMA Written ==
  ASSUME MessageTypes, Len(inputs) < InputCap,
         NEW x \in {"stop_prog_exec", "reset"}, inputs' = Append(inputs, x)
  PROVE  /\ inputs' \in Seq({"stop_prog_exec", "reset"})
         /\ Len(inputs') = Len(inputs) + 1 /\ Len(inputs') <= InputCap
         /\ \A i \in 1 .. Len(inputs) : inputs'[i] = inputs[i]
         /\ inputs'[Len(inputs) + 1] = x
<1>1. /\ inputs' \in Seq({"stop_prog_exec", "reset"})
      /\ Len(inputs') = Len(inputs) + 1
      /\ \A i \in 1 .. Len(inputs) : inputs'[i] = inputs[i]
      /\ inputs'[Len(inputs) + 1] = x
  BY AppendProperties DEF MessageTypes
<1>. QED  BY <1>1, LenProperties, BoundsAssumption DEF MessageTypes

LEMMA Read ==
  ASSUME MessageTypes, inputs # <<>>, inputs' = Tail(inputs)
  PROVE  /\ inputs' \in Seq({"stop_prog_exec", "reset"})
         /\ Len(inputs') = Len(inputs) - 1 /\ Len(inputs') <= InputCap
         /\ Head(inputs) = inputs[1]
         /\ \A i \in 1 .. Len(inputs') : inputs'[i] = inputs[i + 1]
<1>1. /\ inputs' \in Seq({"stop_prog_exec", "reset"})
      /\ Len(inputs') = Len(inputs) - 1
      /\ \A i \in 1 .. Len(inputs') : inputs'[i] = inputs[i + 1]
  BY HeadTailProperties DEF MessageTypes
<1>2. Head(inputs) = inputs[1]
  BY DEF MessageTypes
<1>. QED  BY <1>1, <1>2, LenProperties, BoundsAssumption DEF MessageTypes

\* A message that is posted keeps the types, and brings its stop.
LEMMA PostTypes ==
  ASSUME MessageTypes, NEW t \in Texts, Post(t)
  PROVE  going' \in [Texts -> Nat]
BY DEF MessageTypes, Post

LEMMA PostStops ==
  ASSUME MessageTypes, AlarmStops, NEW t \in Texts, Post(t),
         UNCHANGED <<inputs, stopped>>
  PROVE  AlarmStops'
<1>1. \A u \in Texts \ {Clear} : going[u] > 0 => going'[u] > 0
  BY DEF MessageTypes, Post
<1>2. going'[t] > 0
  BY DEF MessageTypes, Post
<1>3. alarmed' => alarmed \/ t # Clear
  BY Zenon DEF Post
<1>4. CASE t # Clear
  BY <1>2, <1>4 DEF AlarmStops, StopOnWay
<1>5. CASE alarmed
  BY <1>1, <1>5 DEF AlarmStops, StopOnWay
<1>. QED  BY <1>3, <1>4, <1>5 DEF AlarmStops

\* A step that leaves the cache, the worker and the owners alone keeps Owned.
LEMMA OwnedFrame ==
  ASSUME Owned, UNCHANGED <<cached, late, resetting, cur, watching>>,
         \A d \in Drives :
           last[<<d, cur>>] # Clear /\ poller[<<d, cur>>] # "off" =>
             last'[<<d, cur>>] # Clear /\ poller'[<<d, cur>>] # "off"
  PROVE  Owned'
BY DEF Owned, AlarmHasOwner

----------------------------------------------------------------------------
LEMMA SendAlarmKeeps ==
  ASSUME IInv, NEW t \in Texts, SendAlarm(t)
  PROVE  IInv'
<1> USE TextsAssumption, BoundsAssumption
<1> USE DEF pollVars, watchVars, boardVars, postVars, panelVars, runVars,
            plantVars, Texts, Pollers
<1>1. TypeOK'
  <2>1. BoardTypes'
    BY DEF IInv, TypeOK, BoardTypes, SendAlarm, StopFor
  <2>2. MessageTypes'
    <3>1. going' \in [Texts -> Nat] /\ mail' \in [Clients -> [Texts -> Nat]]
      BY DEF IInv, TypeOK, MessageTypes, SendAlarm
    <3>2. CASE UNCHANGED inputs
      BY <3>1, <3>2 DEF IInv, TypeOK, MessageTypes
    <3>3. CASE Len(inputs) < InputCap
               /\ inputs' = Append(inputs, "stop_prog_exec")
      <4>1. inputs' \in Seq({"stop_prog_exec", "reset"})
            /\ Len(inputs') <= InputCap
        BY <3>3, Written DEF IInv, TypeOK
      <4>. QED  BY <3>1, <4>1 DEF MessageTypes
    <3>. QED  BY <3>2, <3>3 DEF SendAlarm, StopFor
  <2>3. Flags' /\ PollTypes' /\ PanelTypes' /\ OtherTypes'
    BY DEF IInv, TypeOK, Flags, PollTypes, PanelTypes, OtherTypes, SendAlarm
  <2>. QED  BY <2>1, <2>2, <2>3 DEF TypeOK
<1>2. Lists'
  BY DEF IInv, TypeOK, BoardTypes, PanelTypes, Lists, SendAlarm, StopFor
<1>3. Reaches'
  BY DEF IInv, TypeOK, PollTypes, BoardTypes, MessageTypes, PanelTypes,
         OtherTypes, Reaches, Reached, Pending, SendAlarm, StopFor
<1>4. AlarmStops'
  BY DEF IInv, TypeOK, MessageTypes, AlarmStops, StopOnWay, SendAlarm, StopFor
<1>5. Standing' /\ Remembers' /\ Owned' /\ AlwaysWatched'
  BY DEF IInv, Standing, Remembers, Owned, AlwaysWatched, Reported,
         AlarmHasOwner, Told, SendAlarm
<1>. QED  BY <1>1, <1>2, <1>3, <1>4, <1>5 DEF IInv

LEMMA OnAlarmErrorKeeps ==
  ASSUME IInv, NEW c \in Clients, NEW t \in Texts, OnAlarmError(c, t)
  PROVE  IInv'
<1> USE TextsAssumption, BoundsAssumption
<1> USE DEF pollVars, watchVars, boardVars, postVars, panelVars, runVars,
            plantVars, Texts, Pollers
<1>1. TypeOK'
  <2>1. BoardTypes'
    BY DEF IInv, TypeOK, BoardTypes, OnAlarmError
  <2>2. MessageTypes'
    BY DEF IInv, TypeOK, MessageTypes, OnAlarmError
  <2>3. PanelTypes'
    BY DEF IInv, TypeOK, PanelTypes, OnAlarmError
  <2>4. Flags' /\ PollTypes' /\ OtherTypes'
    BY DEF IInv, TypeOK, Flags, PollTypes, OtherTypes, OnAlarmError
  <2>. QED  BY <2>1, <2>2, <2>3, <2>4 DEF TypeOK
<1>2. Reaches'
  BY DEF IInv, TypeOK, PollTypes, BoardTypes, MessageTypes, PanelTypes,
         OtherTypes, Reaches, Reached, Pending, OnAlarmError
<1>3. /\ Standing'
      /\ Remembers'
      /\ Owned'
      /\ Lists'
      /\ AlwaysWatched'
      /\ AlarmStops'
  BY DEF IInv, Standing, Remembers, Owned, Lists, AlwaysWatched, AlarmStops,
         Reported, AlarmHasOwner, Told, StopOnWay, OnAlarmError
<1>. QED  BY <1>1, <1>2, <1>3 DEF IInv

LEMMA ComplainKeeps ==
  ASSUME IInv, Complain
  PROVE  IInv'
<1> USE TextsAssumption, BoundsAssumption
<1> USE DEF pollVars, watchVars, boardVars, postVars, panelVars, runVars,
            plantVars, Texts, Pollers
<1>1. TypeOK'
  <2>1. Flags'
    BY Zenon DEF IInv, TypeOK, Flags, Complain, Spend, Kinds, Cache
  <2>2. BoardTypes'
    BY DEF IInv, TypeOK, BoardTypes, Complain, Spend, Kinds, Cache
  <2>3. OtherTypes'
    BY DEF IInv, TypeOK, OtherTypes, Complain, Spend, Kinds, Cache
  <2>4. PollTypes' /\ MessageTypes' /\ PanelTypes'
    BY DEF IInv, TypeOK, PollTypes, MessageTypes, PanelTypes, Complain
  <2>. QED  BY <2>1, <2>2, <2>3, <2>4 DEF TypeOK
<1>2. Standing'
  BY DEF IInv, TypeOK, PollTypes, BoardTypes, Standing, Reported, Complain,
         Spend, Kinds, Cache
<1>3. Owned'
  BY DEF IInv, TypeOK, PollTypes, BoardTypes, OtherTypes, Owned,
         AlarmHasOwner, Told, Complain, Spend, Kinds, Cache
<1>4. Lists'
  BY DEF IInv, TypeOK, BoardTypes, PanelTypes, Lists, Complain, Spend, Kinds,
         Cache
<1>5. Reaches'
  BY DEF IInv, TypeOK, PollTypes, BoardTypes, MessageTypes, PanelTypes,
         OtherTypes, Reaches, Reached, Pending, Complain, Spend, Kinds, Cache
<1>6. Remembers' /\ AlwaysWatched' /\ AlarmStops'
  BY DEF IInv, Remembers, AlwaysWatched, AlarmStops, Told, StopOnWay, Complain
<1>. QED  BY <1>1, <1>2, <1>3, <1>4, <1>5, <1>6 DEF IInv

LEMMA PostComplaintKeeps ==
  ASSUME IInv, PostComplaint
  PROVE  IInv'
<1> USE TextsAssumption, BoundsAssumption
<1> USE DEF pollVars, watchVars, boardVars, postVars, panelVars, runVars,
            plantVars, Texts, Pollers
<1>1. TypeOK'
  <2>1. Flags'
    BY Zenon DEF IInv, TypeOK, Flags, PostComplaint, Post
  <2>2. MessageTypes'
    BY DEF IInv, TypeOK, MessageTypes, PostComplaint, Post
  <2>3. PollTypes' /\ BoardTypes' /\ PanelTypes' /\ OtherTypes'
    BY DEF IInv, TypeOK, PollTypes, BoardTypes, PanelTypes, OtherTypes,
           PostComplaint
  <2>. QED  BY <2>1, <2>2, <2>3 DEF TypeOK
<1>2. Reaches'
  BY DEF IInv, TypeOK, PollTypes, BoardTypes, MessageTypes, PanelTypes,
         OtherTypes, Reaches, Reached, Pending, PostComplaint, Post
<1>3. AlarmStops'
  BY PostStops DEF IInv, TypeOK, PostComplaint
<1>4. /\ Standing'
      /\ Remembers'
      /\ Owned'
      /\ Lists'
      /\ AlwaysWatched'
  BY DEF IInv, Standing, Remembers, Owned, Lists, AlwaysWatched, Reported,
         AlarmHasOwner, Told, PostComplaint
<1>. QED  BY <1>1, <1>2, <1>3, <1>4 DEF IInv

LEMMA ConnectKeeps ==
  ASSUME IInv, NEW c \in Clients, Connect(c)
  PROVE  IInv'
<1> USE TextsAssumption, BoundsAssumption
<1> USE DEF pollVars, watchVars, boardVars, postVars, panelVars, runVars,
            plantVars, Texts, Pollers
<1>1. TypeOK'
  <2>1. Flags'
    BY Zenon DEF IInv, TypeOK, Flags, Connect, Spend, Kinds, BeginUpdate,
           Updating
  <2>2. PanelTypes'
    BY DEF IInv, TypeOK, PanelTypes, Connect, Spend, Kinds, BeginUpdate,
           Updating
  <2>3. OtherTypes'
    BY DEF IInv, TypeOK, OtherTypes, Connect, Spend, Kinds, BeginUpdate,
           Updating
  <2>4. PollTypes' /\ BoardTypes' /\ MessageTypes'
    BY DEF IInv, TypeOK, PollTypes, BoardTypes, MessageTypes, Connect
  <2>. QED  BY <2>1, <2>2, <2>3, <2>4 DEF TypeOK
<1>2. Lists'
  BY DEF IInv, TypeOK, BoardTypes, PanelTypes, Lists, Connect, Spend, Kinds,
         BeginUpdate, Updating
<1>3. Reaches'
  BY DEF IInv, TypeOK, PollTypes, BoardTypes, MessageTypes, PanelTypes,
         OtherTypes, Reaches, Reached, Pending, Connect, Spend, Kinds,
         BeginUpdate, Updating
<1>4. /\ Standing'
      /\ Remembers'
      /\ Owned'
      /\ AlwaysWatched'
      /\ AlarmStops'
  BY DEF IInv, Standing, Remembers, Owned, AlwaysWatched, AlarmStops,
         Reported, AlarmHasOwner, Told, StopOnWay, Connect
<1>. QED  BY <1>1, <1>2, <1>3, <1>4 DEF IInv

LEMMA AddClientKeeps ==
  ASSUME IInv, NEW c \in Clients, AddClient(c)
  PROVE  IInv'
<1> USE TextsAssumption, BoundsAssumption
<1> USE DEF pollVars, watchVars, boardVars, postVars, panelVars, runVars,
            plantVars, Texts, Pollers
<1>1. TypeOK'
  <2>1. PanelTypes'
    BY DEF IInv, TypeOK, PanelTypes, AddClient, EndUpdate
  <2>2. Flags' /\ PollTypes' /\ BoardTypes' /\ MessageTypes' /\ OtherTypes'
    BY DEF IInv, TypeOK, Flags, PollTypes, BoardTypes, MessageTypes,
           OtherTypes, AddClient
  <2>. QED  BY <2>1, <2>2 DEF TypeOK
<1>2. Lists'
  BY DEF IInv, TypeOK, BoardTypes, PanelTypes, Lists, AddClient, EndUpdate
<1>3. Reaches'
  BY DEF IInv, TypeOK, PollTypes, BoardTypes, MessageTypes, PanelTypes,
         OtherTypes, Reaches, Reached, Pending, AddClient, EndUpdate
<1>4. /\ Standing'
      /\ Remembers'
      /\ Owned'
      /\ AlwaysWatched'
      /\ AlarmStops'
  BY DEF IInv, Standing, Remembers, Owned, AlwaysWatched, AlarmStops,
         Reported, AlarmHasOwner, Told, StopOnWay, AddClient
<1>. QED  BY <1>1, <1>2, <1>3, <1>4 DEF IInv

LEMMA LoadCurrentKeeps ==
  ASSUME IInv, NEW c \in Clients, LoadCurrent(c)
  PROVE  IInv'
<1> USE TextsAssumption, BoundsAssumption
<1> USE DEF pollVars, watchVars, boardVars, postVars, panelVars, runVars,
            plantVars, Texts, Pollers
<1>1. TypeOK'
  <2>1. BoardTypes'
    BY DEF IInv, TypeOK, BoardTypes, LoadCurrent, GetCurrentAlarm
  <2>2. PanelTypes'
    <3>1. link' \in [Clients -> {"away", "adding", "added", "loaded", "on",
                                 "leaving"}]
      BY DEF IInv, TypeOK, PanelTypes, LoadCurrent
    <3>2. held' \in [Clients -> Texts]
      BY DEF IInv, TypeOK, PanelTypes, BoardTypes, LoadCurrent, GetCurrentAlarm
    <3>. QED  BY <3>1, <3>2 DEF IInv, TypeOK, PanelTypes, LoadCurrent
  <2>3. Flags' /\ PollTypes' /\ MessageTypes' /\ OtherTypes'
    BY DEF IInv, TypeOK, Flags, PollTypes, MessageTypes, OtherTypes,
           LoadCurrent
  <2>. QED  BY <2>1, <2>2, <2>3 DEF TypeOK
<1>2. Lists'
  BY DEF IInv, TypeOK, BoardTypes, PanelTypes, Lists, LoadCurrent,
         GetCurrentAlarm
<1>3. Reaches'
  BY DEF IInv, TypeOK, PollTypes, BoardTypes, MessageTypes, PanelTypes,
         OtherTypes, Reaches, Reached, Pending, LoadCurrent, GetCurrentAlarm
<1>4. /\ Standing'
      /\ Remembers'
      /\ Owned'
      /\ AlwaysWatched'
      /\ AlarmStops'
  BY DEF IInv, Standing, Remembers, Owned, AlwaysWatched, AlarmStops,
         Reported, AlarmHasOwner, Told, StopOnWay, LoadCurrent
<1>. QED  BY <1>1, <1>2, <1>3, <1>4 DEF IInv

LEMMA PushCurrentKeeps ==
  ASSUME IInv, NEW c \in Clients, PushCurrent(c)
  PROVE  IInv'
<1> USE TextsAssumption, BoundsAssumption
<1> USE DEF pollVars, watchVars, boardVars, postVars, panelVars, runVars,
            plantVars, Texts, Pollers
<1>1. TypeOK'
  <2>1. Flags'
    BY Zenon DEF IInv, TypeOK, Flags, PushCurrent, Post
  <2>2. MessageTypes'
    <3>1. held[c] \in Texts
      BY DEF IInv, TypeOK, PanelTypes
    <3>2. going' \in [Texts -> Nat]
      BY <3>1, PostTypes DEF IInv, TypeOK, PushCurrent
    <3>3. mail' \in [Clients -> [Texts -> Nat]]
      BY <3>1 DEF IInv, TypeOK, MessageTypes, PushCurrent
    <3>. QED  BY <3>2, <3>3 DEF IInv, TypeOK, MessageTypes, PushCurrent
  <2>3. PanelTypes'
    BY DEF IInv, TypeOK, PanelTypes, PushCurrent, Post
  <2>4. PollTypes' /\ BoardTypes' /\ OtherTypes'
    BY DEF IInv, TypeOK, PollTypes, BoardTypes, OtherTypes, PushCurrent
  <2>. QED  BY <2>1, <2>2, <2>3, <2>4 DEF TypeOK
<1>2. Lists'
  BY DEF IInv, TypeOK, BoardTypes, PanelTypes, Lists, PushCurrent, Post
<1>3. Reaches'
  BY DEF IInv, TypeOK, PollTypes, BoardTypes, MessageTypes, PanelTypes,
         OtherTypes, Reaches, Reached, Pending, PushCurrent, Post
<1>4. AlarmStops'
  BY PostStops DEF IInv, TypeOK, PanelTypes, PushCurrent
<1>5. Standing' /\ Remembers' /\ Owned' /\ AlwaysWatched'
  BY DEF IInv, Standing, Remembers, Owned, AlwaysWatched, Reported,
         AlarmHasOwner, Told, PushCurrent
<1>. QED  BY <1>1, <1>2, <1>3, <1>4, <1>5 DEF IInv

LEMMA DisconnectKeeps ==
  ASSUME IInv, NEW c \in Clients, Disconnect(c)
  PROVE  IInv'
<1> USE TextsAssumption, BoundsAssumption
<1> USE DEF pollVars, watchVars, boardVars, postVars, panelVars, runVars,
            plantVars, Texts, Pollers
<1>1. TypeOK'
  <2>1. Flags'
    BY Zenon DEF IInv, TypeOK, Flags, Disconnect, BeginUpdate, Updating
  <2>2. BoardTypes'
    BY DEF IInv, TypeOK, BoardTypes, Disconnect, BeginUpdate, Updating
  <2>3. MessageTypes'
    BY DEF IInv, TypeOK, MessageTypes, Disconnect, BeginUpdate, Updating
  <2>4. PanelTypes'
    BY DEF IInv, TypeOK, PanelTypes, Disconnect, BeginUpdate, Updating
  <2>5. PollTypes' /\ OtherTypes'
    BY DEF IInv, TypeOK, PollTypes, OtherTypes, Disconnect
  <2>. QED  BY <2>1, <2>2, <2>3, <2>4, <2>5 DEF TypeOK
<1>2. Lists'
  BY DEF IInv, TypeOK, BoardTypes, PanelTypes, Lists, Disconnect, BeginUpdate,
         Updating
<1>3. Reaches'
  BY DEF IInv, TypeOK, PollTypes, BoardTypes, MessageTypes, PanelTypes,
         OtherTypes, Reaches, Reached, Pending, Disconnect, BeginUpdate,
         Updating
<1>4. /\ Standing'
      /\ Remembers'
      /\ Owned'
      /\ AlwaysWatched'
      /\ AlarmStops'
  BY DEF IInv, Standing, Remembers, Owned, AlwaysWatched, AlarmStops,
         Reported, AlarmHasOwner, Told, StopOnWay, Disconnect
<1>. QED  BY <1>1, <1>2, <1>3, <1>4 DEF IInv

LEMMA RemoveClientKeeps ==
  ASSUME IInv, NEW c \in Clients, RemoveClient(c)
  PROVE  IInv'
<1> USE TextsAssumption, BoundsAssumption
<1> USE DEF pollVars, watchVars, boardVars, postVars, panelVars, runVars,
            plantVars, Texts, Pollers
<1>1. TypeOK'
  <2>1. BoardTypes'
    BY DEF IInv, TypeOK, BoardTypes, RemoveClient, EndUpdate
  <2>2. MessageTypes'
    BY DEF IInv, TypeOK, MessageTypes, RemoveClient, EndUpdate
  <2>3. PanelTypes'
    BY DEF IInv, TypeOK, PanelTypes, RemoveClient, EndUpdate
  <2>4. Flags' /\ PollTypes' /\ OtherTypes'
    BY DEF IInv, TypeOK, Flags, PollTypes, OtherTypes, RemoveClient
  <2>. QED  BY <2>1, <2>2, <2>3, <2>4 DEF TypeOK
<1>2. Lists'
  BY DEF IInv, TypeOK, BoardTypes, PanelTypes, Lists, RemoveClient, EndUpdate
<1>3. Reaches'
  BY DEF IInv, TypeOK, PollTypes, BoardTypes, MessageTypes, PanelTypes,
         OtherTypes, Reaches, Reached, Pending, RemoveClient, EndUpdate
<1>4. /\ Standing'
      /\ Remembers'
      /\ Owned'
      /\ AlwaysWatched'
      /\ AlarmStops'
  BY DEF IInv, Standing, Remembers, Owned, AlwaysWatched, AlarmStops,
         Reported, AlarmHasOwner, Told, StopOnWay, RemoveClient
<1>. QED  BY <1>1, <1>2, <1>3, <1>4 DEF IInv

LEMMA DriveShowsKeeps ==
  ASSUME IInv, NEW d \in Drives, NEW e \in Codes \cup {Clear}, DriveShows(d, e)
  PROVE  IInv'
<1> USE TextsAssumption, BoundsAssumption
<1> USE DEF pollVars, watchVars, boardVars, postVars, panelVars, runVars,
            plantVars, Texts, Pollers
<1>1. TypeOK'
  <2>1. OtherTypes'
    BY DEF IInv, TypeOK, OtherTypes, DriveShows, Spend, Kinds
  <2>2. Flags' /\ PollTypes' /\ BoardTypes' /\ MessageTypes' /\ PanelTypes'
    BY DEF IInv, TypeOK, Flags, PollTypes, BoardTypes, MessageTypes,
           PanelTypes, DriveShows
  <2>. QED  BY <2>1, <2>2 DEF TypeOK
<1>2. /\ Standing'
      /\ Remembers'
      /\ Owned'
      /\ Lists'
      /\ Reaches'
      /\ AlwaysWatched'
      /\ AlarmStops'
  BY DEF IInv, Standing, Remembers, Owned, Lists, Reaches, AlwaysWatched,
         AlarmStops, Reported, AlarmHasOwner, Told, Reached, Pending,
         StopOnWay, DriveShows
<1>. QED  BY <1>1, <1>2 DEF IInv

LEMMA LookKeeps ==
  ASSUME IInv, NEW p \in Pollers, Look(p)
  PROVE  IInv'
<1> USE TextsAssumption, BoundsAssumption
<1> USE DEF pollVars, watchVars, boardVars, postVars, panelVars, runVars,
            plantVars, Texts, Pollers
<1>1. TypeOK'
  <2>1. PollTypes'
    <3>1. drive[p[1]] \in Codes \cup {Clear}
      BY PollerPair DEF IInv, TypeOK, OtherTypes
    <3>2. last' \in [Pollers -> Codes \cup {Clear}]
      BY <3>1 DEF IInv, TypeOK, PollTypes, Look
    <3>3. poller' \in [Pollers -> {"poll", "report", "send", "code",
                                   "recover", "clear", "off"}]
      BY DEF IInv, TypeOK, PollTypes, Look
    <3>. QED  BY <3>2, <3>3 DEF IInv, TypeOK, PollTypes, Look
  <2>2. Flags' /\ BoardTypes' /\ MessageTypes' /\ PanelTypes' /\ OtherTypes'
    BY DEF IInv, TypeOK, Flags, BoardTypes, MessageTypes, PanelTypes,
           OtherTypes, Look
  <2>. QED  BY <2>1, <2>2 DEF TypeOK
<1>2. Standing'
  BY DEF IInv, TypeOK, PollTypes, BoardTypes, Standing, Reported, Look, Told,
         Changed, Recovered
<1>3. Remembers'
  BY DEF IInv, TypeOK, PollTypes, Remembers, Look, Told, Changed, Recovered
<1>4. Owned'
  <2>1. \A d \in Drives : <<d, cur>> \in Pollers
    BY Newest DEF IInv, TypeOK
  <2>2. \A d \in Drives :
          last[<<d, cur>>] # Clear /\ poller[<<d, cur>>] # "off" =>
            last'[<<d, cur>>] # Clear /\ poller'[<<d, cur>>] # "off"
    BY <2>1 DEF IInv, TypeOK, PollTypes, Look, Changed
  <2>. QED  BY <2>2, OwnedFrame DEF IInv, Look
<1>5. Reaches'
  BY DEF IInv, TypeOK, PollTypes, BoardTypes, MessageTypes, PanelTypes,
         OtherTypes, Reaches, Reached, Pending, Look, Told, Changed, Recovered
<1>6. AlwaysWatched'
  BY DEF IInv, TypeOK, PollTypes, AlwaysWatched, Told, Look, Changed,
         Recovered
<1>7. Lists' /\ AlarmStops'
  BY DEF IInv, Lists, AlarmStops, StopOnWay, Look
<1>. QED  BY <1>1, <1>2, <1>3, <1>4, <1>5, <1>6, <1>7 DEF IInv

LEMMA ReportKeeps ==
  ASSUME IInv, NEW p \in Pollers, Report(p)
  PROVE  IInv'
<1> USE TextsAssumption, BoundsAssumption
<1> USE DEF pollVars, watchVars, boardVars, postVars, panelVars, runVars,
            plantVars, Texts, Pollers
<1>1. TypeOK'
  <2>1. Flags'
    BY Zenon DEF IInv, TypeOK, Flags, Report, Told, Cache
  <2>2. PollTypes'
    BY DEF IInv, TypeOK, PollTypes, Report, Told, Cache
  <2>3. BoardTypes'
    BY DEF IInv, TypeOK, BoardTypes, PollTypes, Report, Cache
  <2>4. MessageTypes' /\ PanelTypes' /\ OtherTypes'
    BY DEF IInv, TypeOK, MessageTypes, PanelTypes, OtherTypes, Report
  <2>. QED  BY <2>1, <2>2, <2>3, <2>4 DEF TypeOK
<1>2. Standing'
  <2>1. cached' = last[p] /\ last[p] # Clear
    BY DEF IInv, Remembers, Report, Cache
  <2>. QED  BY <2>1 DEF Standing
<1>3. Remembers'
  BY DEF IInv, TypeOK, PollTypes, Remembers, Report, Told, Cache
<1>4. Owned'
  <2>1. last[p] # Clear
    BY DEF IInv, Remembers, Report
  <2>2. late' = Told(p)
    BY DEF Report
  <2>3. CASE Told(p)
    BY <2>2, <2>3 DEF Owned, AlarmHasOwner
  <2>4. CASE ~ Told(p)
    <3>1. p[1] \in Drives /\ <<p[1], cur>> = p /\ watching
      BY <2>4, PollerPair DEF Told
    <3>2. last'[<<p[1], cur'>>] # Clear /\ poller'[<<p[1], cur'>>] # "off"
      BY <2>1, <3>1 DEF IInv, TypeOK, PollTypes, Report
    <3>3. watching'
      BY <3>1 DEF Report
    <3>. QED  BY <3>1, <3>2, <3>3 DEF Owned, AlarmHasOwner
  <2>. QED  BY <2>3, <2>4
<1>5. Lists'
  BY DEF IInv, TypeOK, BoardTypes, PanelTypes, Lists, Report, Told, Cache
<1>6. Reaches'
  BY DEF IInv, TypeOK, PollTypes, BoardTypes, MessageTypes, PanelTypes,
         OtherTypes, Reaches, Reached, Pending, Report, Told, Cache
<1>7. AlwaysWatched'
  BY DEF IInv, TypeOK, PollTypes, AlwaysWatched, Told, Report, Cache
<1>8. AlarmStops'
  BY DEF IInv, AlarmStops, StopOnWay, Report
<1>. QED  BY <1>1, <1>2, <1>3, <1>4, <1>5, <1>6, <1>7, <1>8 DEF IInv

LEMMA PostReportKeeps ==
  ASSUME IInv, NEW p \in Pollers, PostReport(p)
  PROVE  IInv'
<1> USE TextsAssumption, BoundsAssumption
<1> USE DEF pollVars, watchVars, boardVars, postVars, panelVars, runVars,
            plantVars, Texts, Pollers
<1>1. TypeOK'
  <2>1. Flags'
    BY Zenon DEF IInv, TypeOK, Flags, PostReport, Post
  <2>2. PollTypes'
    BY DEF IInv, TypeOK, PollTypes, PostReport, Post
  <2>3. MessageTypes'
    <3>1. going' \in [Texts -> Nat]
      BY PostTypes DEF IInv, TypeOK, PollTypes, PostReport
    <3>. QED  BY <3>1 DEF IInv, TypeOK, MessageTypes, PostReport
  <2>4. BoardTypes' /\ PanelTypes' /\ OtherTypes'
    BY DEF IInv, TypeOK, BoardTypes, PanelTypes, OtherTypes, PostReport
  <2>. QED  BY <2>1, <2>2, <2>3, <2>4 DEF TypeOK
<1>2. Standing'
  BY DEF IInv, TypeOK, PollTypes, BoardTypes, Standing, Reported, PostReport,
         Post
<1>3. Remembers'
  BY DEF IInv, TypeOK, PollTypes, Remembers, PostReport, Post
<1>4. Owned'
  <2>1. \A d \in Drives : <<d, cur>> \in Pollers
    BY Newest DEF IInv, TypeOK
  <2>2. \A d \in Drives :
          last[<<d, cur>>] # Clear /\ poller[<<d, cur>>] # "off" =>
            last'[<<d, cur>>] # Clear /\ poller'[<<d, cur>>] # "off"
    BY <2>1 DEF IInv, TypeOK, PollTypes, PostReport
  <2>. QED  BY <2>2, OwnedFrame DEF IInv, PostReport
<1>5. Reaches'
  BY DEF IInv, TypeOK, PollTypes, BoardTypes, MessageTypes, PanelTypes,
         OtherTypes, Reaches, Reached, Pending, PostReport, Post
<1>6. AlwaysWatched'
  BY DEF IInv, TypeOK, PollTypes, AlwaysWatched, Told, PostReport, Post
<1>7. AlarmStops'
  BY PostStops DEF IInv, TypeOK, PollTypes, PostReport
<1>8. Lists'
  BY DEF IInv, Lists, PostReport
<1>. QED  BY <1>1, <1>2, <1>3, <1>4, <1>5, <1>6, <1>7, <1>8 DEF IInv

LEMMA DriverErrorKeeps ==
  ASSUME IInv, NEW p \in Pollers, DriverError(p)
  PROVE  IInv'
<1> USE TextsAssumption, BoundsAssumption
<1> USE DEF pollVars, watchVars, boardVars, postVars, panelVars, runVars,
            plantVars, Texts, Pollers
<1>1. TypeOK'
  <2>1. Flags'
    BY Zenon DEF IInv, TypeOK, Flags, DriverError
  <2>2. PollTypes'
    BY DEF IInv, TypeOK, PollTypes, DriverError
  <2>3. BoardTypes' /\ MessageTypes' /\ PanelTypes' /\ OtherTypes'
    BY DEF IInv, TypeOK, BoardTypes, MessageTypes, PanelTypes, OtherTypes,
           DriverError
  <2>. QED  BY <2>1, <2>2, <2>3 DEF TypeOK
<1>2. Standing'
  BY DEF IInv, TypeOK, PollTypes, BoardTypes, Standing, Reported, DriverError
<1>3. Remembers'
  BY DEF IInv, TypeOK, PollTypes, Remembers, DriverError
<1>4. Owned'
  <2>1. \A d \in Drives : <<d, cur>> \in Pollers
    BY Newest DEF IInv, TypeOK
  <2>2. \A d \in Drives :
          last[<<d, cur>>] # Clear /\ poller[<<d, cur>>] # "off" =>
            last'[<<d, cur>>] # Clear /\ poller'[<<d, cur>>] # "off"
    BY <2>1 DEF IInv, TypeOK, PollTypes, DriverError
  <2>. QED  BY <2>2, OwnedFrame DEF IInv, DriverError
<1>5. Reaches'
  BY DEF IInv, TypeOK, PollTypes, BoardTypes, MessageTypes, PanelTypes,
         OtherTypes, Reaches, Reached, Pending, DriverError
<1>6. AlwaysWatched'
  BY DEF IInv, TypeOK, PollTypes, AlwaysWatched, Told, DriverError
<1>7. Lists' /\ AlarmStops'
  BY DEF IInv, Lists, AlarmStops, StopOnWay, DriverError
<1>. QED  BY <1>1, <1>2, <1>3, <1>4, <1>5, <1>6, <1>7 DEF IInv

LEMMA AlarmClearedKeeps ==
  ASSUME IInv, NEW p \in Pollers, AlarmCleared(p)
  PROVE  IInv'
<1> USE TextsAssumption, BoundsAssumption
<1> USE DEF pollVars, watchVars, boardVars, postVars, panelVars, runVars,
            plantVars, Texts, Pollers
<1>1. TypeOK'
  <2>1. Flags'
    BY Zenon DEF IInv, TypeOK, Flags, AlarmCleared, Overwrites, Cache
  <2>2. PollTypes'
    BY DEF IInv, TypeOK, PollTypes, AlarmCleared, Overwrites, Cache
  <2>3. BoardTypes'
    BY DEF IInv, TypeOK, BoardTypes, AlarmCleared, Overwrites, Cache
  <2>4. MessageTypes' /\ PanelTypes' /\ OtherTypes'
    BY DEF IInv, TypeOK, MessageTypes, PanelTypes, OtherTypes, AlarmCleared
  <2>. QED  BY <2>1, <2>2, <2>3, <2>4 DEF TypeOK
<1>2. Standing'
  <2>1. last[p] # Clear
    BY DEF IInv, Remembers, AlarmCleared
  <2>2. \A d \in Drives : <<d, cur>> \in Pollers
    BY Newest DEF IInv, TypeOK
  <2>3. SUFFICES ASSUME NEW d \in Drives, Reported(d)', d \notin wiped'
                 PROVE  cached' # Clear
    BY DEF Standing
  <2>4. <<d, cur>> # p /\ Reported(d)
    BY <2>2, <2>3 DEF IInv, TypeOK, PollTypes, Reported, AlarmCleared
  <2>5. CASE UNCHANGED <<hasCode, wiped, boardVars>>
    BY <2>3, <2>4, <2>5 DEF IInv, Standing
  <2>6. CASE wiped' = wiped \cup Overwrites(p)
    BY <2>1, <2>3, <2>4, <2>6 DEF Overwrites, Reported
  <2>. QED  BY <2>5, <2>6 DEF AlarmCleared
<1>3. Remembers'
  BY DEF IInv, TypeOK, PollTypes, Remembers, AlarmCleared, Overwrites, Cache
<1>4. Owned'
  BY DEF IInv, TypeOK, PollTypes, BoardTypes, OtherTypes, Owned,
         AlarmHasOwner, Told, AlarmCleared, Overwrites, Cache
<1>5. Lists'
  BY DEF IInv, TypeOK, BoardTypes, PanelTypes, Lists, AlarmCleared,
         Overwrites, Cache
<1>6. Reaches'
  BY DEF IInv, TypeOK, PollTypes, BoardTypes, MessageTypes, PanelTypes,
         OtherTypes, Reaches, Reached, Pending, AlarmCleared, Overwrites,
         Cache
<1>7. AlwaysWatched'
  BY DEF IInv, TypeOK, PollTypes, AlwaysWatched, Told, AlarmCleared,
         Overwrites, Cache
<1>8. AlarmStops'
  BY DEF IInv, AlarmStops, StopOnWay, AlarmCleared
<1>. QED  BY <1>1, <1>2, <1>3, <1>4, <1>5, <1>6, <1>7, <1>8 DEF IInv

LEMMA PostClearedKeeps ==
  ASSUME IInv, NEW p \in Pollers, PostCleared(p)
  PROVE  IInv'
<1> USE TextsAssumption, BoundsAssumption
<1> USE DEF pollVars, watchVars, boardVars, postVars, panelVars, runVars,
            plantVars, Texts, Pollers
<1>1. TypeOK'
  <2>1. Flags'
    BY Zenon DEF IInv, TypeOK, Flags, PostCleared, Post
  <2>2. PollTypes'
    BY DEF IInv, TypeOK, PollTypes, PostCleared, Post
  <2>3. MessageTypes'
    <3>1. going' \in [Texts -> Nat]
      BY PostTypes DEF IInv, TypeOK, PostCleared
    <3>. QED  BY <3>1 DEF IInv, TypeOK, MessageTypes, PostCleared
  <2>4. BoardTypes' /\ PanelTypes' /\ OtherTypes'
    BY DEF IInv, TypeOK, BoardTypes, PanelTypes, OtherTypes, PostCleared
  <2>. QED  BY <2>1, <2>2, <2>3, <2>4 DEF TypeOK
<1>2. Standing'
  BY DEF IInv, TypeOK, PollTypes, BoardTypes, Standing, Reported, PostCleared,
         Post
<1>3. Remembers'
  BY DEF IInv, TypeOK, PollTypes, Remembers, PostCleared, Post
<1>4. Owned'
  <2>1. \A d \in Drives : <<d, cur>> \in Pollers
    BY Newest DEF IInv, TypeOK
  <2>2. \A d \in Drives :
          last[<<d, cur>>] # Clear /\ poller[<<d, cur>>] # "off" =>
            last'[<<d, cur>>] # Clear /\ poller'[<<d, cur>>] # "off"
    BY <2>1 DEF IInv, TypeOK, PollTypes, PostCleared
  <2>. QED  BY <2>2, OwnedFrame DEF IInv, PostCleared
<1>5. Reaches'
  BY DEF IInv, TypeOK, PollTypes, BoardTypes, MessageTypes, PanelTypes,
         OtherTypes, Reaches, Reached, Pending, PostCleared, Post
<1>6. AlwaysWatched'
  BY DEF IInv, TypeOK, PollTypes, AlwaysWatched, Told, PostCleared, Post
<1>7. AlarmStops'
  BY PostStops DEF IInv, TypeOK, PostCleared
<1>8. Lists'
  BY DEF IInv, Lists, PostCleared
<1>. QED  BY <1>1, <1>2, <1>3, <1>4, <1>5, <1>6, <1>7, <1>8 DEF IInv

LEMMA StopPollerKeeps ==
  ASSUME IInv, NEW p \in Pollers, StopPoller(p)
  PROVE  IInv'
<1> USE TextsAssumption, BoundsAssumption
<1> USE DEF pollVars, watchVars, boardVars, postVars, panelVars, runVars,
            plantVars, Texts, Pollers
<1>1. TypeOK'
  <2>1. PollTypes'
    BY DEF IInv, TypeOK, PollTypes, StopPoller, Told
  <2>2. Flags' /\ BoardTypes' /\ MessageTypes' /\ PanelTypes' /\ OtherTypes'
    BY DEF IInv, TypeOK, Flags, BoardTypes, MessageTypes, PanelTypes,
           OtherTypes, StopPoller
  <2>. QED  BY <2>1, <2>2 DEF TypeOK
<1>2. Standing'
  BY DEF IInv, TypeOK, PollTypes, BoardTypes, Standing, Reported, StopPoller,
         Told
<1>3. Remembers'
  BY DEF IInv, TypeOK, PollTypes, Remembers, StopPoller, Told
<1>4. Owned'
  <2>1. CASE watching /\ p[2] # cur
    <3>1. \A d \in Drives : <<d, cur>> \in Pollers /\ <<d, cur>> # p
      BY <2>1, Newest DEF IInv, TypeOK
    <3>2. \A d \in Drives : poller'[<<d, cur>>] = poller[<<d, cur>>]
      BY <3>1 DEF IInv, TypeOK, PollTypes, StopPoller
    <3>. QED  BY <3>2, OwnedFrame DEF IInv, StopPoller
  <2>2. CASE ~ watching
    BY <2>2 DEF IInv, Owned, AlarmHasOwner, StopPoller
  <2>. QED  BY <2>1, <2>2 DEF StopPoller, Told
<1>5. Reaches'
  BY DEF IInv, TypeOK, PollTypes, BoardTypes, MessageTypes, PanelTypes,
         OtherTypes, Reaches, Reached, Pending, StopPoller, Told
<1>6. AlwaysWatched'
  BY DEF IInv, TypeOK, PollTypes, AlwaysWatched, Told, StopPoller
<1>7. Lists' /\ AlarmStops'
  BY DEF IInv, Lists, AlarmStops, StopOnWay, StopPoller
<1>. QED  BY <1>1, <1>2, <1>3, <1>4, <1>5, <1>6, <1>7 DEF IInv

LEMMA ExecuteKeeps ==
  ASSUME IInv, NEW r \in Runs, Execute(r)
  PROVE  IInv'
<1> USE TextsAssumption, BoundsAssumption
<1> USE DEF pollVars, watchVars, boardVars, postVars, panelVars, runVars,
            plantVars, Texts, Pollers
<1>1. TypeOK'
  <2>1. Flags'
    BY Zenon DEF IInv, TypeOK, Flags, Execute, Spend, Kinds, Post, Refused,
           GetCurrentAlarm
  <2>2. MessageTypes'
    <3>1. GetCurrentAlarm \in Texts
      BY DEF IInv, TypeOK, BoardTypes, GetCurrentAlarm
    <3>2. CASE going' = [[going EXCEPT ![GetCurrentAlarm] = @ + 1]
                                      EXCEPT ![Notice] = @ + 1]
      <4> DEFINE h == [going EXCEPT ![GetCurrentAlarm] = @ + 1]
      <4>1. h \in [Texts -> Nat]
        BY <3>1 DEF IInv, TypeOK, MessageTypes
      <4>2. going' = [h EXCEPT ![Notice] = @ + 1]
        BY <3>2
      <4> HIDE DEF h
      <4>3. going' \in [Texts -> Nat]
        BY <4>1, <4>2
      <4>. QED  BY <4>3 DEF IInv, TypeOK, MessageTypes, Execute
    <3>3. CASE Post(Clear)
      BY <3>3, PostTypes DEF IInv, TypeOK, MessageTypes, Execute
    <3>. QED  BY <3>2, <3>3 DEF Execute
  <2>3. OtherTypes'
    BY DEF IInv, TypeOK, OtherTypes, Execute, Spend, Kinds, Post, Refused,
           GetCurrentAlarm
  <2>4. PollTypes' /\ BoardTypes' /\ PanelTypes'
    BY DEF IInv, TypeOK, PollTypes, BoardTypes, PanelTypes, Execute
  <2>. QED  BY <2>1, <2>2, <2>3, <2>4 DEF TypeOK
<1>2. Reaches'
  BY DEF IInv, TypeOK, PollTypes, BoardTypes, MessageTypes, PanelTypes,
         OtherTypes, Reaches, Reached, Pending, Execute, Spend, Kinds, Post,
         Refused, GetCurrentAlarm
<1>3. AlarmStops'
  <2>1. CASE going' = [[going EXCEPT ![GetCurrentAlarm] = @ + 1]
                                   EXCEPT ![Notice] = @ + 1]
    <3>1. GetCurrentAlarm \in Texts
      BY DEF IInv, TypeOK, BoardTypes, GetCurrentAlarm
    <3>2. going'[Notice] > 0
      BY <2>1, <3>1 DEF IInv, TypeOK, MessageTypes
    <3>. QED  BY <3>2 DEF AlarmStops, StopOnWay
  <2>2. CASE Post(Clear)
    BY <2>2, PostStops DEF IInv, TypeOK, Execute
  <2>. QED  BY <2>1, <2>2 DEF Execute
<1>4. /\ Standing'
      /\ Remembers'
      /\ Owned'
      /\ Lists'
      /\ AlwaysWatched'
  BY DEF IInv, Standing, Remembers, Owned, Lists, AlwaysWatched, Reported,
         AlarmHasOwner, Told, Execute
<1>. QED  BY <1>1, <1>2, <1>3, <1>4 DEF IInv

LEMMA ClearStopKeeps ==
  ASSUME IInv, ClearStop
  PROVE  IInv'
<1> USE TextsAssumption, BoundsAssumption
<1> USE DEF pollVars, watchVars, boardVars, postVars, panelVars, runVars,
            plantVars, Texts, Pollers
<1>1. TypeOK'
  <2>1. Flags'
    BY Zenon DEF IInv, TypeOK, Flags, ClearStop, ResetContext
  <2>2. PollTypes' /\ BoardTypes' /\ MessageTypes' /\ PanelTypes' /\ OtherTypes'
    BY DEF IInv, TypeOK, PollTypes, BoardTypes, MessageTypes, PanelTypes,
           OtherTypes, ClearStop
  <2>. QED  BY <2>1, <2>2 DEF TypeOK
<1>2. AlarmStops'
  BY DEF IInv, TypeOK, MessageTypes, AlarmStops, StopOnWay, ClearStop,
         ResetContext
<1>3. /\ Standing'
      /\ Remembers'
      /\ Owned'
      /\ Lists'
      /\ Reaches'
      /\ AlwaysWatched'
  BY DEF IInv, Standing, Remembers, Owned, Lists, Reaches, AlwaysWatched,
         Reported, AlarmHasOwner, Told, Reached, Pending, ClearStop
<1>. QED  BY <1>1, <1>2, <1>3 DEF IInv

LEMMA EndKeeps ==
  ASSUME IInv, NEW r \in Runs, End(r)
  PROVE  IInv'
<1> USE TextsAssumption, BoundsAssumption
<1> USE DEF pollVars, watchVars, boardVars, postVars, panelVars, runVars,
            plantVars, Texts, Pollers
<1>1. TypeOK'
  <2>1. Flags'
    BY Zenon DEF IInv, TypeOK, Flags, End, Post
  <2>2. MessageTypes'
    <3>1. going' \in [Texts -> Nat]
      BY DEF IInv, TypeOK, MessageTypes, End, Post
    <3>. QED  BY <3>1 DEF IInv, TypeOK, MessageTypes, End
  <2>3. OtherTypes'
    BY DEF IInv, TypeOK, OtherTypes, End, Post
  <2>4. PollTypes' /\ BoardTypes' /\ PanelTypes'
    BY DEF IInv, TypeOK, PollTypes, BoardTypes, PanelTypes, End
  <2>. QED  BY <2>1, <2>2, <2>3, <2>4 DEF TypeOK
<1>2. Reaches'
  BY DEF IInv, TypeOK, PollTypes, BoardTypes, MessageTypes, PanelTypes,
         OtherTypes, Reaches, Reached, Pending, End, Post
<1>3. AlarmStops'
  <2>1. CASE UNCHANGED postVars
    BY <2>1 DEF IInv, AlarmStops, StopOnWay, End
  <2>2. CASE Post(Notice)
    BY <2>2, PostStops DEF IInv, TypeOK, End
  <2>. QED  BY <2>1, <2>2 DEF End
<1>4. /\ Standing'
      /\ Remembers'
      /\ Owned'
      /\ Lists'
      /\ AlwaysWatched'
  BY DEF IInv, Standing, Remembers, Owned, Lists, AlwaysWatched, Reported,
         AlarmHasOwner, Told, End
<1>. QED  BY <1>1, <1>2, <1>3, <1>4 DEF IInv

LEMMA HearStopKeeps ==
  ASSUME IInv, HearStop
  PROVE  IInv'
<1> USE TextsAssumption, BoundsAssumption
<1> USE DEF pollVars, watchVars, boardVars, postVars, panelVars, runVars,
            plantVars, Texts, Pollers
<1>1. TypeOK'
  <2>1. Flags'
    BY Zenon DEF IInv, TypeOK, Flags, HearStop
  <2>2. MessageTypes'
    <3>1. inputs' \in Seq({"stop_prog_exec", "reset"})
          /\ Len(inputs') <= InputCap
      BY Read DEF IInv, TypeOK, HearStop
    <3>. QED  BY <3>1 DEF IInv, TypeOK, MessageTypes, HearStop
  <2>3. PollTypes' /\ BoardTypes' /\ PanelTypes' /\ OtherTypes'
    BY DEF IInv, TypeOK, PollTypes, BoardTypes, PanelTypes, OtherTypes,
           HearStop
  <2>. QED  BY <2>1, <2>2, <2>3 DEF TypeOK
<1>2. AlarmStops'
  BY DEF IInv, TypeOK, MessageTypes, AlarmStops, StopOnWay, HearStop
<1>3. /\ Standing'
      /\ Remembers'
      /\ Owned'
      /\ Lists'
      /\ Reaches'
      /\ AlwaysWatched'
  BY DEF IInv, Standing, Remembers, Owned, Lists, Reaches, AlwaysWatched,
         Reported, AlarmHasOwner, Told, Reached, Pending, HearStop
<1>. QED  BY <1>1, <1>2, <1>3 DEF IInv

LEMMA HearResetKeeps ==
  ASSUME IInv, HearReset
  PROVE  IInv'
<1> USE TextsAssumption, BoundsAssumption
<1> USE DEF pollVars, watchVars, boardVars, postVars, panelVars, runVars,
            plantVars, Texts, Pollers
<1>1. TypeOK'
  <2>1. Flags'
    BY Zenon DEF IInv, TypeOK, Flags, HearReset, ResetContext
  <2>2. MessageTypes'
    <3>1. inputs' \in Seq({"stop_prog_exec", "reset"})
          /\ Len(inputs') <= InputCap
      BY Read DEF IInv, TypeOK, HearReset
    <3>. QED  BY <3>1 DEF IInv, TypeOK, MessageTypes, HearReset
  <2>3. PollTypes' /\ BoardTypes' /\ PanelTypes' /\ OtherTypes'
    BY DEF IInv, TypeOK, PollTypes, BoardTypes, PanelTypes, OtherTypes,
           HearReset
  <2>. QED  BY <2>1, <2>2, <2>3 DEF TypeOK
<1>2. AlarmStops'
  <2>1. SUFFICES ASSUME alarmed'
                 PROVE  StopOnWay'
    BY DEF AlarmStops
  <2>2. StopOnWay
    BY Zenon, <2>1 DEF HearReset, ResetContext
  <2>3. ASSUME NEW i \in 1 .. Len(inputs), inputs[i] = "stop_prog_exec"
        PROVE  \E j \in 1 .. Len(inputs') : inputs'[j] = "stop_prog_exec"
    <3>1. inputs[1] = "reset" /\ Len(inputs') = Len(inputs) - 1
          /\ \A j \in 1 .. Len(inputs') : inputs'[j] = inputs[j + 1]
      BY Read DEF IInv, TypeOK, HearReset
    <3>2. Len(inputs) \in Nat /\ i # 1
      BY <2>3, <3>1, LenProperties DEF IInv, TypeOK, MessageTypes
    <3>3. i - 1 \in 1 .. Len(inputs') /\ inputs'[i - 1] = inputs[i]
      BY <3>1, <3>2
    <3>. QED  BY <2>3, <3>3
  <2>. QED  BY <2>2, <2>3 DEF StopOnWay, HearReset
<1>3. /\ Standing'
      /\ Remembers'
      /\ Owned'
      /\ Lists'
      /\ Reaches'
      /\ AlwaysWatched'
  BY DEF IInv, Standing, Remembers, Owned, Lists, Reaches, AlwaysWatched,
         Reported, AlarmHasOwner, Told, Reached, Pending, HearReset
<1>. QED  BY <1>1, <1>2, <1>3 DEF IInv

LEMMA ResetKeeps ==
  ASSUME IInv, Reset
  PROVE  IInv'
<1> USE TextsAssumption, BoundsAssumption
<1> USE DEF pollVars, watchVars, boardVars, postVars, panelVars, runVars,
            plantVars, Texts, Pollers
<1>1. TypeOK'
  <2>1. Flags'
    BY Zenon DEF IInv, TypeOK, Flags, Reset, Spend, Kinds
  <2>2. OtherTypes'
    BY DEF IInv, TypeOK, OtherTypes, Reset, Spend, Kinds
  <2>3. PollTypes' /\ BoardTypes' /\ MessageTypes' /\ PanelTypes'
    BY DEF IInv, TypeOK, PollTypes, BoardTypes, MessageTypes, PanelTypes,
           Reset
  <2>. QED  BY <2>1, <2>2, <2>3 DEF TypeOK
<1>2. Owned'
  BY DEF IInv, TypeOK, PollTypes, BoardTypes, OtherTypes, Owned,
         AlarmHasOwner, Told, Reset, Spend, Kinds
<1>3. Reaches'
  BY DEF IInv, TypeOK, PollTypes, BoardTypes, MessageTypes, PanelTypes,
         OtherTypes, Reaches, Reached, Pending, Reset, Spend, Kinds
<1>4. AlwaysWatched'
  BY DEF IInv, TypeOK, PollTypes, AlwaysWatched, Told, Reset, Spend, Kinds
<1>5. Standing' /\ Remembers' /\ Lists' /\ AlarmStops'
  BY DEF IInv, Standing, Remembers, Lists, AlarmStops, Reported, StopOnWay,
         Reset
<1>. QED  BY <1>1, <1>2, <1>3, <1>4, <1>5 DEF IInv

LEMMA TellExecutorKeeps ==
  ASSUME IInv, TellExecutor
  PROVE  IInv'
<1> USE TextsAssumption, BoundsAssumption
<1> USE DEF pollVars, watchVars, boardVars, postVars, panelVars, runVars,
            plantVars, Texts, Pollers
<1>1. TypeOK'
  <2>1. MessageTypes'
    <3>1. inputs' \in Seq({"stop_prog_exec", "reset"})
          /\ Len(inputs') <= InputCap
      BY Written DEF IInv, TypeOK, TellExecutor
    <3>. QED  BY <3>1 DEF IInv, TypeOK, MessageTypes, TellExecutor
  <2>2. OtherTypes'
    BY DEF IInv, TypeOK, OtherTypes, TellExecutor
  <2>3. Flags' /\ PollTypes' /\ BoardTypes' /\ PanelTypes'
    BY DEF IInv, TypeOK, Flags, PollTypes, BoardTypes, PanelTypes,
           TellExecutor
  <2>. QED  BY <2>1, <2>2, <2>3 DEF TypeOK
<1>2. Owned'
  BY DEF IInv, TypeOK, PollTypes, BoardTypes, OtherTypes, Owned,
         AlarmHasOwner, Told, TellExecutor
<1>3. Reaches'
  BY DEF IInv, TypeOK, PollTypes, BoardTypes, MessageTypes, PanelTypes,
         OtherTypes, Reaches, Reached, Pending, TellExecutor
<1>4. AlwaysWatched'
  BY DEF IInv, TypeOK, PollTypes, AlwaysWatched, Told, TellExecutor
<1>5. AlarmStops'
  BY DEF IInv, TypeOK, MessageTypes, AlarmStops, StopOnWay, TellExecutor
<1>6. Standing' /\ Remembers' /\ Lists'
  BY DEF IInv, Standing, Remembers, Lists, Reported, TellExecutor
<1>. QED  BY <1>1, <1>2, <1>3, <1>4, <1>5, <1>6 DEF IInv

LEMMA PDOFaultResetKeeps ==
  ASSUME IInv, PDOFaultReset
  PROVE  IInv'
<1> USE TextsAssumption, BoundsAssumption
<1> USE DEF pollVars, watchVars, boardVars, postVars, panelVars, runVars,
            plantVars, Texts, Pollers
<1>1. TypeOK'
  <2>1. OtherTypes'
    BY DEF IInv, TypeOK, OtherTypes, PDOFaultReset
  <2>2. Flags' /\ PollTypes' /\ BoardTypes' /\ MessageTypes' /\ PanelTypes'
    BY DEF IInv, TypeOK, Flags, PollTypes, BoardTypes, MessageTypes,
           PanelTypes, PDOFaultReset
  <2>. QED  BY <2>1, <2>2 DEF TypeOK
<1>2. Owned'
  BY DEF IInv, TypeOK, PollTypes, BoardTypes, OtherTypes, Owned,
         AlarmHasOwner, Told, PDOFaultReset
<1>3. Reaches'
  BY DEF IInv, TypeOK, PollTypes, BoardTypes, MessageTypes, PanelTypes,
         OtherTypes, Reaches, Reached, Pending, PDOFaultReset
<1>4. AlwaysWatched'
  BY DEF IInv, TypeOK, PollTypes, AlwaysWatched, Told, PDOFaultReset
<1>5. Standing' /\ Remembers' /\ Lists' /\ AlarmStops'
  BY DEF IInv, Standing, Remembers, Lists, AlarmStops, Reported, StopOnWay,
         PDOFaultReset
<1>. QED  BY <1>1, <1>2, <1>3, <1>4, <1>5 DEF IInv

LEMMA RestartPollersKeeps ==
  ASSUME IInv, NEW g \in Gens, RestartPollers(g)
  PROVE  IInv'
<1> USE TextsAssumption, BoundsAssumption
<1> USE DEF pollVars, watchVars, boardVars, postVars, panelVars, runVars,
            plantVars, Texts, Pollers
<1>1. TypeOK'
  <2>1. Flags'
    BY Zenon DEF IInv, TypeOK, Flags, RestartPollers, Restarted
  <2>2. PollTypes'
    BY DEF IInv, TypeOK, PollTypes, RestartPollers, Restarted
  <2>3. OtherTypes'
    BY DEF IInv, TypeOK, OtherTypes, RestartPollers, Restarted
  <2>4. BoardTypes' /\ MessageTypes' /\ PanelTypes'
    BY DEF IInv, TypeOK, BoardTypes, MessageTypes, PanelTypes, RestartPollers
  <2>. QED  BY <2>1, <2>2, <2>3, <2>4 DEF TypeOK
<1>2. Standing'
  BY DEF IInv, TypeOK, PollTypes, BoardTypes, Standing, Reported,
         RestartPollers, Restarted
<1>3. Remembers'
  BY DEF IInv, TypeOK, PollTypes, Remembers, RestartPollers, Restarted
<1>4. Owned'
  BY DEF IInv, TypeOK, PollTypes, BoardTypes, OtherTypes, Owned,
         AlarmHasOwner, Told, RestartPollers, Restarted
<1>5. Reaches'
  <2>1. \A p \in Pollers :
          poller[p] \in {"send", "clear"} =>
            poller'[p] = poller[p] /\ last'[p] = last[p]
    <3>1. ASSUME NEW p \in Pollers, poller[p] # "off"
          PROVE  p[2] # g
      BY <3>1, PollerPair DEF RestartPollers
    <3>. QED  BY <3>1 DEF IInv, TypeOK, PollTypes, RestartPollers, Restarted
  <2>2. \A t : Pending(t) => Pending(t)'
    BY <2>1 DEF Pending, RestartPollers
  <2>. QED  BY <2>2 DEF IInv, Reaches, Reached, RestartPollers
<1>6. AlwaysWatched'
  BY DEF IInv, TypeOK, PollTypes, AlwaysWatched, Told, RestartPollers,
         Restarted
<1>7. Lists' /\ AlarmStops'
  BY DEF IInv, Lists, AlarmStops, StopOnWay, RestartPollers
<1>. QED  BY <1>1, <1>2, <1>3, <1>4, <1>5, <1>6, <1>7 DEF IInv

LEMMA ConcludeKeeps ==
  ASSUME IInv, Conclude
  PROVE  IInv'
<1> USE TextsAssumption, BoundsAssumption
<1> USE DEF pollVars, watchVars, boardVars, postVars, panelVars, runVars,
            plantVars, Texts, Pollers
<1>1. TypeOK'
  <2>1. Flags'
    BY Zenon DEF IInv, TypeOK, Flags, Conclude, Cache, Verdict
  <2>2. PollTypes'
    BY DEF IInv, TypeOK, PollTypes, Conclude, Cache, Verdict
  <2>3. BoardTypes'
    BY DEF IInv, TypeOK, BoardTypes, Conclude, Cache, Verdict
  <2>4. OtherTypes'
    BY DEF IInv, TypeOK, OtherTypes, Conclude, Cache, Verdict
  <2>5. MessageTypes' /\ PanelTypes'
    BY DEF IInv, TypeOK, MessageTypes, PanelTypes, Conclude
  <2>. QED  BY <2>1, <2>2, <2>3, <2>4, <2>5 DEF TypeOK
<1>2. Standing'
  BY DEF IInv, TypeOK, PollTypes, BoardTypes, Standing, Reported, Conclude,
         Cache, Verdict
<1>3. Owned'
  BY DEF IInv, TypeOK, PollTypes, BoardTypes, OtherTypes, Owned,
         AlarmHasOwner, Told, Conclude, Cache, Verdict
<1>4. Lists'
  BY DEF IInv, TypeOK, BoardTypes, PanelTypes, Lists, Conclude, Cache, Verdict
<1>5. Reaches'
  BY DEF IInv, TypeOK, PollTypes, BoardTypes, MessageTypes, PanelTypes,
         OtherTypes, Reaches, Reached, Pending, Conclude, Cache, Verdict
<1>6. AlwaysWatched'
  BY DEF IInv, TypeOK, PollTypes, AlwaysWatched, Told, Conclude, Cache,
         Verdict
<1>7. Remembers' /\ AlarmStops'
  BY DEF IInv, Remembers, AlarmStops, StopOnWay, Conclude
<1>. QED  BY <1>1, <1>2, <1>3, <1>4, <1>5, <1>6, <1>7 DEF IInv

LEMMA PostVerdictKeeps ==
  ASSUME IInv, PostVerdict
  PROVE  IInv'
<1> USE TextsAssumption, BoundsAssumption
<1> USE DEF pollVars, watchVars, boardVars, postVars, panelVars, runVars,
            plantVars, Texts, Pollers
<1>1. TypeOK'
  <2>1. Flags'
    BY Zenon DEF IInv, TypeOK, Flags, PostVerdict, Post
  <2>2. MessageTypes'
    BY DEF IInv, TypeOK, MessageTypes, PostVerdict, Post
  <2>3. OtherTypes'
    BY DEF IInv, TypeOK, OtherTypes, PostVerdict, Post
  <2>4. PollTypes' /\ BoardTypes' /\ PanelTypes'
    BY DEF IInv, TypeOK, PollTypes, BoardTypes, PanelTypes, PostVerdict
  <2>. QED  BY <2>1, <2>2, <2>3, <2>4 DEF TypeOK
<1>2. Owned'
  BY DEF IInv, TypeOK, PollTypes, BoardTypes, OtherTypes, Owned,
         AlarmHasOwner, Told, PostVerdict, Post
<1>3. Reaches'
  BY DEF IInv, TypeOK, PollTypes, BoardTypes, MessageTypes, PanelTypes,
         OtherTypes, Reaches, Reached, Pending, PostVerdict, Post
<1>4. AlwaysWatched'
  BY DEF IInv, TypeOK, PollTypes, AlwaysWatched, Told, PostVerdict, Post
<1>5. AlarmStops'
  <2>1. PICK t \in Texts : Post(t)
    BY DEF PostVerdict
  <2>. QED  BY <2>1, PostStops DEF IInv, TypeOK, PostVerdict
<1>6. Standing' /\ Remembers' /\ Lists'
  BY DEF IInv, Standing, Remembers, Lists, Reported, PostVerdict
<1>. QED  BY <1>1, <1>2, <1>3, <1>4, <1>5, <1>6 DEF IInv

LEMMA InitOK == Init => IInv
<1> SUFFICES ASSUME Init PROVE IInv
  OBVIOUS
<1> USE TextsAssumption, BoundsAssumption
<1>1. TypeOK
  <2>1. Flags
    BY Zenon DEF Init, Flags
  <2>2. PollTypes /\ BoardTypes /\ PanelTypes
    BY DEF Init, PollTypes, BoardTypes, PanelTypes, Texts
  <2>3. MessageTypes /\ OtherTypes
    BY DEF Init, MessageTypes, OtherTypes
  <2>. QED  BY <2>1, <2>2, <2>3 DEF TypeOK
<1>2. Standing /\ Remembers
  BY DEF Init, Standing, Reported, Remembers, Pollers
<1>3. Owned
  BY DEF Init, Owned, AlarmHasOwner
<1>4. Lists /\ Reaches
  BY DEF Init, Lists, Reaches
<1>5. AlwaysWatched
  BY DEF Init, AlwaysWatched, Told, Pollers
<1>6. AlarmStops
  BY DEF Init, AlarmStops
<1>. QED  BY <1>1, <1>2, <1>3, <1>4, <1>5, <1>6 DEF IInv

LEMMA StutterKeeps ==
  ASSUME IInv, UNCHANGED vars
  PROVE  IInv'
<1> USE DEF pollVars, watchVars, boardVars, postVars, panelVars, runVars,
            plantVars, vars
<1>1. TypeOK'
  BY DEF IInv, TypeOK, Flags, PollTypes, BoardTypes, MessageTypes, PanelTypes,
         OtherTypes
<1>2. Standing' /\ Remembers' /\ Owned'
  BY DEF IInv, Standing, Reported, Remembers, Owned, AlarmHasOwner
<1>3. Lists' /\ Reaches'
  BY DEF IInv, Lists, Reaches, Reached, Pending
<1>4. AlwaysWatched' /\ AlarmStops'
  BY DEF IInv, AlwaysWatched, Told, AlarmStops, StopOnWay
<1>. QED  BY <1>1, <1>2, <1>3, <1>4 DEF IInv

LEMMA PollerKeeps ==
  ASSUME IInv, NEW p \in Pollers, Poller(p)
  PROVE  IInv'
BY LookKeeps, ReportKeeps, PostReportKeeps, DriverErrorKeeps,
   AlarmClearedKeeps, PostClearedKeeps, StopPollerKeeps DEF Poller

LEMMA PanelKeeps ==
  ASSUME IInv, NEW c \in Clients, Panel(c)
  PROVE  IInv'
BY ConnectKeeps, AddClientKeeps, LoadCurrentKeeps, PushCurrentKeeps,
   DisconnectKeeps, RemoveClientKeeps DEF Panel

LEMMA ResetWorkerKeeps ==
  ASSUME IInv, ResetWorker
  PROVE  IInv'
BY ResetKeeps, TellExecutorKeeps, PDOFaultResetKeeps, RestartPollersKeeps,
   ConcludeKeeps, PostVerdictKeeps DEF ResetWorker

LEMMA NextKeeps ==
  ASSUME IInv, Next
  PROVE  IInv'
<1>1. CASE \E p \in Pollers : Poller(p)
  BY <1>1, PollerKeeps
<1>2. CASE \E d \in Drives, e \in Codes \cup {Clear} : DriveShows(d, e)
  BY <1>2, DriveShowsKeeps
<1>3. CASE \E t \in Texts : SendAlarm(t)
  BY <1>3, SendAlarmKeeps
<1>4. CASE \E c \in Clients, t \in Texts : OnAlarmError(c, t)
  BY <1>4, OnAlarmErrorKeeps
<1>5. CASE \E c \in Clients : Panel(c)
  BY <1>5, PanelKeeps
<1>6. CASE \E r \in Runs : Execute(r) \/ End(r)
  BY <1>6, ExecuteKeeps, EndKeeps
<1>7. CASE Complain \/ PostComplaint \/ ClearStop \/ HearStop \/ HearReset
  BY <1>7, ComplainKeeps, PostComplaintKeeps, ClearStopKeeps, HearStopKeeps,
     HearResetKeeps
<1>8. CASE ResetWorker
  BY <1>8, ResetWorkerKeeps
<1>. QED
  BY <1>1, <1>2, <1>3, <1>4, <1>5, <1>6, <1>7, <1>8 DEF Next

\* Only Execute adds a call to those under way, and only past its gate.
LEMMA OnlyExecutePasses ==
  ASSUME Next, NEW r \in Runs, r \notin running, r \in running'
  PROVE  ~ Refused
<1> USE DEF pollVars, watchVars, boardVars, postVars, panelVars, runVars,
            plantVars
<1>1. CASE \E p \in Pollers : Poller(p)
  BY <1>1 DEF Poller, Look, Report, PostReport, DriverError, AlarmCleared,
              PostCleared, StopPoller
<1>2. CASE \E d \in Drives, e \in Codes \cup {Clear} : DriveShows(d, e)
  BY <1>2 DEF DriveShows
<1>3. CASE \E t \in Texts : SendAlarm(t)
  BY <1>3 DEF SendAlarm
<1>4. CASE \E c \in Clients, t \in Texts : OnAlarmError(c, t)
  BY <1>4 DEF OnAlarmError
<1>5. CASE \E c \in Clients : Panel(c)
  BY <1>5 DEF Panel, Connect, AddClient, LoadCurrent, PushCurrent, Disconnect,
              RemoveClient
<1>6. CASE \E q \in Runs : Execute(q) \/ End(q)
  BY <1>6 DEF Execute, End
<1>7. CASE Complain \/ PostComplaint \/ ClearStop \/ HearStop \/ HearReset
  BY <1>7 DEF Complain, PostComplaint, ClearStop, HearStop, HearReset
<1>8. CASE ResetWorker
  BY <1>8 DEF ResetWorker, Reset, TellExecutor, PDOFaultReset, RestartPollers,
              Conclude, PostVerdict
<1>. QED
  BY <1>1, <1>2, <1>3, <1>4, <1>5, <1>6, <1>7, <1>8 DEF Next

LEMMA Inductive == Spec => []IInv
<1>1. IInv /\ [Next]_vars => IInv'
  BY NextKeeps, StutterKeeps
<1>. QED  BY InitOK, <1>1, PTL DEF Spec

----------------------------------------------------------------------------
(* TypeCorrect: the caches, what is on its way, the panels and the workers  *)
(* keep their types, and the input channel its capacity.                    *)
THEOREM TypeCorrect == Spec => []TypeOK
<1>1. IInv => TypeOK
  BY DEF IInv
<1>. QED  BY Inductive, <1>1, PTL

(* AlarmHasOwnerHolds: a cached error that was reported in time belongs to  *)
(* a poller at work, or the reset worker is about to overwrite it.          *)
THEOREM AlarmHasOwnerHolds == Spec => []AlarmHasOwner
<1>1. IInv => AlarmHasOwner
  BY DEF IInv, Owned
<1>. QED  BY Inductive, <1>1, PTL

(* NobodyMissesHolds: as long as no panel has left and no two changes of    *)
(* the list of clients met, no connected panel misses the cached alarm;     *)
(* afterwards only one that its broadcast passed over.                      *)
THEOREM NobodyMissesHolds == Spec => []NobodyMisses
<1>1. IInv => NobodyMisses
  BY DEF IInv, Lists, Reaches, NobodyMisses
<1>. QED  BY Inductive, <1>1, PTL

(* AlwaysWatchedHolds: with the cyclic task running, every drive has a      *)
(* poller outside a reset, whether the reset before succeeded or not.       *)
THEOREM AlwaysWatchedHolds == Spec => []AlwaysWatched
<1>1. IInv => AlwaysWatched
  BY DEF IInv
<1>. QED  BY Inductive, <1>1, PTL

(* AlarmStopsHolds: an alarm that is posted is followed by its stop,        *)
(* whatever overtakes it, until StopExecution is cleared.                   *)
THEOREM AlarmStopsHolds == Spec => []AlarmStops
<1>1. IInv => AlarmStops
  BY DEF IInv
<1>. QED  BY Inductive, <1>1, PTL

(* GateShutHolds: no call of RunCodeFile passes its gate while a report     *)
(* stands that no other clear overwrote.                                    *)
THEOREM GateShutHolds == Spec => GateShut
<1>1. ASSUME IInv, Next, NEW r \in Runs, r \notin running, r \in running',
             NEW d \in Drives, Reported(d)
      PROVE  d \in wiped
  <2>1. cached = Clear
    BY <1>1, OnlyExecutePasses DEF Refused, GetCurrentAlarm
  <2>. QED  BY <1>1, <2>1 DEF IInv, Standing
<1>2. IInv /\ [Next]_vars =>
        [\A r \in Runs : r \notin running /\ r \in running' =>
           \A d \in Drives : Reported(d) => d \in wiped]_vars
  BY <1>1
<1>. QED  BY Inductive, <1>2, PTL DEF Spec, GateShut
=============================================================================
