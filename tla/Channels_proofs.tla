-------------------------- MODULE Channels_proofs ---------------------------
(***************************************************************************)
(* Lemmas about Channels: sends and the steps of NotifyCmdComplete keep    *)
(* the types and the capacities of the channels.                           *)
(***************************************************************************)
EXTENDS Channels, TLAPS

\* A send on CommandExecInputChannel keeps its type and its capacity.
LEMMA WriteTyped ==
  ASSUME ChannelsTypeOK, NEW m \in InputTypes, WriteCommandExecInput(m)
  PROVE  inputs' \in Seq(InputTypes) /\ Len(inputs') <= InputCap
  BY CapAssumption DEF ChannelsTypeOK, WriteCommandExecInput

\* A send on DriverActionChannel keeps its type and its capacity.
LEMMA DriverTyped ==
  ASSUME ChannelsTypeOK, NEW a \in ActionTypes, NotifyMotorDriver(a)
  PROVE  actions' \in Seq(ActionTypes) /\ Len(actions') <= ActionCap
  BY CapAssumption DEF ChannelsTypeOK, NotifyMotorDriver

\* A goroutine that calls NotifyCmdComplete enters one of its steps.
LEMMA CallTyped ==
  ASSUME ChannelsTypeOK, NEW n \in Notifiers,
         CallNotify(n) \/ CallNotifyLater(n)
  PROVE  notifying' \in [Notifiers -> {"no", "check", "send", "clear"}]
  BY DEF ChannelsTypeOK, CallNotify, CallNotifyLater, Tested

\* A step of NotifyCmdComplete keeps the types of the channels: it never puts
\* a second message into the status channel.
LEMMA NotifyTyped ==
  ASSUME ChannelsTypeOK, NEW n \in Notifiers, NotifyCmdComplete(n)
  PROVE  ChannelsTypeOK'
<1>1. CASE NotifyCheck(n)
  BY <1>1, CallTyped DEF NotifyCheck, NotifyCmdComplete, ChannelsTypeOK
<1>2. CASE NotifySend(n)
  BY <1>2 DEF NotifySend, NotifyCmdComplete, ChannelsTypeOK
<1>3. CASE NotifyClear(n)
  BY <1>3 DEF NotifyClear, NotifyCmdComplete, ChannelsTypeOK
<1> QED
  BY <1>1, <1>2, <1>3 DEF NotifyCmdComplete
=============================================================================
