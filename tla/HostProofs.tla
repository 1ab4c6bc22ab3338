----------------------------- MODULE HostProofs -----------------------------
(* The host: the elevated helpers, for any number of requests, timeouts and
   crashes; the profile file, of one process that loads before it saves; the
   background starts, for any number of them; then the six parts side by side,
   each of which keeps what is proved of it alone.  Of a helper: an answer
   still tells what the core does, a shutdown leaves nothing behind, and on
   macOS the resolver outlives the tunnel's route only after an accept that
   failed.                                                                    *)
EXTENDS MCHost, SingBoxEngineProofs, RuleSetInstallProofs, SequenceTheorems, TLAPS

(* The helper of Linux and Windows.                                         *)
OwnerPlaces == {"launching", "ready", "closing", "reaping", "done", "dead"}
HelperPlaces == {"prompt", "arguments", "connect", "bind", "serving", "working", "replying", "cleanup",
                 "gone"}
RequestType == [id : Nat, action : HelperActions]
ReplyType == [action : HelperActions, ok : BOOLEAN]
OwnerType == [pc : OwnerPlaces, token : BOOLEAN, calls : Nat, asked : RequestType,
              last : ReplyType]
HelperType == [pc : HelperPlaces, alive : BOOLEAN, request : RequestType, ok : BOOLEAN,
               lost : BOOLEAN]

\* The records and the queue, which HelperTypeOK looks at field by field.
Typed ==
    /\ dhDirect \in BOOLEAN /\ dhChild \in BOOLEAN /\ dhCore \in BOOLEAN
    /\ dhOwner \in OwnerType /\ dhHelper \in HelperType
    /\ dhBacklog \in Seq(RequestType)

\* A core belongs to a helper that serves; a direct child is the helper.
ProcessInv ==
    /\ dhCore => dhHelper.pc \in {"serving", "working", "replying", "cleanup"}
    /\ dhDirect /\ ~dhChild => HelperGone
    /\ dhOwner.pc = "done" => ~dhChild

\* Requests are carried out in the order of their numbers, and the one the
\* owner waits for is the last.
QueueInv ==
    /\ dhHelper.request.id <= dhOwner.calls
    /\ \A i \in 1 .. Len(dhBacklog) :
          dhHelper.request.id < dhBacklog[i].id /\ dhBacklog[i].id <= dhOwner.calls
    /\ \A i, j \in 1 .. Len(dhBacklog) : i < j => dhBacklog[i].id < dhBacklog[j].id
    /\ Waiting => dhOwner.asked.id = dhOwner.calls

\* A number names one request.
NumberInv ==
    Waiting =>
        /\ dhHelper.request.id = dhOwner.asked.id => dhHelper.request = dhOwner.asked
        /\ \A i \in 1 .. Len(dhBacklog) :
              dhBacklog[i].id = dhOwner.asked.id => dhBacklog[i] = dhOwner.asked

\* What is about to be answered is so, and after a good answer nothing is left
\* to be carried out: the helper is not even at work.
HelperSettled ==
    /\ dhBacklog = <<>> /\ dhHelper.pc \notin {"working", "replying"}
    /\ dhOwner.last.action = "start" /\ dhHelper.pc = "serving" => dhCore
    /\ dhOwner.last.action = "stop" => ~dhCore

TruthInv ==
    /\ dhHelper.pc = "replying" /\ dhHelper.ok =>
          /\ dhHelper.request.action = "start" => dhCore
          /\ dhHelper.request.action = "stop" => ~dhCore
    /\ dhHelper.pc \in {"prompt", "arguments", "connect", "bind"} => ~Waiting /\ ~dhOwner.last.ok
    /\ dhOwner.last.ok /\ ~Waiting /\ dhOwner.pc # "dead" => HelperSettled

HelperInv == Typed /\ ProcessInv /\ QueueInv /\ NumberInv /\ TruthInv

HelperSpec == HelperInit /\ [][HelperNext]_dhVars
-----------------------------------------------------------------------------
(* The start.                                                               *)
LEMMA HelperInitSafe == HelperInit => HelperInv
<1> SUFFICES ASSUME HelperInit PROVE HelperInv
  OBVIOUS
<1> USE DEF HelperInit, NoRequest, NoneYet
<1>1. NoRequest \in RequestType /\ NoneYet \in ReplyType
  BY DEF RequestType, ReplyType, HelperActions
<1>2. dhOwner \in OwnerType /\ dhHelper \in HelperType
  BY <1>1 DEF OwnerType, HelperType, OwnerPlaces, HelperPlaces
<1>3. Typed
  <2>1. dhBacklog \in Seq(RequestType)
    BY EmptySeq
  <2>2. dhDirect \in BOOLEAN /\ dhChild \in BOOLEAN /\ dhCore \in BOOLEAN
    OBVIOUS
  <2> QED BY <1>2, <2>1, <2>2 DEF Typed
<1>4. ProcessInv
  BY DEF ProcessInv, HelperGone
<1>5. QueueInv
  BY DEF QueueInv, Waiting
<1>6. NumberInv /\ TruthInv
  BY DEF NumberInv, TruthInv, Waiting
<1> QED BY <1>3, <1>4, <1>5, <1>6 DEF HelperInv

(* Processes: no step brings back a helper that is gone or a child that ended. *)
LEMMA ProcessStep == ASSUME Typed, ProcessInv, [HelperNext]_dhVars PROVE ProcessInv'
<1> USE DEF Typed, ProcessInv, OwnerType, HelperType, HelperGone
<1>1. CASE UNCHANGED dhVars BY <1>1 DEF dhVars
<1>2. CASE AcceptLease BY <1>2 DEF AcceptLease
<1>3. CASE LaunchFails BY <1>3 DEF LaunchFails
<1>4. CASE CallFails BY <1>4 DEF CallFails, Answered
<1>5. CASE ShutdownBegins BY <1>5 DEF ShutdownBegins
<1>6. CASE DropLease BY <1>6 DEF DropLease
<1>7. CASE ChildReaped BY <1>7 DEF ChildReaped
<1>8. CASE ChildKilled BY <1>8 DEF ChildKilled
<1>9. ASSUME NEW action \in HelperActions, Call(action) PROVE ProcessInv' BY <1>9 DEF Call
<1>10. CASE Authorized BY <1>10 DEF Authorized, HelperMoves
<1>11. CASE ConnectLease BY <1>11 DEF ConnectLease, HelperMoves
<1>12. CASE BindRpc BY <1>12 DEF BindRpc, HelperMoves
<1>13. CASE Watchdog BY <1>13 DEF Watchdog
<1>14. CASE ServeNext BY <1>14 DEF ServeNext, HelperMoves
<1>15. CASE Dispatch BY <1>15 DEF Dispatch
<1>16. CASE Reply BY <1>16 DEF Reply, HelperMoves, Answered
<1>17. CASE Cleanup BY <1>17 DEF Cleanup, HelperMoves
<1>18. CASE ChildExits BY <1>18 DEF ChildExits
<1>19. CASE OwnerDies BY <1>19 DEF OwnerDies
<1>20. CASE HelperDies BY <1>20 DEF HelperDies, HelperMoves
<1>21. CASE ReadToken BY <1>21 DEF ReadToken, HelperMoves
<1>22. CASE StopFails BY <1>22 DEF StopFails
<1>23. CASE AcceptFails BY <1>23 DEF AcceptFails, HelperMoves
<1> QED BY <1>1, <1>2, <1>3, <1>4, <1>5, <1>6, <1>7, <1>8, <1>9, <1>10, <1>11, <1>12, <1>13, <1>14,
           <1>15, <1>16, <1>17, <1>18, <1>19, <1>20,
           <1>21, <1>22, <1>23 DEF HelperNext, OwnerNext, HelperStep

(* The records keep their fields and the queue its requests.                *)
LEMMA TypedStep == ASSUME Typed, [HelperNext]_dhVars PROVE Typed'
<1> USE DEF Typed, OwnerType, HelperType, OwnerPlaces, HelperPlaces
<1>1. CASE UNCHANGED dhVars BY <1>1 DEF dhVars
<1>2. CASE AcceptLease BY <1>2 DEF AcceptLease
<1>3. CASE LaunchFails BY <1>3 DEF LaunchFails
<1>0. NoRequest \in RequestType
  BY DEF NoRequest, HelperActions, RequestType
<1>4. CASE CallFails
  <2>1. dhOwner.asked.action \in HelperActions
    BY DEF RequestType
  <2>2. [action |-> dhOwner.asked.action, ok |-> FALSE] \in ReplyType
    BY <2>1 DEF ReplyType
  <2>3. dhOwner' \in OwnerType
    BY <1>0, <1>4, <2>2 DEF CallFails, Answered
  <2> QED BY <1>4, <2>3 DEF CallFails
<1>5. CASE ShutdownBegins BY <1>5 DEF ShutdownBegins
<1>6. CASE DropLease BY <1>6 DEF DropLease
<1>7. CASE ChildReaped BY <1>7 DEF ChildReaped
<1>8. CASE ChildKilled BY <1>8 DEF ChildKilled
<1>9. ASSUME NEW action \in HelperActions, Call(action) PROVE Typed'
  <2> DEFINE request == [id |-> dhOwner.calls + 1, action |-> action]
  <2>1. request \in RequestType
    BY DEF RequestType
  <2>2. CASE Listening
    <3>1. /\ dhBacklog' = Append(dhBacklog, request)
          /\ dhOwner' = [dhOwner EXCEPT !.calls = @ + 1, !.asked = request]
      BY <1>9, <2>2 DEF Call
    <3>2. dhOwner' \in OwnerType
      <4> DEFINE counted == [dhOwner EXCEPT !.calls = @ + 1]
      <4>1. counted \in OwnerType
        OBVIOUS
      <4>2. dhOwner' = [counted EXCEPT !.asked = request]
        BY <3>1
      <4> HIDE DEF request, counted
      <4> QED BY <2>1, <4>1, <4>2
    <3>3. dhBacklog' \in Seq(RequestType)
      BY <2>1, <3>1, AppendProperties
    <3> QED BY <1>9, <3>2, <3>3 DEF Call
  <2>3. CASE ~Listening
    <3>1. /\ dhBacklog' = dhBacklog
          /\ dhOwner' = [dhOwner EXCEPT !.calls = @ + 1, !.last = [action |-> action, ok |-> FALSE]]
      BY <1>9, <2>3 DEF Call
    <3> DEFINE answer == [action |-> action, ok |-> FALSE]
    <3>4. answer \in ReplyType
      BY DEF ReplyType
    <3>2. dhOwner' \in OwnerType
      <4> DEFINE counted == [dhOwner EXCEPT !.calls = @ + 1]
      <4>1. counted \in OwnerType
        OBVIOUS
      <4>2. dhOwner' = [counted EXCEPT !.last = answer]
        BY <3>1
      <4> HIDE DEF answer, counted
      <4> QED BY <3>4, <4>1, <4>2
    <3>3. UNCHANGED <<dhDirect, dhChild, dhHelper, dhCore>>
      BY <1>9 DEF Call
    <3> QED BY <3>1, <3>2, <3>3
  <2> QED BY <2>2, <2>3
<1>10. CASE Authorized BY <1>10 DEF Authorized, HelperMoves
<1>11. CASE ConnectLease BY <1>11 DEF ConnectLease, HelperMoves
<1>12. CASE BindRpc BY <1>12 DEF BindRpc, HelperMoves
<1>13. CASE Watchdog BY <1>13 DEF Watchdog
<1>14. CASE ServeNext
  <2>1. CASE dhHelper.alive
    <3>1. dhBacklog # <<>> /\ dhBacklog \in Seq(RequestType)
      BY <1>14, <2>1 DEF ServeNext
    <3>2. Head(dhBacklog) \in RequestType /\ Tail(dhBacklog) \in Seq(RequestType)
      BY <3>1, HeadTailProperties
    <3> QED BY <1>14, <2>1, <3>2 DEF ServeNext
  <2>2. CASE ~dhHelper.alive
    BY <1>14, <2>2 DEF ServeNext, HelperMoves
  <2> QED BY <2>1, <2>2
<1>15. CASE Dispatch
  <2> PICK ok \in BOOLEAN :
        /\ dhHelper' = [dhHelper EXCEPT !.pc = "replying", !.ok = ok]
        /\ dhCore' = ((dhCore \/ (dhHelper.request.action = "start" /\ ok)) /\ dhHelper.request.action # "stop")
    BY <1>15 DEF Dispatch
  <2>1. dhCore' \in BOOLEAN
    OBVIOUS
  <2>2. dhHelper' \in HelperType
    OBVIOUS
  <2> QED BY <1>15, <2>1, <2>2 DEF Dispatch
<1>16. CASE Reply
  <2>1. dhHelper' \in HelperType
    BY <1>16 DEF Reply, HelperMoves
  <2>2. [action |-> dhOwner.asked.action, ok |-> dhHelper.ok] \in ReplyType
    BY DEF ReplyType, RequestType
  <2>3. CASE UNCHANGED dhOwner
    BY <1>16, <2>1, <2>3 DEF Reply
  <2>4. CASE Answered(dhHelper.ok)
    <3>1. dhOwner' \in OwnerType
      BY <1>0, <2>2, <2>4 DEF Answered
    <3> QED BY <1>16, <2>1, <3>1 DEF Reply
  <2> QED BY <1>16, <2>3, <2>4 DEF Reply
<1>17. CASE Cleanup BY <1>17 DEF Cleanup, HelperMoves
<1>18. CASE ChildExits BY <1>18 DEF ChildExits
<1>19. CASE OwnerDies
  <2>1. dhOwner' \in OwnerType
    BY <1>0, <1>19 DEF OwnerDies
  <2> QED BY <1>19, <2>1 DEF OwnerDies
<1>20. CASE HelperDies BY <1>20 DEF HelperDies, HelperMoves
<1>21. CASE ReadToken BY <1>21 DEF ReadToken, HelperMoves
<1>22. CASE StopFails BY <1>22 DEF StopFails
<1>23. CASE AcceptFails BY <1>23 DEF AcceptFails, HelperMoves
<1> QED BY <1>1, <1>2, <1>3, <1>4, <1>5, <1>6, <1>7, <1>8, <1>9, <1>10, <1>11, <1>12, <1>13, <1>14,
           <1>15, <1>16, <1>17, <1>18, <1>19, <1>20,
           <1>21, <1>22, <1>23 DEF HelperNext, OwnerNext, HelperStep

-----------------------------------------------------------------------------
(* The steps that make no request, take none and answer none.               *)
Quiet ==
    /\ dhBacklog' = dhBacklog /\ dhHelper'.request = dhHelper.request
    /\ dhOwner'.asked = dhOwner.asked /\ dhOwner'.calls = dhOwner.calls
    /\ dhOwner'.last = dhOwner.last

LEMMA QuietStep ==
    ASSUME Typed, [HelperNext]_dhVars
    PROVE  \/ Quiet \/ CallFails \/ ServeNext \/ Reply \/ OwnerDies
           \/ \E action \in HelperActions : Call(action)
<1> USE DEF Typed, OwnerType, HelperType, Quiet
<1>0. CASE UNCHANGED dhVars BY <1>0 DEF dhVars
<1>1. CASE AcceptLease BY <1>1 DEF AcceptLease
<1>2. CASE LaunchFails BY <1>2 DEF LaunchFails
<1>3. CASE ShutdownBegins BY <1>3 DEF ShutdownBegins
<1>4. CASE DropLease BY <1>4 DEF DropLease
<1>5. CASE ChildReaped BY <1>5 DEF ChildReaped
<1>6. CASE ChildKilled BY <1>6 DEF ChildKilled
<1>7. CASE Authorized BY <1>7 DEF Authorized, HelperMoves
<1>8. CASE ConnectLease BY <1>8 DEF ConnectLease, HelperMoves
<1>9. CASE BindRpc BY <1>9 DEF BindRpc, HelperMoves
<1>10. CASE Watchdog BY <1>10 DEF Watchdog
<1>11. CASE Dispatch BY <1>11 DEF Dispatch
<1>12. CASE Cleanup BY <1>12 DEF Cleanup, HelperMoves
<1>13. CASE ChildExits BY <1>13 DEF ChildExits
<1>14. CASE HelperDies BY <1>14 DEF HelperDies, HelperMoves
<1>15. CASE ReadToken BY <1>15 DEF ReadToken, HelperMoves
<1>16. CASE StopFails BY <1>16 DEF StopFails
<1>17. CASE AcceptFails BY <1>17 DEF AcceptFails, HelperMoves
<1> QED BY <1>0, <1>1, <1>2, <1>3, <1>4, <1>5, <1>6, <1>7, <1>8, <1>9, <1>10, <1>11, <1>12, <1>13, <1>14,
           <1>15, <1>16, <1>17
          DEF HelperNext, OwnerNext, HelperStep

(* What the steps that are not quiet do to the requests.                    *)
LEMMA CallDoes ==
    ASSUME Typed, NEW action \in HelperActions, Call(action)
    PROVE  /\ dhOwner'.calls = dhOwner.calls + 1 /\ dhHelper' = dhHelper
           /\ dhOwner'.pc = dhOwner.pc /\ ~Waiting /\ dhCore' = dhCore
           /\ \/ /\ Listening /\ dhOwner'.asked = [id |-> dhOwner.calls + 1, action |-> action]
                 /\ Len(dhBacklog') = Len(dhBacklog) + 1
                 /\ \A i \in 1 .. Len(dhBacklog) : dhBacklog'[i] = dhBacklog[i]
                 /\ dhBacklog'[Len(dhBacklog) + 1] = dhOwner'.asked
              \/ /\ ~Listening /\ dhOwner'.asked = dhOwner.asked /\ dhBacklog' = dhBacklog
                 /\ ~dhOwner'.last.ok
<1> DEFINE request == [id |-> dhOwner.calls + 1, action |-> action]
<1> USE DEF Typed, OwnerType
<1>1. request \in RequestType
  BY DEF RequestType
<1>2. ~Waiting /\ dhHelper' = dhHelper /\ dhCore' = dhCore
  BY DEF Call
<1>3. CASE Listening
  <2>1. /\ dhBacklog' = Append(dhBacklog, request)
        /\ dhOwner' = [dhOwner EXCEPT !.calls = @ + 1, !.asked = request]
    BY <1>3 DEF Call
  <2>2. dhOwner'.asked = request /\ dhOwner'.calls = dhOwner.calls + 1 /\ dhOwner'.pc = dhOwner.pc
    BY <2>1
  <2>3. /\ Len(dhBacklog') = Len(dhBacklog) + 1
        /\ \A i \in 1 .. Len(dhBacklog) : dhBacklog'[i] = dhBacklog[i]
        /\ dhBacklog'[Len(dhBacklog) + 1] = request
    BY <1>1, <2>1, AppendProperties
  <2> QED BY <1>2, <1>3, <2>2, <2>3
<1>4. CASE ~Listening
  <2>1. /\ dhBacklog' = dhBacklog
        /\ dhOwner' = [dhOwner EXCEPT !.calls = @ + 1, !.last = [action |-> action, ok |-> FALSE]]
    BY <1>4 DEF Call
  <2> QED BY <1>2, <1>4, <2>1
<1> QED BY <1>3, <1>4

LEMMA ServeDoes ==
    ASSUME Typed, ServeNext
    PROVE  /\ dhOwner' = dhOwner /\ dhCore' = dhCore /\ dhHelper.pc = "serving"
           /\ \/ /\ dhBacklog # <<>> /\ dhHelper'.request = dhBacklog[1]
                 /\ dhHelper'.pc = "working" /\ 1 <= Len(dhBacklog)
                 /\ Len(dhBacklog') = Len(dhBacklog) - 1
                 /\ \A i \in 1 .. Len(dhBacklog') : dhBacklog'[i] = dhBacklog[i + 1]
              \/ /\ dhHelper'.request = dhHelper.request /\ dhHelper'.pc = "cleanup"
                 /\ dhBacklog' = dhBacklog
<1> USE DEF Typed, HelperType
<1>1. dhOwner' = dhOwner /\ dhCore' = dhCore /\ dhHelper.pc = "serving"
  BY DEF ServeNext
<1>2. CASE dhHelper.alive
  <2>1. /\ dhBacklog # <<>> /\ dhBacklog' = Tail(dhBacklog)
        /\ dhHelper' = [dhHelper EXCEPT !.pc = "working", !.request = Head(dhBacklog)]
    BY <1>2 DEF ServeNext
  <2>2. /\ Len(dhBacklog') = Len(dhBacklog) - 1
        /\ \A i \in 1 .. Len(dhBacklog') : dhBacklog'[i] = dhBacklog[i + 1]
    BY <2>1, HeadTailProperties
  <2>3. 1 <= Len(dhBacklog)
    BY <2>1, EmptySeq
  <2>4. Head(dhBacklog) = dhBacklog[1]
    BY <2>3
  <2>5. dhHelper'.request = dhBacklog[1] /\ dhHelper'.pc = "working"
    BY <2>1, <2>4
  <2> QED BY <1>1, <2>1, <2>2, <2>3, <2>5
<1>3. CASE ~dhHelper.alive
  BY <1>1, <1>3 DEF ServeNext, HelperMoves
<1> QED BY <1>2, <1>3

LEMMA AnsweredDoes ==
    ASSUME Typed, NEW ok \in BOOLEAN, Answered(ok)
    PROVE  /\ dhOwner'.asked = NoRequest /\ dhOwner'.calls = dhOwner.calls
           /\ dhOwner'.last = [action |-> dhOwner.asked.action, ok |-> ok]
BY DEF Typed, OwnerType, Answered

LEMMA ReplyDoes ==
    ASSUME Typed, Reply
    PROVE  /\ dhBacklog' = dhBacklog /\ dhHelper'.request = dhHelper.request
           /\ dhCore' = dhCore /\ dhHelper.pc = "replying" /\ dhHelper'.pc \in {"serving", "cleanup"}
           /\ dhOwner'.calls = dhOwner.calls
           /\ \/ /\ Waiting /\ dhOwner.asked.id = dhHelper.request.id
                 /\ dhOwner'.asked = NoRequest
                 /\ dhOwner'.last = [action |-> dhOwner.asked.action, ok |-> dhHelper.ok]
              \/ dhOwner' = dhOwner /\ ~(Waiting /\ dhOwner.asked.id = dhHelper.request.id)
<1>1. /\ dhBacklog' = dhBacklog /\ dhHelper'.request = dhHelper.request
      /\ dhCore' = dhCore /\ dhHelper.pc = "replying" /\ dhHelper'.pc \in {"serving", "cleanup"}
  BY DEF Reply, HelperMoves, Typed, HelperType
<1>2. dhHelper.ok \in BOOLEAN
  BY DEF Typed, HelperType
<1>3. CASE Waiting /\ dhOwner.asked.id = dhHelper.request.id
  <2>1. Answered(dhHelper.ok)
    BY <1>3 DEF Reply
  <2> QED BY <1>1, <1>2, <1>3, <2>1, AnsweredDoes
<1>4. CASE ~(Waiting /\ dhOwner.asked.id = dhHelper.request.id)
  <2>1. dhOwner' = dhOwner
    BY <1>4 DEF Reply
  <2> QED BY <1>1, <1>4, <2>1
<1> QED BY <1>3, <1>4

LEMMA CallFailsDoes ==
    ASSUME Typed, CallFails
    PROVE  /\ dhOwner'.asked = NoRequest /\ dhOwner'.calls = dhOwner.calls
           /\ ~dhOwner'.last.ok /\ dhHelper' = dhHelper /\ dhBacklog' = dhBacklog
           /\ dhCore' = dhCore
<1>1. Answered(FALSE)
  BY DEF CallFails
<1>2. dhOwner'.asked = NoRequest /\ dhOwner'.calls = dhOwner.calls /\ ~dhOwner'.last.ok
  BY <1>1 DEF Answered, Typed, OwnerType
<1> QED BY <1>2 DEF CallFails

LEMMA OwnerDiesDoes ==
    ASSUME Typed, OwnerDies
    PROVE  /\ dhOwner'.asked = NoRequest /\ dhOwner'.calls = dhOwner.calls
           /\ dhOwner'.pc = "dead" /\ dhOwner'.last = dhOwner.last
           /\ dhHelper' = dhHelper /\ dhBacklog' = dhBacklog /\ dhCore' = dhCore
BY DEF OwnerDies, Typed, OwnerType
-----------------------------------------------------------------------------
LEMMA Fields ==
    ASSUME Typed
    PROVE  /\ dhOwner.calls \in Nat /\ dhHelper.request.id \in Nat /\ dhOwner.asked.id \in Nat
           /\ Len(dhBacklog) \in Nat
           /\ \A i \in 1 .. Len(dhBacklog) : dhBacklog[i].id \in Nat
<1>1. dhOwner.calls \in Nat /\ dhOwner.asked.id \in Nat
  BY DEF Typed, OwnerType, RequestType
<1>2. dhHelper.request.id \in Nat
  BY DEF Typed, HelperType, RequestType
<1>3. dhBacklog \in Seq(RequestType) /\ Len(dhBacklog) \in Nat
  BY LenProperties DEF Typed
<1>4. ASSUME NEW i \in 1 .. Len(dhBacklog) PROVE dhBacklog[i].id \in Nat
  <2>1. dhBacklog[i] \in RequestType
    BY <1>3, ElementOfSeq
  <2> QED BY <2>1 DEF RequestType
<1> QED BY <1>1, <1>2, <1>3, <1>4

(* Requests are carried out in the order of their numbers.                  *)
LEMMA QueueStep == ASSUME Typed, QueueInv, [HelperNext]_dhVars PROVE QueueInv'
<1> USE Fields
<1>1. CASE Quiet
  BY <1>1 DEF Quiet, QueueInv, Waiting
<1>2. CASE CallFails
  BY <1>2, CallFailsDoes DEF QueueInv, Waiting
<1>3. CASE ServeNext
  <2>1. CASE dhHelper'.request = dhHelper.request /\ dhBacklog' = dhBacklog
    BY <1>3, <2>1, ServeDoes DEF QueueInv, Waiting
  <2>2. CASE /\ dhHelper'.request = dhBacklog[1] /\ 1 <= Len(dhBacklog)
             /\ Len(dhBacklog') = Len(dhBacklog) - 1
             /\ \A i \in 1 .. Len(dhBacklog') : dhBacklog'[i] = dhBacklog[i + 1]
    <3> DEFINE n == Len(dhBacklog)
    <3>1. dhOwner' = dhOwner
      BY <1>3, ServeDoes
    <3>2. dhHelper'.request.id <= dhOwner.calls
      BY <2>2 DEF QueueInv
    <3>3. ASSUME NEW i \in 1 .. n - 1
          PROVE dhHelper'.request.id < dhBacklog'[i].id /\ dhBacklog'[i].id <= dhOwner.calls
      <4>1. 1 \in 1 .. n /\ i + 1 \in 1 .. n /\ 1 < i + 1
        OBVIOUS
      <4>2. dhBacklog'[i] = dhBacklog[i + 1]
        BY <2>2
      <4>3. dhBacklog[1].id < dhBacklog[i + 1].id /\ dhBacklog[i + 1].id <= dhOwner.calls
        BY <4>1 DEF QueueInv
      <4> QED BY <2>2, <4>2, <4>3
    <3>4. ASSUME NEW i \in 1 .. n - 1, NEW j \in 1 .. n - 1, i < j
          PROVE dhBacklog'[i].id < dhBacklog'[j].id
      <4>1. i + 1 \in 1 .. n /\ j + 1 \in 1 .. n /\ i + 1 < j + 1
        BY <3>4
      <4>2. dhBacklog'[i] = dhBacklog[i + 1] /\ dhBacklog'[j] = dhBacklog[j + 1]
        BY <2>2
      <4> QED BY <4>1, <4>2 DEF QueueInv
    <3> QED BY <2>2, <3>1, <3>2, <3>3, <3>4 DEF QueueInv, Waiting
  <2> QED BY <1>3, <2>1, <2>2, ServeDoes
<1>4. CASE Reply
  BY <1>4, ReplyDoes DEF QueueInv, Waiting
<1>5. CASE OwnerDies
  BY <1>5, OwnerDiesDoes DEF QueueInv, Waiting
<1>6. ASSUME NEW action \in HelperActions, Call(action) PROVE QueueInv'
  <2>1. CASE dhOwner'.asked = dhOwner.asked /\ dhBacklog' = dhBacklog
    <3>1. dhOwner'.calls = dhOwner.calls + 1 /\ dhHelper' = dhHelper /\ ~Waiting
      BY <1>6, CallDoes
    <3>2. ~Waiting'
      BY <2>1, <3>1 DEF Waiting
    <3>3. dhHelper'.request.id <= dhOwner'.calls
      BY <3>1 DEF QueueInv
    <3>4. \A i \in 1 .. Len(dhBacklog') :
             dhHelper'.request.id < dhBacklog'[i].id /\ dhBacklog'[i].id <= dhOwner'.calls
      BY <2>1, <3>1 DEF QueueInv
    <3>5. \A i, j \in 1 .. Len(dhBacklog') : i < j => dhBacklog'[i].id < dhBacklog'[j].id
      BY <2>1 DEF QueueInv
    <3> QED BY <3>2, <3>3, <3>4, <3>5 DEF QueueInv
  <2>2. CASE /\ dhOwner'.asked = [id |-> dhOwner.calls + 1, action |-> action]
             /\ Len(dhBacklog') = Len(dhBacklog) + 1
             /\ \A i \in 1 .. Len(dhBacklog) : dhBacklog'[i] = dhBacklog[i]
             /\ dhBacklog'[Len(dhBacklog) + 1] = dhOwner'.asked
    <3> DEFINE n == Len(dhBacklog)
    <3>1. /\ dhOwner'.calls = dhOwner.calls + 1 /\ dhHelper' = dhHelper
          /\ dhOwner'.asked.id = dhOwner.calls + 1
      BY <1>6, <2>2, CallDoes
    <3>2. \A i \in 1 .. n : dhBacklog'[i].id = dhBacklog[i].id /\ dhBacklog[i].id <= dhOwner.calls
      BY <2>2 DEF QueueInv
    <3>3. dhBacklog'[n + 1].id = dhOwner.calls + 1
      BY <2>2, <3>1
    <3>4. ASSUME NEW i \in 1 .. n + 1
          PROVE dhHelper'.request.id < dhBacklog'[i].id /\ dhBacklog'[i].id <= dhOwner'.calls
      BY <3>1, <3>2, <3>3 DEF QueueInv
    <3>5. ASSUME NEW i \in 1 .. n + 1, NEW j \in 1 .. n + 1, i < j
          PROVE dhBacklog'[i].id < dhBacklog'[j].id
      <4>1. CASE j = n + 1
        BY <3>2, <3>3, <3>5, <4>1
      <4>2. CASE j # n + 1
        <5>1. i \in 1 .. n /\ j \in 1 .. n
          BY <3>5, <4>2
        <5>2. dhBacklog[i].id < dhBacklog[j].id
          BY <3>5, <5>1 DEF QueueInv
        <5> QED BY <3>2, <5>1, <5>2
      <4> QED BY <4>1, <4>2
    <3>6. dhHelper'.request.id <= dhOwner'.calls
      BY <3>1 DEF QueueInv
    <3> QED BY <2>2, <3>1, <3>4, <3>5, <3>6 DEF QueueInv
  <2> QED BY <1>6, <2>1, <2>2, CallDoes
<1> QED BY <1>1, <1>2, <1>3, <1>4, <1>5, <1>6, QuietStep

(* A number names one request, whoever looks it up.                         *)
LEMMA NumberStep == ASSUME Typed, QueueInv, NumberInv, [HelperNext]_dhVars PROVE NumberInv'
<1> USE Fields
<1>1. CASE Quiet
  BY <1>1 DEF Quiet, NumberInv, Waiting
<1>2. CASE CallFails
  BY <1>2, CallFailsDoes DEF NumberInv, Waiting
<1>3. CASE ServeNext
  <2>1. CASE dhHelper'.request = dhHelper.request /\ dhBacklog' = dhBacklog
    BY <1>3, <2>1, ServeDoes DEF NumberInv, Waiting
  <2>2. CASE /\ dhHelper'.request = dhBacklog[1] /\ 1 <= Len(dhBacklog)
             /\ Len(dhBacklog') = Len(dhBacklog) - 1
             /\ \A i \in 1 .. Len(dhBacklog') : dhBacklog'[i] = dhBacklog[i + 1]
    <3>1. dhOwner' = dhOwner
      BY <1>3, ServeDoes
    <3>2. ASSUME Waiting, NEW i \in 1 .. Len(dhBacklog), dhBacklog[i].id = dhOwner.asked.id
          PROVE dhBacklog[i] = dhOwner.asked
      BY <3>2 DEF NumberInv
    <3>3. ASSUME Waiting, dhHelper'.request.id = dhOwner.asked.id
          PROVE dhHelper'.request = dhOwner.asked
      BY <2>2, <3>2, <3>3
    <3>4. ASSUME Waiting, NEW i \in 1 .. Len(dhBacklog'), dhBacklog'[i].id = dhOwner.asked.id
          PROVE dhBacklog'[i] = dhOwner.asked
      BY <2>2, <3>2, <3>4
    <3> QED BY <3>1, <3>3, <3>4 DEF NumberInv, Waiting
  <2> QED BY <1>3, <2>1, <2>2, ServeDoes
<1>4. CASE Reply
  BY <1>4, ReplyDoes DEF NumberInv, Waiting
<1>5. CASE OwnerDies
  BY <1>5, OwnerDiesDoes DEF NumberInv, Waiting
<1>6. ASSUME NEW action \in HelperActions, Call(action) PROVE NumberInv'
  <2>1. CASE dhOwner'.asked = dhOwner.asked
    BY <1>6, <2>1, CallDoes DEF NumberInv, Waiting
  <2>2. CASE /\ dhOwner'.asked = [id |-> dhOwner.calls + 1, action |-> action]
             /\ Len(dhBacklog') = Len(dhBacklog) + 1
             /\ \A i \in 1 .. Len(dhBacklog) : dhBacklog'[i] = dhBacklog[i]
             /\ dhBacklog'[Len(dhBacklog) + 1] = dhOwner'.asked
    <3>1. dhOwner'.asked.id = dhOwner.calls + 1 /\ dhHelper' = dhHelper
      BY <1>6, <2>2, CallDoes
    <3>2. dhHelper'.request.id # dhOwner'.asked.id
      BY <3>1 DEF QueueInv
    <3>3. \A i \in 1 .. Len(dhBacklog) : dhBacklog'[i].id # dhOwner'.asked.id
      BY <2>2, <3>1 DEF QueueInv
    <3>4. \A i \in 1 .. Len(dhBacklog') : dhBacklog'[i].id = dhOwner'.asked.id => dhBacklog'[i] = dhOwner'.asked
      BY <2>2, <3>3
    <3> QED BY <3>2, <3>4 DEF NumberInv
  <2> QED BY <1>6, <2>1, <2>2, CallDoes
<1> QED BY <1>1, <1>2, <1>3, <1>4, <1>5, <1>6, QuietStep

(* The truth of an answer.  The steps that are not quiet come first: with what
   they do to the requests, QueueInv leaves nothing behind a good answer.   *)
LEMMA TruthReply ==
    ASSUME Typed, QueueInv, NumberInv, TruthInv, Reply PROVE TruthInv'
<1> USE Fields
<1>1. dhBacklog' = dhBacklog /\ dhCore' = dhCore /\ dhHelper'.pc \in {"serving", "cleanup"}
  BY ReplyDoes
<1>2. CASE dhOwner' = dhOwner /\ ~(Waiting /\ dhOwner.asked.id = dhHelper.request.id)
  <2>1. ~(dhOwner.last.ok /\ ~Waiting /\ dhOwner.pc # "dead")
    BY ReplyDoes DEF TruthInv, HelperSettled
  <2> QED BY <1>1, <1>2, <2>1 DEF TruthInv, Waiting
<1>3. CASE /\ Waiting /\ dhOwner.asked.id = dhHelper.request.id
           /\ dhOwner'.asked = NoRequest
           /\ dhOwner'.last = [action |-> dhOwner.asked.action, ok |-> dhHelper.ok]
  <2>1. dhHelper.request = dhOwner.asked /\ dhHelper.request.id = dhOwner.calls
    BY <1>3 DEF QueueInv, NumberInv
  <2>2. Len(dhBacklog) = 0
    <3>1. ASSUME Len(dhBacklog) # 0 PROVE FALSE
      <4>1. 1 \in 1 .. Len(dhBacklog)
        BY <3>1
      <4> QED BY <2>1, <4>1 DEF QueueInv
    <3> QED BY <3>1
  <2>3. dhBacklog = <<>>
    BY <2>2, EmptySeq DEF Typed
  <2>4. dhOwner'.last.ok = dhHelper.ok /\ dhOwner'.last.action = dhHelper.request.action
    BY <1>3, <2>1
  <2>5. dhHelper.pc = "replying"
    BY ReplyDoes
  <2>6. dhOwner'.last.ok => HelperSettled'
    BY <1>1, <2>3, <2>4, <2>5 DEF TruthInv, HelperSettled
  <2> QED BY <1>1, <2>6 DEF TruthInv
<1> QED BY <1>2, <1>3, ReplyDoes

LEMMA TruthCall ==
    ASSUME Typed, TruthInv, NEW action \in HelperActions, Call(action) PROVE TruthInv'
<1> USE Fields
<1>1. dhHelper' = dhHelper /\ dhCore' = dhCore /\ ~Waiting
  BY CallDoes
<1>2. CASE Listening /\ dhOwner'.asked = [id |-> dhOwner.calls + 1, action |-> action]
  <2>1. dhOwner'.asked # NoRequest
    BY <1>2 DEF NoRequest
  <2> QED BY <1>1, <1>2, <2>1 DEF TruthInv, Waiting, Listening
<1>3. CASE dhOwner'.asked = dhOwner.asked /\ ~dhOwner'.last.ok
  <2>1. ~Waiting'
    BY <1>1, <1>3 DEF Waiting
  <2> QED BY <1>1, <1>3, <2>1 DEF TruthInv
<1>4. \/ Listening /\ dhOwner'.asked = [id |-> dhOwner.calls + 1, action |-> action]
      \/ dhOwner'.asked = dhOwner.asked /\ ~dhOwner'.last.ok
  BY CallDoes
<1> QED BY <1>2, <1>3, <1>4

LEMMA TruthStep ==
    ASSUME Typed, ProcessInv, QueueInv, NumberInv, TruthInv, [HelperNext]_dhVars PROVE TruthInv'
<1> USE DEF Typed, OwnerType, HelperType, OwnerPlaces
<1>0. CASE UNCHANGED dhVars BY <1>0 DEF dhVars, TruthInv, HelperSettled, Waiting
<1>1. CASE AcceptLease BY <1>1 DEF AcceptLease, TruthInv, HelperSettled, Waiting
<1>2. CASE LaunchFails BY <1>2 DEF LaunchFails, TruthInv, HelperSettled, Waiting
<1>3. CASE ShutdownBegins BY <1>3 DEF ShutdownBegins, TruthInv, HelperSettled, Waiting
<1>4. CASE DropLease BY <1>4 DEF DropLease, TruthInv, HelperSettled, Waiting
<1>5. CASE ChildReaped BY <1>5 DEF ChildReaped, TruthInv, HelperSettled, Waiting
<1>6. CASE ChildKilled BY <1>6 DEF ChildKilled, TruthInv, HelperSettled, Waiting
<1>7. CASE Authorized BY <1>7 DEF Authorized, HelperMoves, TruthInv, HelperSettled, Waiting
<1>8. CASE ConnectLease BY <1>8 DEF ConnectLease, HelperMoves, TruthInv, HelperSettled, Waiting
<1>9. CASE BindRpc BY <1>9 DEF BindRpc, HelperMoves, TruthInv, HelperSettled, Waiting
<1>10. CASE Watchdog BY <1>10 DEF Watchdog, TruthInv, HelperSettled, Waiting
<1>11. CASE Cleanup BY <1>11 DEF Cleanup, HelperMoves, ProcessInv, TruthInv, HelperSettled, Waiting
<1>12. CASE ChildExits BY <1>12 DEF ChildExits, TruthInv, HelperSettled, Waiting
<1>13. CASE HelperDies BY <1>13 DEF HelperDies, HelperMoves, ProcessInv, TruthInv, HelperSettled, Waiting
<1>14. CASE Dispatch
  <2>1. PICK ok \in BOOLEAN :
        /\ dhHelper' = [dhHelper EXCEPT !.pc = "replying", !.ok = ok]
        /\ dhHelper.request.action = "start" /\ ok => ~dhCore
        /\ dhHelper.request.action = "stop" => ok = dhCore
        /\ dhCore' = ((dhCore \/ (dhHelper.request.action = "start" /\ ok)) /\ dhHelper.request.action # "stop")
    BY <1>14 DEF Dispatch
  <2>2. dhHelper.pc = "working" /\ dhOwner' = dhOwner
    BY <1>14 DEF Dispatch
  <2>3. ~(dhOwner.last.ok /\ ~Waiting /\ dhOwner.pc # "dead")
    BY <2>2 DEF TruthInv, HelperSettled
  <2>4. /\ dhHelper'.pc = "replying" /\ dhHelper'.ok = ok /\ dhHelper'.request = dhHelper.request
        /\ ok /\ dhHelper.request.action = "start" => dhCore'
        /\ dhHelper.request.action = "stop" => ~dhCore'
    BY <2>1
  <2> QED BY <2>2, <2>3, <2>4 DEF TruthInv, Waiting
<1>15. CASE CallFails BY <1>15, CallFailsDoes DEF TruthInv, Waiting
<1>16. CASE ServeNext
  <2>1. dhOwner' = dhOwner /\ dhCore' = dhCore /\ dhHelper.pc = "serving"
    BY <1>16, ServeDoes
  <2>2. CASE dhHelper'.pc = "working" /\ dhBacklog # <<>>
    BY <2>1, <2>2 DEF TruthInv, HelperSettled, Waiting
  <2>3. CASE dhHelper'.pc = "cleanup" /\ dhBacklog' = dhBacklog
    BY <2>1, <2>3 DEF TruthInv, HelperSettled, Waiting
  <2> QED BY <1>16, <2>2, <2>3, ServeDoes
<1>17. CASE Reply BY <1>17, TruthReply
<1>18. CASE OwnerDies BY <1>18, OwnerDiesDoes DEF TruthInv, Waiting
<1>19. ASSUME NEW action \in HelperActions, Call(action) PROVE TruthInv'
  BY <1>19, TruthCall
<1>20. CASE ReadToken BY <1>20 DEF ReadToken, HelperMoves, TruthInv, HelperSettled, Waiting
<1>21. CASE StopFails BY <1>21 DEF StopFails, TruthInv, HelperSettled, Waiting
<1>22. CASE AcceptFails BY <1>22 DEF AcceptFails, HelperMoves, TruthInv, HelperSettled, Waiting
<1> QED BY <1>0, <1>1, <1>2, <1>3, <1>4, <1>5, <1>6, <1>7, <1>8, <1>9, <1>10, <1>11, <1>12, <1>13,
           <1>14, <1>15, <1>16, <1>17, <1>18, <1>19,
           <1>20, <1>21, <1>22 DEF HelperNext, OwnerNext, HelperStep
-----------------------------------------------------------------------------
(* The bounds: a request waits in the backlog once, and never after it was
   taken.                                                                   *)
HelperBounds ==
    /\ dhLease \in {"none", "offered", "held", "closed"}
    /\ dhMishaps \in 0 .. MaxHelperMishaps
    /\ dhOwner.calls <= MaxHelperCalls /\ Len(dhBacklog) <= dhOwner.calls

LEMMA HelperBoundsStep ==
    ASSUME Typed, HelperBounds, [HelperNext]_dhVars
    PROVE  HelperBounds'
<1>0. MaxHelperCalls \in Nat /\ MaxHelperMishaps \in Nat
  BY DesktopHelperAssumption DEF DesktopHelperAssumption
<1>1. dhLease' \in {"none", "offered", "held", "closed"} /\ dhMishaps' \in 0 .. MaxHelperMishaps
  <2> USE <1>0 DEF HelperBounds
  <2>1. CASE UNCHANGED dhVars
    BY <2>1 DEF dhVars
  <2>2. CASE AcceptLease
    BY <2>2 DEF AcceptLease
  <2>3. CASE LaunchFails
    BY <2>3 DEF LaunchFails
  <2>4. CASE CallFails
    BY <2>4 DEF CallFails, Mishap
  <2>5. CASE ShutdownBegins
    BY <2>5 DEF ShutdownBegins
  <2>6. CASE DropLease
    BY <2>6 DEF DropLease
  <2>7. CASE ChildReaped
    BY <2>7 DEF ChildReaped, CloseLease
  <2>8. CASE ChildKilled
    BY <2>8 DEF ChildKilled
  <2>9. CASE OwnerDies
    BY <2>9 DEF OwnerDies, Mishap, CloseLease
  <2>10. CASE Authorized
    BY <2>10 DEF Authorized
  <2>11. CASE ConnectLease
    BY <2>11 DEF ConnectLease
  <2>12. CASE BindRpc
    BY <2>12 DEF BindRpc, Mishap
  <2>13. CASE Watchdog
    BY <2>13 DEF Watchdog
  <2>14. CASE ServeNext
    BY <2>14 DEF ServeNext
  <2>15. CASE Dispatch
    BY <2>15 DEF Dispatch
  <2>16. CASE Reply
    BY <2>16 DEF Reply
  <2>17. CASE Cleanup
    BY <2>17 DEF Cleanup
  <2>18. CASE HelperDies
    BY <2>18 DEF HelperDies, Mishap
  <2>19. CASE ChildExits
    BY <2>19 DEF ChildExits
  <2>20. CASE \E action \in HelperActions : Call(action)
    BY <2>20 DEF Call
  <2>21. CASE ReadToken BY <2>21 DEF ReadToken
  <2>22. CASE StopFails BY <2>22 DEF StopFails, Mishap
  <2>23. CASE AcceptFails BY <2>23 DEF AcceptFails, Mishap
  <2> QED BY <2>1, <2>2, <2>3, <2>4, <2>5, <2>6, <2>7, <2>8, <2>9, <2>10, <2>11, <2>12, <2>13,
             <2>14, <2>15, <2>16, <2>17, <2>18, <2>19, <2>20,
             <2>21, <2>22, <2>23
          DEF HelperNext, OwnerNext, HelperStep
<1>2. dhOwner'.calls <= MaxHelperCalls /\ Len(dhBacklog') <= dhOwner'.calls
  <2> USE Fields, <1>0 DEF HelperBounds
  <2>1. CASE Quiet
    BY <2>1 DEF Quiet
  <2>2. CASE CallFails
    BY <2>2, CallFailsDoes
  <2>3. CASE ServeNext
    BY <2>3, ServeDoes
  <2>4. CASE Reply
    BY <2>4, ReplyDoes
  <2>5. CASE OwnerDies
    BY <2>5, OwnerDiesDoes
  <2>6. ASSUME NEW action \in HelperActions, Call(action)
        PROVE  dhOwner'.calls <= MaxHelperCalls /\ Len(dhBacklog') <= dhOwner'.calls
    <3>1. dhOwner.calls < MaxHelperCalls
      BY <2>6 DEF Call
    <3>2. /\ dhOwner'.calls = dhOwner.calls + 1
          /\ Len(dhBacklog') = Len(dhBacklog) + 1 \/ dhBacklog' = dhBacklog
      BY <2>6, CallDoes
    <3> QED BY <3>1, <3>2
  <2> QED BY <2>1, <2>2, <2>3, <2>4, <2>5, <2>6, QuietStep
<1> QED BY <1>1, <1>2 DEF HelperBounds

-----------------------------------------------------------------------------
(* The invariant that carries the rest, through failing stops, an accept that
   fails and a lease that waits in the listener of launch.                  *)
THEOREM HelperSafe == HelperSpec => []HelperInv
<1>1. HelperInv /\ [HelperNext]_dhVars => HelperInv'
  BY TypedStep, ProcessStep, QueueStep, NumberStep, TruthStep DEF HelperInv
<1> QED BY HelperInitSafe, <1>1, PTL DEF HelperSpec

(* Where the child is the helper, a shutdown that returned leaves no elevated
   process and no core behind (desktop_helper.rs:260).                      *)
THEOREM HelperShutdownMeansGone == HelperSpec => []ShutdownMeansGone
<1>1. HelperInv => ShutdownMeansGone
  BY DEF HelperInv, ProcessInv, ShutdownMeansGone, HelperGone
<1> QED BY <1>1, HelperSafe, PTL

(* The last answer tells what the helper's core does, although requests that
   timed out are still carried out (desktop_helper.rs:405).                 *)
THEOREM HelperAnswerIsCurrent == HelperSpec => []AnswerIsCurrent
<1>1. HelperInv => AnswerIsCurrent
  BY DEF HelperInv, TruthInv, HelperSettled, AnswerIsCurrent, Listening
<1> QED BY <1>1, HelperSafe, PTL
(* Every variable keeps its type, and the requests their bounds.            *)
THEOREM HelperTyped == HelperSpec => []HelperTypeOK
<1>0. MaxHelperCalls \in Nat /\ MaxHelperMishaps \in Nat
  BY DesktopHelperAssumption DEF DesktopHelperAssumption
<1>1. HelperInit => HelperBounds
  BY <1>0 DEF HelperInit, HelperBounds
<1>2. HelperInv /\ HelperBounds /\ [HelperNext]_dhVars => HelperBounds'
  BY HelperBoundsStep DEF HelperInv
<1>3. HelperInv /\ HelperBounds => HelperTypeOK
  BY Fields, <1>0
     DEF HelperInv, HelperBounds, HelperTypeOK, Typed, OwnerType, HelperType, OwnerPlaces,
         HelperPlaces
<1>4. HelperSpec => []HelperInv
  BY HelperSafe
<1> QED BY <1>1, <1>2, <1>3, <1>4, PTL DEF HelperSpec
-----------------------------------------------------------------------------
(* The helper of macOS.                                                     *)
MacSpec == MacInit /\ [][MacNext]_mhVars

MacOwnerPlaces == {"launching", "ready", "closing", "reaping", "done", "dead"}
MacHelperPlaces == {"prompt", "connect", "bind", "serving", "working", "publish", "rollback",
                    "stopping", "replying", "dropping", "gone"}
MacRequestType == [id : Nat, action : MacActions]
AnswerType == [action : MacActions, ok : BOOLEAN]
MacOwnerType == [pc : MacOwnerPlaces, calls : Nat, asked : MacRequestType, last : AnswerType]
MacHelperType == [pc : MacHelperPlaces, request : MacRequestType, ok : BOOLEAN,
                  lost : BOOLEAN]

\* The records and the queue, which MacTypeOK looks at field by field.
MacTyped ==
    /\ mhCore \in BOOLEAN /\ mhDns \in BOOLEAN
    /\ mhOwner \in MacOwnerType /\ mhHelper \in MacHelperType
    /\ mhBacklog \in Seq(MacRequestType)

\* The resolver is published last and withdrawn first, and both go with the
\* process; only a state that is dropped after a failed accept loses the core
\* before the resolver.
RouteInv ==
    /\ mhDns => mhCore \/ mhHelper.pc = "dropping"
    /\ mhCore => MacServing /\ mhHelper.pc # "dropping"
    /\ mhHelper.pc \in {"publish", "rollback"} =>
          mhCore /\ ~mhDns /\ mhHelper.request.action = "start"
    /\ mhHelper.pc = "stopping" =>
          mhCore /\ ~mhDns /\ mhHelper.request.action \in {"stop", "exit"}

\* Requests are carried out in the order of their numbers, and the one the
\* owner waits for is the last.
MacQueueInv ==
    /\ mhHelper.request.id <= mhOwner.calls
    /\ \A i \in 1 .. Len(mhBacklog) :
          mhHelper.request.id < mhBacklog[i].id /\ mhBacklog[i].id <= mhOwner.calls
    /\ \A i, j \in 1 .. Len(mhBacklog) : i < j => mhBacklog[i].id < mhBacklog[j].id
    /\ MacWaiting => mhOwner.asked.id = mhOwner.calls

\* A number names one request.
MacNumberInv ==
    MacWaiting =>
        /\ mhHelper.request.id = mhOwner.asked.id => mhHelper.request = mhOwner.asked
        /\ \A i \in 1 .. Len(mhBacklog) :
              mhBacklog[i].id = mhOwner.asked.id => mhBacklog[i] = mhOwner.asked

\* What is about to be answered is so, and after a good answer nothing is left
\* to be carried out: the helper is not even at work.
MacSettled ==
    /\ mhBacklog = <<>> /\ mhHelper.pc \notin {"working", "publish", "rollback", "stopping", "replying"}
    /\ mhOwner.last.action = "start" /\ MacServing /\ mhHelper.pc # "dropping" =>
          mhCore /\ mhDns
    /\ mhOwner.last.action = "stop" => ~mhCore /\ ~mhDns

MacTruthInv ==
    /\ mhHelper.pc = "replying" /\ mhHelper.ok =>
          /\ mhHelper.request.action = "start" => mhCore /\ mhDns
          /\ mhHelper.request.action = "stop" => ~mhCore /\ ~mhDns
    /\ mhHelper.pc \in {"prompt", "connect", "bind"} => ~MacWaiting /\ ~mhOwner.last.ok
    /\ mhOwner.last.ok /\ ~MacWaiting /\ mhOwner.pc # "dead" => MacSettled

MacInv == MacTyped /\ RouteInv /\ MacQueueInv /\ MacNumberInv /\ MacTruthInv
-----------------------------------------------------------------------------
(* The start.                                                               *)
LEMMA MacInitSafe == MacInit => MacInv
<1> SUFFICES ASSUME MacInit PROVE MacInv
  OBVIOUS
<1> USE DEF MacInit, NoMacRequest
<1>1. NoMacRequest \in MacRequestType /\ [action |-> "ping", ok |-> FALSE] \in AnswerType
  BY DEF MacRequestType, MacActions, AnswerType
<1>2. mhOwner \in MacOwnerType /\ mhHelper \in MacHelperType
  BY <1>1 DEF MacOwnerType, MacHelperType, MacOwnerPlaces, MacHelperPlaces
<1>3. MacTyped
  <2>1. mhBacklog \in Seq(MacRequestType)
    BY EmptySeq
  <2>2. mhCore \in BOOLEAN /\ mhDns \in BOOLEAN
    OBVIOUS
  <2> QED BY <1>2, <2>1, <2>2 DEF MacTyped
<1>4. RouteInv
  BY DEF RouteInv, MacServing
<1>5. MacQueueInv
  BY DEF MacQueueInv, MacWaiting
<1>6. MacNumberInv /\ MacTruthInv
  BY DEF MacNumberInv, MacTruthInv, MacWaiting
<1> QED BY <1>3, <1>4, <1>5, <1>6 DEF MacInv

(* The records keep their fields and the queue its requests.                *)
LEMMA MacTypedStep == ASSUME MacTyped, [MacNext]_mhVars PROVE MacTyped'
<1> USE DEF MacTyped, MacOwnerType, MacHelperType, MacOwnerPlaces, MacHelperPlaces
<1>0. CASE UNCHANGED mhVars BY <1>0 DEF mhVars
<1>1. CASE MacAcceptLease BY <1>1 DEF MacAcceptLease
<1>2. CASE MacLaunchFails BY <1>2 DEF MacLaunchFails
<1>3. CASE MacCallFails
  <2>1. NoMacRequest \in MacRequestType /\ mhOwner.asked.action \in MacActions
    BY DEF NoMacRequest, MacActions, MacRequestType
  <2>2. [action |-> mhOwner.asked.action, ok |-> FALSE] \in AnswerType
    BY <2>1 DEF AnswerType
  <2>3. mhOwner' \in MacOwnerType
    BY <1>3, <2>1, <2>2 DEF MacCallFails, MacAnswered
  <2> QED BY <1>3, <2>3 DEF MacCallFails
<1>4. CASE MacShutdown BY <1>4 DEF MacShutdown
<1>5. CASE MacDropLease BY <1>5 DEF MacDropLease
<1>6. CASE MacReaped BY <1>6 DEF MacReaped
<1>7. CASE MacAuthorized BY <1>7 DEF MacAuthorized, MacMoves
<1>8. CASE MacConnectLease BY <1>8 DEF MacConnectLease, MacMoves
<1>9. CASE MacBind BY <1>9 DEF MacBind, MacMoves
<1>10. CASE MacServeNext
  <2>1. mhBacklog # <<>> /\ mhBacklog \in Seq(MacRequestType)
    BY <1>10 DEF MacServeNext
  <2>2. Head(mhBacklog) \in MacRequestType /\ Tail(mhBacklog) \in Seq(MacRequestType)
    BY <2>1, HeadTailProperties
  <2> QED BY <1>10, <2>2 DEF MacServeNext
<1>11. CASE MacStartCore BY <1>11 DEF MacStartCore, MacMoves, MacReplying
<1>12. CASE MacPublishDns BY <1>12 DEF MacPublishDns, MacMoves, MacReplying
<1>13. CASE MacRollback BY <1>13 DEF MacRollback, MacReplying, MacLoses
<1>14. CASE MacWithdrawDns BY <1>14 DEF MacWithdrawDns, MacMoves, MacReplying
<1>15. CASE MacStopCore BY <1>15 DEF MacStopCore, MacReplying, MacLoses
<1>16. CASE MacQuery BY <1>16 DEF MacQuery, MacReplying
<1>17. CASE MacReply
  <2>1. mhHelper' \in MacHelperType /\ mhCore' \in BOOLEAN /\ mhDns' \in BOOLEAN
    BY <1>17 DEF MacReply, MacEnds, MacMoves
  <2>2. NoMacRequest \in MacRequestType /\ mhOwner.asked.action \in MacActions
    BY DEF NoMacRequest, MacActions, MacRequestType
  <2>3. [action |-> mhOwner.asked.action, ok |-> mhHelper.ok] \in AnswerType
    BY <2>2 DEF AnswerType
  <2>4. CASE UNCHANGED mhOwner
    BY <1>17, <2>1, <2>4 DEF MacReply
  <2>5. CASE MacAnswered(mhHelper.ok)
    <3>1. mhOwner' \in MacOwnerType
      BY <2>2, <2>3, <2>5 DEF MacAnswered
    <3> QED BY <1>17, <2>1, <3>1 DEF MacReply
  <2> QED BY <1>17, <2>4, <2>5 DEF MacReply
<1>18. CASE MacChildExits BY <1>18 DEF MacChildExits
<1>19. CASE MacWatchdog BY <1>19 DEF MacWatchdog, MacEnds, MacMoves
<1>20. CASE MacOwnerDies
  <2>1. NoMacRequest \in MacRequestType
    BY DEF NoMacRequest, MacActions, MacRequestType
  <2> QED BY <1>20, <2>1 DEF MacOwnerDies
<1>21. CASE MacHelperCrashes BY <1>21 DEF MacHelperCrashes, MacEnds, MacMoves
<1>23. CASE MacAcceptFails BY <1>23 DEF MacAcceptFails, MacMoves
<1>24. CASE MacStateDropped BY <1>24 DEF MacStateDropped, MacEnds, MacMoves
<1>22. ASSUME NEW action \in MacActions, MacCall(action) PROVE MacTyped'
  <2> DEFINE request == [id |-> mhOwner.calls + 1, action |-> action]
             answer == [action |-> action, ok |-> FALSE]
             counted == [mhOwner EXCEPT !.calls = @ + 1]
  <2>0. UNCHANGED <<mhHelper, mhCore, mhDns>>
    BY <1>22 DEF MacCall
  <2>4. request \in MacRequestType /\ answer \in AnswerType
    BY DEF MacRequestType, AnswerType
  <2>5. counted \in MacOwnerType
    OBVIOUS
  <2>1. request \in MacRequestType /\ answer \in AnswerType /\ counted \in MacOwnerType
    BY <2>4, <2>5
  <2>2. CASE MacServing /\ mhSocket
    <3>1. /\ mhBacklog' = Append(mhBacklog, request)
          /\ mhOwner' = [counted EXCEPT !.asked = request]
      BY <1>22, <2>2 DEF MacCall
    <3> HIDE DEF request, counted
    <3>2. mhOwner' \in MacOwnerType
      BY <2>1, <3>1
    <3>3. mhBacklog' \in Seq(MacRequestType)
      BY <2>1, <3>1, AppendProperties
    <3> QED BY <2>0, <3>2, <3>3
  <2>3. CASE ~(MacServing /\ mhSocket)
    <3>1. mhBacklog' = mhBacklog /\ mhOwner' = [counted EXCEPT !.last = answer]
      BY <1>22, <2>3 DEF MacCall
    <3> HIDE DEF answer, counted
    <3>2. mhOwner' \in MacOwnerType
      BY <2>1, <3>1
    <3> QED BY <2>0, <3>1, <3>2
  <2> QED BY <2>2, <2>3
<1> QED BY <1>0, <1>1, <1>2, <1>3, <1>4, <1>5, <1>6, <1>7, <1>8, <1>9, <1>10, <1>11, <1>12, <1>13,
                    <1>14, <1>15, <1>16, <1>17, <1>18, <1>19, <1>20, <1>21, <1>22, <1>23, <1>24
          DEF MacNext, MacOwnerStep, MacHelperStep

(* The resolver and the route, through every failing start and stop.        *)
LEMMA RouteStep == ASSUME MacTyped, RouteInv, [MacNext]_mhVars PROVE RouteInv'
<1> USE DEF MacTyped, MacOwnerType, MacHelperType, RouteInv, MacServing
<1>0. CASE UNCHANGED mhVars BY <1>0 DEF mhVars
<1>1. CASE MacAcceptLease BY <1>1 DEF MacAcceptLease
<1>2. CASE MacLaunchFails BY <1>2 DEF MacLaunchFails
<1>3. CASE MacCallFails BY <1>3 DEF MacCallFails
<1>4. CASE MacShutdown BY <1>4 DEF MacShutdown
<1>5. CASE MacDropLease BY <1>5 DEF MacDropLease
<1>6. CASE MacReaped BY <1>6 DEF MacReaped
<1>7. CASE MacAuthorized BY <1>7 DEF MacAuthorized, MacMoves
<1>8. CASE MacConnectLease BY <1>8 DEF MacConnectLease, MacMoves
<1>9. CASE MacBind BY <1>9 DEF MacBind, MacMoves
<1>10. CASE MacServeNext BY <1>10 DEF MacServeNext
<1>11. CASE MacStartCore BY <1>11 DEF MacStartCore, MacMoves, MacReplying
<1>12. CASE MacPublishDns
  <2>1. CASE MacReplying(TRUE) /\ mhDns' = TRUE
    BY <1>12, <2>1 DEF MacPublishDns, MacReplying
  <2>2. CASE MacMoves("rollback") /\ UNCHANGED mhDns
    BY <1>12, <2>2 DEF MacPublishDns, MacMoves
  <2> QED BY <1>12, <2>1, <2>2 DEF MacPublishDns
<1>13. CASE MacRollback BY <1>13 DEF MacRollback, MacReplying, MacLoses
<1>14. CASE MacWithdrawDns BY <1>14 DEF MacWithdrawDns, MacMoves, MacReplying
<1>15. CASE MacStopCore BY <1>15 DEF MacStopCore, MacReplying, MacLoses
<1>16. CASE MacQuery BY <1>16 DEF MacQuery, MacReplying
<1>17. CASE MacReply BY <1>17 DEF MacReply, MacMoves, MacEnds
<1>18. CASE MacChildExits BY <1>18 DEF MacChildExits
<1>19. CASE MacWatchdog BY <1>19 DEF MacWatchdog, MacEnds, MacMoves
<1>20. CASE MacOwnerDies BY <1>20 DEF MacOwnerDies
<1>21. CASE MacHelperCrashes BY <1>21 DEF MacHelperCrashes, MacEnds, MacMoves
<1>23. CASE MacAcceptFails BY <1>23 DEF MacAcceptFails, MacMoves
<1>24. CASE MacStateDropped BY <1>24 DEF MacStateDropped, MacEnds, MacMoves
<1>22. ASSUME NEW action \in MacActions, MacCall(action) PROVE RouteInv'
  BY <1>22 DEF MacCall
<1> QED BY <1>0, <1>1, <1>2, <1>3, <1>4, <1>5, <1>6, <1>7, <1>8, <1>9, <1>10, <1>11, <1>12, <1>13,
                    <1>14, <1>15, <1>16, <1>17, <1>18, <1>19, <1>20, <1>21, <1>22, <1>23, <1>24
          DEF MacNext, MacOwnerStep, MacHelperStep
-----------------------------------------------------------------------------
(* The steps that make no request, take none and answer none.               *)
MacQuiet ==
    /\ mhBacklog' = mhBacklog /\ mhHelper'.request = mhHelper.request
    /\ mhOwner'.asked = mhOwner.asked /\ mhOwner'.calls = mhOwner.calls
    /\ mhOwner'.last = mhOwner.last

LEMMA MacQuietStep ==
    ASSUME MacTyped, [MacNext]_mhVars
    PROVE  \/ MacQuiet \/ MacCallFails \/ MacServeNext \/ MacReply \/ MacOwnerDies
           \/ \E action \in MacActions : MacCall(action)
<1> USE DEF MacTyped, MacOwnerType, MacHelperType, MacQuiet
<1>0. CASE UNCHANGED mhVars BY <1>0 DEF mhVars
<1>1. CASE MacAcceptLease BY <1>1 DEF MacAcceptLease
<1>2. CASE MacLaunchFails BY <1>2 DEF MacLaunchFails
<1>3. CASE MacShutdown BY <1>3 DEF MacShutdown
<1>4. CASE MacDropLease BY <1>4 DEF MacDropLease
<1>5. CASE MacReaped BY <1>5 DEF MacReaped
<1>6. CASE MacAuthorized BY <1>6 DEF MacAuthorized, MacMoves
<1>7. CASE MacConnectLease BY <1>7 DEF MacConnectLease, MacMoves
<1>8. CASE MacBind BY <1>8 DEF MacBind, MacMoves
<1>9. CASE MacStartCore BY <1>9 DEF MacStartCore, MacMoves, MacReplying
<1>10. CASE MacPublishDns BY <1>10 DEF MacPublishDns, MacMoves, MacReplying
<1>11. CASE MacRollback BY <1>11 DEF MacRollback, MacReplying, MacLoses
<1>12. CASE MacWithdrawDns BY <1>12 DEF MacWithdrawDns, MacMoves, MacReplying
<1>13. CASE MacStopCore BY <1>13 DEF MacStopCore, MacReplying, MacLoses
<1>14. CASE MacQuery BY <1>14 DEF MacQuery, MacReplying
<1>15. CASE MacChildExits BY <1>15 DEF MacChildExits
<1>16. CASE MacWatchdog BY <1>16 DEF MacWatchdog, MacEnds, MacMoves
<1>17. CASE MacHelperCrashes BY <1>17 DEF MacHelperCrashes, MacEnds, MacMoves
<1>18. CASE MacAcceptFails BY <1>18 DEF MacAcceptFails, MacMoves
<1>19. CASE MacStateDropped BY <1>19 DEF MacStateDropped, MacEnds, MacMoves
<1> QED BY <1>0, <1>1, <1>2, <1>3, <1>4, <1>5, <1>6, <1>7, <1>8, <1>9, <1>10, <1>11, <1>12, <1>13,
                    <1>14, <1>15, <1>16, <1>17, <1>18, <1>19
          DEF MacNext, MacOwnerStep, MacHelperStep

(* What the steps that are not quiet do to the requests.                    *)
LEMMA MacCallDoes ==
    ASSUME MacTyped, NEW action \in MacActions, MacCall(action)
    PROVE  /\ mhOwner'.calls = mhOwner.calls + 1 /\ mhHelper' = mhHelper
           /\ mhOwner'.pc = mhOwner.pc /\ ~MacWaiting /\ mhCore' = mhCore /\ mhDns' = mhDns
           /\ \/ /\ MacServing /\ mhOwner'.asked = [id |-> mhOwner.calls + 1, action |-> action]
                 /\ Len(mhBacklog') = Len(mhBacklog) + 1
                 /\ \A i \in 1 .. Len(mhBacklog) : mhBacklog'[i] = mhBacklog[i]
                 /\ mhBacklog'[Len(mhBacklog) + 1] = mhOwner'.asked
              \/ /\ mhOwner'.asked = mhOwner.asked /\ mhBacklog' = mhBacklog
                 /\ ~mhOwner'.last.ok
<1> DEFINE request == [id |-> mhOwner.calls + 1, action |-> action]
<1> USE DEF MacTyped, MacOwnerType
<1>1. request \in MacRequestType
  BY DEF MacRequestType
<1>2. ~MacWaiting /\ mhHelper' = mhHelper /\ mhCore' = mhCore /\ mhDns' = mhDns
  BY DEF MacCall
<1>3. CASE MacServing /\ mhSocket
  <2>1. /\ mhBacklog' = Append(mhBacklog, request)
        /\ mhOwner' = [mhOwner EXCEPT !.calls = @ + 1, !.asked = request]
    BY <1>3 DEF MacCall
  <2>2. mhOwner'.asked = request /\ mhOwner'.calls = mhOwner.calls + 1 /\ mhOwner'.pc = mhOwner.pc
    BY <2>1
  <2>3. /\ Len(mhBacklog') = Len(mhBacklog) + 1
        /\ \A i \in 1 .. Len(mhBacklog) : mhBacklog'[i] = mhBacklog[i]
        /\ mhBacklog'[Len(mhBacklog) + 1] = request
    BY <1>1, <2>1, AppendProperties
  <2> QED BY <1>2, <1>3, <2>2, <2>3
<1>4. CASE ~(MacServing /\ mhSocket)
  <2>1. /\ mhBacklog' = mhBacklog
        /\ mhOwner' = [mhOwner EXCEPT !.calls = @ + 1, !.last = [action |-> action, ok |-> FALSE]]
    BY <1>4 DEF MacCall
  <2> QED BY <1>2, <1>4, <2>1
<1> QED BY <1>3, <1>4

LEMMA MacServeDoes ==
    ASSUME MacTyped, MacServeNext
    PROVE  /\ mhOwner' = mhOwner /\ mhCore' = mhCore /\ mhDns' = mhDns
           /\ mhHelper.pc = "serving" /\ mhHelper'.pc = "working"
           /\ mhBacklog # <<>> /\ mhHelper'.request = mhBacklog[1] /\ 1 <= Len(mhBacklog)
           /\ Len(mhBacklog') = Len(mhBacklog) - 1
           /\ \A i \in 1 .. Len(mhBacklog') : mhBacklog'[i] = mhBacklog[i + 1]
<1>1. /\ mhOwner' = mhOwner /\ mhCore' = mhCore /\ mhDns' = mhDns /\ mhHelper.pc = "serving"
      /\ mhBacklog # <<>> /\ mhBacklog' = Tail(mhBacklog)
      /\ mhHelper'.pc = "working" /\ mhHelper'.request = Head(mhBacklog)
  BY DEF MacServeNext, MacTyped, MacHelperType
<1>2. /\ Len(mhBacklog') = Len(mhBacklog) - 1
      /\ \A i \in 1 .. Len(mhBacklog') : mhBacklog'[i] = mhBacklog[i + 1]
  BY <1>1, HeadTailProperties DEF MacTyped
<1>3. 1 <= Len(mhBacklog)
  BY <1>1, EmptySeq DEF MacTyped
<1>4. Head(mhBacklog) = mhBacklog[1]
  BY <1>3 DEF MacTyped
<1> QED BY <1>1, <1>2, <1>3, <1>4

LEMMA MacAnsweredDoes ==
    ASSUME MacTyped, NEW ok \in BOOLEAN, MacAnswered(ok)
    PROVE  /\ mhOwner'.asked = NoMacRequest /\ mhOwner'.calls = mhOwner.calls
           /\ mhOwner'.last = [action |-> mhOwner.asked.action, ok |-> ok]
BY DEF MacTyped, MacOwnerType, MacAnswered

LEMMA MacReplyDoes ==
    ASSUME MacTyped, MacReply
    PROVE  /\ mhBacklog' = mhBacklog /\ mhHelper'.request = mhHelper.request
           /\ mhHelper.pc = "replying"
           /\ \/ mhHelper'.pc = "serving" /\ mhCore' = mhCore /\ mhDns' = mhDns
              \/ mhHelper'.pc = "gone" /\ ~mhCore' /\ ~mhDns'
           /\ mhOwner'.calls = mhOwner.calls
           /\ \/ /\ MacWaiting /\ mhOwner.asked.id = mhHelper.request.id
                 /\ mhOwner'.asked = NoMacRequest
                 /\ mhOwner'.last = [action |-> mhOwner.asked.action, ok |-> mhHelper.ok]
              \/ mhOwner' = mhOwner /\ ~(MacWaiting /\ mhOwner.asked.id = mhHelper.request.id)
<1>1. mhBacklog' = mhBacklog /\ mhHelper'.request = mhHelper.request /\ mhHelper.pc = "replying"
  BY DEF MacReply, MacMoves, MacEnds, MacTyped, MacHelperType
<1>2. \/ mhHelper'.pc = "serving" /\ mhCore' = mhCore /\ mhDns' = mhDns
      \/ mhHelper'.pc = "gone" /\ ~mhCore' /\ ~mhDns'
  BY DEF MacReply, MacMoves, MacEnds, MacTyped, MacHelperType
<1>3. mhHelper.ok \in BOOLEAN
  BY DEF MacTyped, MacHelperType
<1>4. CASE MacWaiting /\ mhOwner.asked.id = mhHelper.request.id
  <2>1. MacAnswered(mhHelper.ok)
    BY <1>4 DEF MacReply
  <2> QED BY <1>1, <1>2, <1>3, <1>4, <2>1, MacAnsweredDoes
<1>5. CASE ~(MacWaiting /\ mhOwner.asked.id = mhHelper.request.id)
  <2>1. mhOwner' = mhOwner
    BY <1>5 DEF MacReply
  <2> QED BY <1>1, <1>2, <1>5, <2>1
<1> QED BY <1>4, <1>5

LEMMA MacCallFailsDoes ==
    ASSUME MacTyped, MacCallFails
    PROVE  /\ mhOwner'.asked = NoMacRequest /\ mhOwner'.calls = mhOwner.calls
           /\ ~mhOwner'.last.ok /\ mhHelper' = mhHelper /\ mhBacklog' = mhBacklog
           /\ mhCore' = mhCore /\ mhDns' = mhDns
<1>1. MacAnswered(FALSE)
  BY DEF MacCallFails
<1>2. mhOwner'.asked = NoMacRequest /\ mhOwner'.calls = mhOwner.calls /\ ~mhOwner'.last.ok
  BY <1>1 DEF MacAnswered, MacTyped, MacOwnerType
<1> QED BY <1>2 DEF MacCallFails

LEMMA MacOwnerDiesDoes ==
    ASSUME MacTyped, MacOwnerDies
    PROVE  /\ mhOwner'.asked = NoMacRequest /\ mhOwner'.calls = mhOwner.calls
           /\ mhOwner'.pc = "dead" /\ mhOwner'.last = mhOwner.last
           /\ mhHelper' = mhHelper /\ mhBacklog' = mhBacklog /\ mhCore' = mhCore /\ mhDns' = mhDns
BY DEF MacOwnerDies, MacTyped, MacOwnerType
-----------------------------------------------------------------------------
LEMMA MacFields ==
    ASSUME MacTyped
    PROVE  /\ mhOwner.calls \in Nat /\ mhHelper.request.id \in Nat /\ mhOwner.asked.id \in Nat
           /\ Len(mhBacklog) \in Nat
           /\ \A i \in 1 .. Len(mhBacklog) : mhBacklog[i].id \in Nat
<1>1. mhOwner.calls \in Nat /\ mhOwner.asked.id \in Nat
  BY DEF MacTyped, MacOwnerType, MacRequestType
<1>2. mhHelper.request.id \in Nat
  BY DEF MacTyped, MacHelperType, MacRequestType
<1>3. mhBacklog \in Seq(MacRequestType) /\ Len(mhBacklog) \in Nat
  BY LenProperties DEF MacTyped
<1>4. ASSUME NEW i \in 1 .. Len(mhBacklog) PROVE mhBacklog[i].id \in Nat
  <2>1. mhBacklog[i] \in MacRequestType
    BY <1>3, ElementOfSeq
  <2> QED BY <2>1 DEF MacRequestType
<1> QED BY <1>1, <1>2, <1>3, <1>4

(* Requests are carried out in the order of their numbers.                  *)
LEMMA MacQueueStep == ASSUME MacTyped, MacQueueInv, [MacNext]_mhVars PROVE MacQueueInv'
<1> USE MacFields
<1>1. CASE MacQuiet
  BY <1>1 DEF MacQuiet, MacQueueInv, MacWaiting
<1>2. CASE MacCallFails
  BY <1>2, MacCallFailsDoes DEF MacQueueInv, MacWaiting
<1>3. CASE MacServeNext
  <2>2. CASE /\ mhHelper'.request = mhBacklog[1] /\ 1 <= Len(mhBacklog)
             /\ Len(mhBacklog') = Len(mhBacklog) - 1
             /\ \A i \in 1 .. Len(mhBacklog') : mhBacklog'[i] = mhBacklog[i + 1]
    <3> DEFINE n == Len(mhBacklog)
    <3>1. mhOwner' = mhOwner
      BY <1>3, MacServeDoes
    <3>2. mhHelper'.request.id <= mhOwner.calls
      BY <2>2 DEF MacQueueInv
    <3>3. ASSUME NEW i \in 1 .. n - 1
          PROVE mhHelper'.request.id < mhBacklog'[i].id /\ mhBacklog'[i].id <= mhOwner.calls
      <4>1. 1 \in 1 .. n /\ i + 1 \in 1 .. n /\ 1 < i + 1
        OBVIOUS
      <4>2. mhBacklog'[i] = mhBacklog[i + 1]
        BY <2>2
      <4>3. mhBacklog[1].id < mhBacklog[i + 1].id /\ mhBacklog[i + 1].id <= mhOwner.calls
        BY <4>1 DEF MacQueueInv
      <4> QED BY <2>2, <4>2, <4>3
    <3>4. ASSUME NEW i \in 1 .. n - 1, NEW j \in 1 .. n - 1, i < j
          PROVE mhBacklog'[i].id < mhBacklog'[j].id
      <4>1. i + 1 \in 1 .. n /\ j + 1 \in 1 .. n /\ i + 1 < j + 1
        BY <3>4
      <4>2. mhBacklog'[i] = mhBacklog[i + 1] /\ mhBacklog'[j] = mhBacklog[j + 1]
        BY <2>2
      <4> QED BY <4>1, <4>2 DEF MacQueueInv
    <3> QED BY <2>2, <3>1, <3>2, <3>3, <3>4 DEF MacQueueInv, MacWaiting
  <2> QED BY <1>3, <2>2, MacServeDoes
<1>4. CASE MacReply
  BY <1>4, MacReplyDoes DEF MacQueueInv, MacWaiting
<1>5. CASE MacOwnerDies
  BY <1>5, MacOwnerDiesDoes DEF MacQueueInv, MacWaiting
<1>6. ASSUME NEW action \in MacActions, MacCall(action) PROVE MacQueueInv'
  <2>1. CASE mhOwner'.asked = mhOwner.asked /\ mhBacklog' = mhBacklog
    <3>1. mhOwner'.calls = mhOwner.calls + 1 /\ mhHelper' = mhHelper /\ ~MacWaiting
      BY <1>6, MacCallDoes
    <3>2. ~MacWaiting'
      BY <2>1, <3>1 DEF MacWaiting
    <3>3. mhHelper'.request.id <= mhOwner'.calls
      BY <3>1 DEF MacQueueInv
    <3>4. \A i \in 1 .. Len(mhBacklog') :
             mhHelper'.request.id < mhBacklog'[i].id /\ mhBacklog'[i].id <= mhOwner'.calls
      BY <2>1, <3>1 DEF MacQueueInv
    <3>5. \A i, j \in 1 .. Len(mhBacklog') : i < j => mhBacklog'[i].id < mhBacklog'[j].id
      BY <2>1 DEF MacQueueInv
    <3> QED BY <3>2, <3>3, <3>4, <3>5 DEF MacQueueInv
  <2>2. CASE /\ mhOwner'.asked = [id |-> mhOwner.calls + 1, action |-> action]
             /\ Len(mhBacklog') = Len(mhBacklog) + 1
             /\ \A i \in 1 .. Len(mhBacklog) : mhBacklog'[i] = mhBacklog[i]
             /\ mhBacklog'[Len(mhBacklog) + 1] = mhOwner'.asked
    <3> DEFINE n == Len(mhBacklog)
    <3>1. /\ mhOwner'.calls = mhOwner.calls + 1 /\ mhHelper' = mhHelper
          /\ mhOwner'.asked.id = mhOwner.calls + 1
      BY <1>6, <2>2, MacCallDoes
    <3>2. \A i \in 1 .. n : mhBacklog'[i].id = mhBacklog[i].id /\ mhBacklog[i].id <= mhOwner.calls
      BY <2>2 DEF MacQueueInv
    <3>3. mhBacklog'[n + 1].id = mhOwner.calls + 1
      BY <2>2, <3>1
    <3>4. ASSUME NEW i \in 1 .. n + 1
          PROVE mhHelper'.request.id < mhBacklog'[i].id /\ mhBacklog'[i].id <= mhOwner'.calls
      BY <3>1, <3>2, <3>3 DEF MacQueueInv
    <3>5. ASSUME NEW i \in 1 .. n + 1, NEW j \in 1 .. n + 1, i < j
          PROVE mhBacklog'[i].id < mhBacklog'[j].id
      <4>1. CASE j = n + 1
        BY <3>2, <3>3, <3>5, <4>1
      <4>2. CASE j # n + 1
        <5>1. i \in 1 .. n /\ j \in 1 .. n
          BY <3>5, <4>2
        <5>2. mhBacklog[i].id < mhBacklog[j].id
          BY <3>5, <5>1 DEF MacQueueInv
        <5> QED BY <3>2, <5>1, <5>2
      <4> QED BY <4>1, <4>2
    <3>6. mhHelper'.request.id <= mhOwner'.calls
      BY <3>1 DEF MacQueueInv
    <3> QED BY <2>2, <3>1, <3>4, <3>5, <3>6 DEF MacQueueInv
  <2> QED BY <1>6, <2>1, <2>2, MacCallDoes
<1> QED BY <1>1, <1>2, <1>3, <1>4, <1>5, <1>6, MacQuietStep

(* A number names one request, whoever looks it up.                         *)
LEMMA MacNumberStep == ASSUME MacTyped, MacQueueInv, MacNumberInv, [MacNext]_mhVars PROVE MacNumberInv'
<1> USE MacFields
<1>1. CASE MacQuiet
  BY <1>1 DEF MacQuiet, MacNumberInv, MacWaiting
<1>2. CASE MacCallFails
  BY <1>2, MacCallFailsDoes DEF MacNumberInv, MacWaiting
<1>3. CASE MacServeNext
  <2>2. CASE /\ mhHelper'.request = mhBacklog[1] /\ 1 <= Len(mhBacklog)
             /\ Len(mhBacklog') = Len(mhBacklog) - 1
             /\ \A i \in 1 .. Len(mhBacklog') : mhBacklog'[i] = mhBacklog[i + 1]
    <3>1. mhOwner' = mhOwner
      BY <1>3, MacServeDoes
    <3>2. ASSUME MacWaiting, NEW i \in 1 .. Len(mhBacklog), mhBacklog[i].id = mhOwner.asked.id
          PROVE mhBacklog[i] = mhOwner.asked
      BY <3>2 DEF MacNumberInv
    <3>3. ASSUME MacWaiting, mhHelper'.request.id = mhOwner.asked.id
          PROVE mhHelper'.request = mhOwner.asked
      BY <2>2, <3>2, <3>3
    <3>4. ASSUME MacWaiting, NEW i \in 1 .. Len(mhBacklog'), mhBacklog'[i].id = mhOwner.asked.id
          PROVE mhBacklog'[i] = mhOwner.asked
      BY <2>2, <3>2, <3>4
    <3> QED BY <3>1, <3>3, <3>4 DEF MacNumberInv, MacWaiting
  <2> QED BY <1>3, <2>2, MacServeDoes
<1>4. CASE MacReply
  BY <1>4, MacReplyDoes DEF MacNumberInv, MacWaiting
<1>5. CASE MacOwnerDies
  BY <1>5, MacOwnerDiesDoes DEF MacNumberInv, MacWaiting
<1>6. ASSUME NEW action \in MacActions, MacCall(action) PROVE MacNumberInv'
  <2>1. CASE mhOwner'.asked = mhOwner.asked
    BY <1>6, <2>1, MacCallDoes DEF MacNumberInv, MacWaiting
  <2>2. CASE /\ mhOwner'.asked = [id |-> mhOwner.calls + 1, action |-> action]
             /\ Len(mhBacklog') = Len(mhBacklog) + 1
             /\ \A i \in 1 .. Len(mhBacklog) : mhBacklog'[i] = mhBacklog[i]
             /\ mhBacklog'[Len(mhBacklog) + 1] = mhOwner'.asked
    <3>1. mhOwner'.asked.id = mhOwner.calls + 1 /\ mhHelper' = mhHelper
      BY <1>6, <2>2, MacCallDoes
    <3>2. mhHelper'.request.id # mhOwner'.asked.id
      BY <3>1 DEF MacQueueInv
    <3>3. \A i \in 1 .. Len(mhBacklog) : mhBacklog'[i].id # mhOwner'.asked.id
      BY <2>2, <3>1 DEF MacQueueInv
    <3>4. \A i \in 1 .. Len(mhBacklog') : mhBacklog'[i].id = mhOwner'.asked.id => mhBacklog'[i] = mhOwner'.asked
      BY <2>2, <3>3
    <3> QED BY <3>2, <3>4 DEF MacNumberInv
  <2> QED BY <1>6, <2>1, <2>2, MacCallDoes
<1> QED BY <1>1, <1>2, <1>3, <1>4, <1>5, <1>6, MacQuietStep

(* The truth of an answer.  The steps that are not quiet come first: with what
   they do to the requests, MacQueueInv leaves nothing behind a good answer.   *)
LEMMA MacTruthReply ==
    ASSUME MacTyped, RouteInv, MacQueueInv, MacNumberInv, MacTruthInv, MacReply PROVE MacTruthInv'
<1> USE MacFields
<1>1. /\ mhBacklog' = mhBacklog /\ mhHelper.pc = "replying"
      /\ \/ mhHelper'.pc = "serving" /\ mhCore' = mhCore /\ mhDns' = mhDns
         \/ mhHelper'.pc = "gone" /\ ~mhCore' /\ ~mhDns'
  BY MacReplyDoes
<1>2. CASE mhOwner' = mhOwner /\ ~(MacWaiting /\ mhOwner.asked.id = mhHelper.request.id)
  <2>1. ~(mhOwner.last.ok /\ ~MacWaiting /\ mhOwner.pc # "dead")
    BY <1>1 DEF MacTruthInv, MacSettled
  <2> QED BY <1>1, <1>2, <2>1 DEF MacTruthInv, MacWaiting
<1>3. CASE /\ MacWaiting /\ mhOwner.asked.id = mhHelper.request.id
           /\ mhOwner'.asked = NoMacRequest
           /\ mhOwner'.last = [action |-> mhOwner.asked.action, ok |-> mhHelper.ok]
  <2>1. mhHelper.request = mhOwner.asked /\ mhHelper.request.id = mhOwner.calls
    BY <1>3 DEF MacQueueInv, MacNumberInv
  <2>2. Len(mhBacklog) = 0
    <3>1. ASSUME Len(mhBacklog) # 0 PROVE FALSE
      <4>1. 1 \in 1 .. Len(mhBacklog)
        BY <3>1
      <4> QED BY <2>1, <4>1 DEF MacQueueInv
    <3> QED BY <3>1
  <2>3. mhBacklog = <<>>
    BY <2>2, EmptySeq DEF MacTyped
  <2>4. mhOwner'.last.ok = mhHelper.ok /\ mhOwner'.last.action = mhHelper.request.action
    BY <1>3, <2>1
  <2>5. mhOwner'.last.ok => MacSettled'
    BY <1>1, <2>3, <2>4 DEF MacTruthInv, MacSettled, MacServing
  <2> QED BY <1>1, <2>5 DEF MacTruthInv
<1> QED BY <1>2, <1>3, MacReplyDoes

LEMMA MacTruthCall ==
    ASSUME MacTyped, MacTruthInv, NEW action \in MacActions, MacCall(action) PROVE MacTruthInv'
<1> USE MacFields
<1>1. mhHelper' = mhHelper /\ mhCore' = mhCore /\ mhDns' = mhDns /\ ~MacWaiting
  BY MacCallDoes
<1>2. CASE MacServing /\ mhOwner'.asked = [id |-> mhOwner.calls + 1, action |-> action]
  <2>1. mhOwner'.asked # NoMacRequest
    BY <1>2 DEF NoMacRequest
  <2> QED BY <1>1, <1>2, <2>1 DEF MacTruthInv, MacWaiting, MacServing
<1>3. CASE mhOwner'.asked = mhOwner.asked /\ ~mhOwner'.last.ok
  <2>1. ~MacWaiting'
    BY <1>1, <1>3 DEF MacWaiting
  <2> QED BY <1>1, <1>3, <2>1 DEF MacTruthInv
<1>4. \/ MacServing /\ mhOwner'.asked = [id |-> mhOwner.calls + 1, action |-> action]
      \/ mhOwner'.asked = mhOwner.asked /\ ~mhOwner'.last.ok
  BY MacCallDoes
<1> QED BY <1>2, <1>3, <1>4

(* The steps of the helper at work: no good answer stands then.             *)
LEMMA TruthAtWork ==
    ASSUME MacTyped, RouteInv, MacTruthInv,
           MacStartCore \/ MacPublishDns \/ MacRollback \/ MacWithdrawDns \/ MacStopCore \/ MacQuery
    PROVE  MacTruthInv'
<1> USE DEF MacTyped, MacHelperType
<1>1. /\ mhHelper.pc \in {"working", "publish", "rollback", "stopping"}
      /\ mhOwner' = mhOwner /\ mhHelper'.request = mhHelper.request
      /\ mhHelper'.pc \in {"publish", "rollback", "stopping", "replying"}
  BY DEF MacStartCore, MacPublishDns, MacRollback, MacWithdrawDns, MacStopCore, MacQuery,
         MacMoves, MacReplying, MacLoses
<1>2. ~(mhOwner.last.ok /\ ~MacWaiting /\ mhOwner.pc # "dead")
  BY <1>1 DEF MacTruthInv, MacSettled
<1>3. mhHelper'.pc = "replying" /\ mhHelper'.ok =>
        /\ mhHelper.request.action = "start" => mhCore' /\ mhDns'
        /\ mhHelper.request.action = "stop" => ~mhCore' /\ ~mhDns'
  <2>1. CASE MacStartCore
    BY <2>1 DEF MacStartCore, MacMoves, MacReplying
  <2>2. CASE MacPublishDns
    BY <2>2 DEF MacPublishDns, MacMoves, MacReplying, RouteInv
  <2>3. CASE MacRollback
    BY <2>3 DEF MacRollback, MacReplying, MacLoses
  <2>4. CASE MacWithdrawDns
    BY <2>4 DEF MacWithdrawDns, MacMoves, MacReplying
  <2>5. CASE MacStopCore
    BY <2>5 DEF MacStopCore, MacReplying, MacLoses, RouteInv
  <2>6. CASE MacQuery
    BY <2>6 DEF MacQuery
  <2> QED BY <2>1, <2>2, <2>3, <2>4, <2>5, <2>6
<1> QED BY <1>1, <1>2, <1>3 DEF MacTruthInv, MacWaiting

LEMMA MacTruthStep ==
    ASSUME MacTyped, RouteInv, MacQueueInv, MacNumberInv, MacTruthInv, [MacNext]_mhVars PROVE MacTruthInv'
<1> USE DEF MacTyped, MacOwnerType, MacHelperType, MacOwnerPlaces
<1>0. CASE UNCHANGED mhVars BY <1>0 DEF mhVars, MacTruthInv, MacSettled, MacServing, MacWaiting
<1>1. CASE MacAcceptLease
  BY <1>1 DEF MacAcceptLease, MacTruthInv, MacSettled, MacServing, MacWaiting
<1>2. CASE MacLaunchFails
  BY <1>2 DEF MacLaunchFails, MacTruthInv, MacSettled, MacServing, MacWaiting
<1>3. CASE MacShutdown
  BY <1>3 DEF MacShutdown, MacTruthInv, MacSettled, MacServing, MacWaiting
<1>4. CASE MacDropLease
  BY <1>4 DEF MacDropLease, MacTruthInv, MacSettled, MacServing, MacWaiting
<1>5. CASE MacReaped
  BY <1>5 DEF MacReaped, MacTruthInv, MacSettled, MacServing, MacWaiting
<1>6. CASE MacAuthorized
  BY <1>6 DEF MacAuthorized, MacMoves, MacTruthInv, MacSettled, MacServing, MacWaiting
<1>7. CASE MacConnectLease
  BY <1>7 DEF MacConnectLease, MacMoves, MacTruthInv, MacSettled, MacServing, MacWaiting
<1>8. CASE MacBind
  BY <1>8 DEF MacBind, MacMoves, MacTruthInv, MacSettled, MacServing, MacWaiting
<1>9. CASE MacChildExits
  BY <1>9 DEF MacChildExits, MacTruthInv, MacSettled, MacServing, MacWaiting
<1>10. CASE MacWatchdog
  BY <1>10 DEF MacWatchdog, MacEnds, MacMoves, MacTruthInv, MacSettled, MacServing, MacWaiting
<1>11. CASE MacHelperCrashes
  BY <1>11 DEF MacHelperCrashes, MacEnds, MacMoves, MacTruthInv, MacSettled, MacServing, MacWaiting
<1>12. CASE MacStartCore \/ MacPublishDns \/ MacRollback \/ MacWithdrawDns \/ MacStopCore \/ MacQuery
  BY <1>12, TruthAtWork
<1>13. CASE MacCallFails BY <1>13, MacCallFailsDoes DEF MacTruthInv, MacWaiting
<1>14. CASE MacServeNext
  BY <1>14, MacServeDoes DEF MacTruthInv, MacSettled, MacWaiting
<1>15. CASE MacReply BY <1>15, MacTruthReply
<1>16. CASE MacOwnerDies BY <1>16, MacOwnerDiesDoes DEF MacTruthInv, MacWaiting
<1>18. CASE MacAcceptFails
  BY <1>18 DEF MacAcceptFails, MacMoves, MacTruthInv, MacSettled, MacServing, MacWaiting
<1>19. CASE MacStateDropped
  BY <1>19 DEF MacStateDropped, MacEnds, MacMoves, MacTruthInv, MacSettled, MacServing, MacWaiting
<1>17. ASSUME NEW action \in MacActions, MacCall(action) PROVE MacTruthInv'
  BY <1>17, MacTruthCall
<1> QED BY <1>0, <1>1, <1>2, <1>3, <1>4, <1>5, <1>6, <1>7, <1>8, <1>9, <1>10, <1>11, <1>12, <1>13,
                    <1>14, <1>15, <1>16, <1>17, <1>18, <1>19
          DEF MacNext, MacOwnerStep, MacHelperStep
-----------------------------------------------------------------------------
(* The bounds of the requests and of the owner's ways.                      *)
MacBounds ==
    /\ mhChild \in BOOLEAN /\ mhSocket \in BOOLEAN
    /\ mhLease \in {"none", "offered", "held", "closed"}
    /\ mhMishaps \in 0 .. MaxMacMishaps
    /\ mhOwner.calls <= MaxMacCalls /\ Len(mhBacklog) <= mhOwner.calls

LEMMA MacBoundsStep ==
    ASSUME MacTyped, MacBounds, [MacNext]_mhVars
    PROVE  MacBounds'
<1>0. MaxMacCalls \in Nat /\ MaxMacMishaps \in Nat
  BY MacAssumption DEF MacAssumption
<1>1. /\ mhChild' \in BOOLEAN /\ mhSocket' \in BOOLEAN
      /\ mhLease' \in {"none", "offered", "held", "closed"} /\ mhMishaps' \in 0 .. MaxMacMishaps
  <2> USE <1>0 DEF MacBounds
  <2>1. CASE UNCHANGED mhVars
    BY <2>1 DEF mhVars
  <2>2. CASE MacAcceptLease
    BY <2>2 DEF MacAcceptLease
  <2>3. CASE MacLaunchFails
    BY <2>3 DEF MacLaunchFails
  <2>4. CASE MacCallFails
    BY <2>4 DEF MacCallFails, MacMishap, MacFine
  <2>5. CASE MacShutdown
    BY <2>5 DEF MacShutdown
  <2>6. CASE MacDropLease
    BY <2>6 DEF MacDropLease
  <2>7. CASE MacReaped
    BY <2>7 DEF MacReaped, MacCloseLease
  <2>8. CASE MacOwnerDies
    BY <2>8 DEF MacOwnerDies, MacCloseLease, MacMishap, MacFine
  <2>9. CASE MacAuthorized
    BY <2>9 DEF MacAuthorized
  <2>10. CASE MacConnectLease
    BY <2>10 DEF MacConnectLease
  <2>11. CASE MacBind
    BY <2>11 DEF MacBind
  <2>12. CASE MacWatchdog
    BY <2>12 DEF MacWatchdog
  <2>13. CASE MacServeNext
    BY <2>13 DEF MacServeNext
  <2>14. CASE MacStartCore
    BY <2>14 DEF MacStartCore
  <2>15. CASE MacPublishDns
    BY <2>15 DEF MacPublishDns, MacReplying, MacMishap, MacFine
  <2>16. CASE MacRollback
    BY <2>16 DEF MacRollback, MacReplying, MacLoses, MacMishap, MacFine
  <2>17. CASE MacWithdrawDns
    BY <2>17 DEF MacWithdrawDns
  <2>18. CASE MacStopCore
    BY <2>18 DEF MacStopCore, MacReplying, MacLoses, MacMishap, MacFine
  <2>19. CASE MacQuery
    BY <2>19 DEF MacQuery
  <2>20. CASE MacReply
    BY <2>20 DEF MacReply
  <2>21. CASE MacHelperCrashes
    BY <2>21 DEF MacHelperCrashes, MacMishap, MacFine
  <2>22. CASE MacChildExits
    BY <2>22 DEF MacChildExits
  <2>24. CASE MacAcceptFails
    BY <2>24 DEF MacAcceptFails, MacMishap
  <2>25. CASE MacStateDropped
    BY <2>25 DEF MacStateDropped
  <2>23. CASE \E action \in MacActions : MacCall(action)
    BY <2>23 DEF MacCall
  <2> QED BY <2>1, <2>2, <2>3, <2>4, <2>5, <2>6, <2>7, <2>8, <2>9, <2>10, <2>11, <2>12, <2>13,
             <2>14, <2>15, <2>16, <2>17, <2>18, <2>19, <2>20, <2>21, <2>22, <2>23, <2>24, <2>25
          DEF MacNext, MacOwnerStep, MacHelperStep
<1>2. mhOwner'.calls <= MaxMacCalls /\ Len(mhBacklog') <= mhOwner'.calls
  <2> USE MacFields, <1>0 DEF MacBounds
  <2>1. CASE MacQuiet
    BY <2>1 DEF MacQuiet
  <2>2. CASE MacCallFails
    BY <2>2, MacCallFailsDoes
  <2>3. CASE MacServeNext
    BY <2>3, MacServeDoes
  <2>4. CASE MacReply
    BY <2>4, MacReplyDoes
  <2>5. CASE MacOwnerDies
    BY <2>5, MacOwnerDiesDoes
  <2>6. ASSUME NEW action \in MacActions, MacCall(action)
        PROVE  mhOwner'.calls <= MaxMacCalls /\ Len(mhBacklog') <= mhOwner'.calls
    <3>1. mhOwner.calls < MaxMacCalls
      BY <2>6 DEF MacCall
    <3>2. /\ mhOwner'.calls = mhOwner.calls + 1
          /\ Len(mhBacklog') = Len(mhBacklog) + 1 \/ mhBacklog' = mhBacklog
      BY <2>6, MacCallDoes
    <3> QED BY <3>1, <3>2
  <2> QED BY <2>1, <2>2, <2>3, <2>4, <2>5, <2>6, MacQuietStep
<1> QED BY <1>1, <1>2 DEF MacBounds

-----------------------------------------------------------------------------
(* The invariant that carries the rest, through starts, stops and rollbacks that
   fail and an accept that does.                                            *)
THEOREM MacSafe == MacSpec => []MacInv
<1>1. MacInv /\ [MacNext]_mhVars => MacInv'
  BY MacTypedStep, RouteStep, MacQueueStep, MacNumberStep, MacTruthStep DEF MacInv
<1> QED BY MacInitSafe, <1>1, PTL DEF MacSpec

(* The system's resolver points into the tunnel only while its route exists
   (macos.rs:439, :460), on every path but one: after an accept that failed
   the core is dropped before the resolver (macos.rs:783, :411).            *)
THEOREM MacDnsImpliesRoute == MacSpec => []DnsImpliesRoute
<1>1. MacInv => DnsImpliesRoute
  BY DEF MacInv, RouteInv, DnsImpliesRoute
<1> QED BY <1>1, MacSafe, PTL

(* The last answer tells what the resolver and the core within the helper's
   reach do, although requests that timed out are still carried out
   (macos.rs:307).  A core whose stop failed is out of reach (lib.rs:153) and
   not told of.                                                             *)
THEOREM MacAnswersAreCurrent == MacSpec => []MacAnswerIsCurrent
<1>1. MacInv => MacAnswerIsCurrent
  BY DEF MacInv, MacTruthInv, MacSettled, MacAnswerIsCurrent
<1> QED BY <1>1, MacSafe, PTL
(* Every variable keeps its type, and the requests their bounds.            *)
THEOREM MacHelperTyped == MacSpec => []MacTypeOK
<1>0. MaxMacCalls \in Nat /\ MaxMacMishaps \in Nat
  BY MacAssumption DEF MacAssumption
<1>1. MacInit => MacBounds
  <2> SUFFICES ASSUME MacInit PROVE MacBounds
    OBVIOUS
  <2>1. mhOwner.calls = 0 /\ Len(mhBacklog) = 0
    BY DEF MacInit
  <2>2. mhChild \in BOOLEAN /\ mhSocket \in BOOLEAN
    BY DEF MacInit
  <2>3. mhLease \in {"none", "offered", "held", "closed"} /\ mhMishaps \in 0 .. MaxMacMishaps
    BY <1>0 DEF MacInit
  <2> QED BY <1>0, <2>1, <2>2, <2>3 DEF MacBounds
<1>2. MacInv /\ MacBounds /\ [MacNext]_mhVars => MacBounds'
  BY MacBoundsStep DEF MacInv
<1>3. MacInv /\ MacBounds => MacTypeOK
  BY MacFields, <1>0
     DEF MacInv, MacBounds, MacTypeOK, MacTyped, MacOwnerType, MacHelperType, MacOwnerPlaces,
         MacHelperPlaces
<1>4. MacSpec => []MacInv
  BY MacSafe
<1> QED BY <1>1, <1>2, <1>3, <1>4, PTL DEF MacSpec

-----------------------------------------------------------------------------
(* The profile file.                                                        *)
StoreSpec == StoreInit /\ [][StoreNext]_psVars

(* Of one process that loads before it saves.  As long as no save began beside
   a first load that still swept, a save has the file to itself.             *)
SaveInv(p) ==
    /\ psSave[p].pc # "idle" =>
          p \in psRecovered /\ ~Sweeping(p) /\ psSave[p].new = psVersions /\ psAcked < psVersions
    /\ psSave[p].pc = "write" => psTemp[p] # "none"
    /\ psSave[p].pc \in {"rename", "aside", "install"} => psTemp[p] = "full"
    /\ psSave[p].pc \in {"idle", "write", "rename", "aside"} => psSave[p].old = 0
    /\ psSave[p].pc = "install" /\ psSave[p].old = 0 => psBackups = {} /\ psAcked = 0
    /\ psSave[p].pc \in {"install", "restore"} => psFile = NoProfile
    /\ psSave[p].pc = "install" /\ psSave[p].old # 0 => psSave[p].old \in psBackups
    /\ psSave[p].pc = "restore" => psMishaps >= 1 /\ psSave[p].old \in psBackups
    /\ psSave[p].pc = "drop" => psFile = psVersions
    /\ psSave[p].pc \notin {"idle", "drop"} => psFile < psVersions /\ \A b \in psBackups : b < psVersions

(* The file is the newest version there is; while it is missing the newest
   backup is, and it is missing only during a save or before a sweep.  A sweep
   finds at most one backup, and until the one mishap none but that of a save. *)
FileInv(p) ==
    /\ psVersions \in 0 .. MaxVersions
    /\ psFile \in 0 .. psVersions /\ psBackups \subseteq 1 .. psVersions /\ psAcked \in 0 .. psVersions
    /\ psFile # NoProfile => \A b \in psBackups : b <= psFile
    /\ psFile # NoProfile => psAcked <= psFile
    /\ psBackups # {} => \E b \in psBackups : psFile = NoProfile => psAcked <= b
    /\ psFile = NoProfile /\ psBackups = {} => psAcked = 0
    /\ p \in psRecovered /\ psSave[p].pc \notin {"install", "restore"} /\ psFile = NoProfile
          => psBackups = {}
    /\ psSave[p].old # 0 => \A b \in psBackups : b <= psSave[p].old
    /\ p \notin psRecovered \/ Sweeping(p) => \A a, b \in psBackups : a = b
    /\ psMishaps = 0 => psBackups \subseteq {psSave[p].old}

(* What one of the loads still has to do, whatever the others have swept: the
   only backup goes back in place while the file is missing, and is not there
   any more when another load put it back.                                   *)
ReaderInv(p, r) ==
    /\ psMishaps = 0 => psLoad[<<p, r>>].backups = {} /\ psLoad[<<p, r>>].pc # "move"
    /\ psLoad[<<p, r>>].pc = "sweep" /\ psFile = NoProfile => psLoad[<<p, r>>].backups = psBackups
    /\ psLoad[<<p, r>>].pc = "move" /\ psFile = NoProfile =>
          psLoad[<<p, r>>].look \in psBackups /\ ~psLoad[<<p, r>>].exists
    /\ psLoad[<<p, r>>].pc = "move" /\ psFile # NoProfile /\ ~psLoad[<<p, r>>].exists =>
          psBackups = {}

\* Even beside a late sweep the file is never torn.
WholeInv(p) ==
    /\ psFile # Torn
    /\ psSave[p].pc \in {"rename", "aside", "install"} => psTemp[p] \in {"none", "full"}
    /\ psSave[p].pc # "idle" => psSave[p].new # 0

KeptInv(p) == SaveInv(p) /\ FileInv(p) /\ \A r \in Readers : ReaderInv(p, r)

StoreInv == StoreTypeOK /\ \A p \in Processes : WholeInv(p) /\ (psCrossed \/ KeptInv(p))

LEMMA NewestIs ==
    ASSUME NEW S \in SUBSET Nat, NEW v \in S, \A u \in S : u <= v
    PROVE  Newest(S) = v
<1>1. \A x \in S : (\A u \in S : u <= x) => x = v
  OBVIOUS
<1> QED BY <1>1 DEF Newest

SaveType == [pc : {"idle", "write", "rename", "aside", "install", "restore", "drop"},
             new : 0 .. MaxVersions, old : 0 .. MaxVersions]
LoadType == [pc : {"idle", "list", "sweep", "move", "read"}, temps : SUBSET Processes,
             backups : SUBSET Saves, look : 0 .. MaxVersions, exists : BOOLEAN,
             answer : 0 .. MaxVersions]

LEMMA NewSave ==
    ASSUME NEW n \in 0 .. MaxVersions, MaxVersions \in Nat
    PROVE  [NoSave EXCEPT !.pc = "write", !.new = n] \in SaveType
<1>1. NoSave \in SaveType
  BY DEF NoSave, SaveType
<1> QED BY <1>1 DEF SaveType

(* The load of one reader changes and the others stay.                      *)
OneLoads(p, r) ==
    /\ psLoad' \in [Processes \X Readers -> LoadType]
    /\ \A q \in Readers \ {r} : psLoad'[<<p, q>>] = psLoad[<<p, q>>]

LEMMA NewLoad ==
    ASSUME NEW p \in Processes, NEW r \in Readers, NEW load \in LoadType,
           psLoad \in [Processes \X Readers -> LoadType],
           psLoad' = [psLoad EXCEPT ![<<p, r>>] = load]
    PROVE  OneLoads(p, r) /\ psLoad'[<<p, r>>] = load
<1>1. <<p, r>> \in Processes \X Readers /\ \A q \in Readers : <<p, q>> \in Processes \X Readers
  OBVIOUS
<1>2. psLoad' \in [Processes \X Readers -> LoadType]
  OBVIOUS
<1>3. psLoad'[<<p, r>>] = load
  BY <1>1
<1>4. \A q \in Readers \ {r} : psLoad'[<<p, q>>] = psLoad[<<p, q>>]
  BY <1>1
<1> QED BY <1>2, <1>3, <1>4 DEF OneLoads

LEMMA EmptyLoad == MaxVersions \in Nat => NoLoad \in LoadType
BY DEF NoLoad, LoadType

(* The steps of a save leave the loads, and no load sweeps then.            *)
LEMMA ReadersStay ==
    ASSUME NEW p, UNCHANGED <<psLoad, psCrossed>>, KeptInv(p), psSave[p].pc # "idle",
           psMishaps' = 0 => psMishaps = 0
    PROVE  \A r \in Readers : ReaderInv(p, r)'
BY DEF KeptInv, SaveInv, ReaderInv, Sweeping

LEMMA SweepingStays == UNCHANGED psLoad => \A p : Sweeping(p)' <=> Sweeping(p)
BY DEF Sweeping

LEMMA SaveBeginSafe ==
    ASSUME NEW p, Processes = {p}, LoadFirst, MaxStoreMishaps <= 1, StoreInv, SaveBegin(p)
    PROVE  StoreInv'
<1> USE StoreAssumption DEF StoreInv, StoreTypeOK, Saves, SaveBegin, NoSave, NoProfile, Torn
<1>1. StoreTypeOK'
  <2>3. psSave' \in [Processes -> SaveType]
    <3>0. psVersions + 1 \in 0 .. MaxVersions
      OBVIOUS
    <3>1. [NoSave EXCEPT !.pc = "write", !.new = psVersions + 1] \in SaveType
      BY <3>0, NewSave
    <3>2. psSave' = [psSave EXCEPT ![p] = [NoSave EXCEPT !.pc = "write", !.new = psVersions + 1]]
      OBVIOUS
    <3> HIDE DEF NoSave
    <3> QED BY <3>1, <3>2 DEF SaveType
  <2>5. psCrossed' \in BOOLEAN
    OBVIOUS
  <2> QED BY <2>3, <2>5 DEF SaveType
<1>2. WholeInv(p)'
  BY DEF WholeInv
<1>3. psCrossed' \/ KeptInv(p)'
  <2> SUFFICES ASSUME ~psCrossed' PROVE KeptInv(p)'
    OBVIOUS
  <2>0. KeptInv(p) /\ ~Sweeping(p) /\ ~Sweeping(p)'
    BY SweepingStays
  <2>4. \A r \in Readers : ReaderInv(p, r)'
    BY <2>0 DEF KeptInv, ReaderInv
  <2>1. SaveInv(p)'
    BY <2>0 DEF KeptInv, SaveInv, FileInv
  <2>2. FileInv(p)'
    BY <2>0 DEF KeptInv, SaveInv, FileInv
  <2> QED BY <2>1, <2>2, <2>4 DEF KeptInv
<1> QED BY ONLY Processes = {p}, <1>1, <1>2, <1>3 DEF StoreInv

LEMMA SaveWriteSafe ==
    ASSUME NEW p, Processes = {p}, LoadFirst, MaxStoreMishaps <= 1, StoreInv, SaveWrite(p)
    PROVE  StoreInv'
<1> USE StoreAssumption DEF StoreInv, StoreTypeOK, Saves, SaveWrite, Fault, NoFault, SaveFails,
           NoSave, NoProfile, Torn
<1>1. StoreTypeOK'
  OBVIOUS
<1>2. WholeInv(p)'
  BY DEF WholeInv
<1>3. psCrossed' \/ KeptInv(p)'
  <2> SUFFICES ASSUME ~psCrossed' PROVE KeptInv(p)'
    OBVIOUS
  <2>0. KeptInv(p) /\ (Sweeping(p)' <=> Sweeping(p))
    BY SweepingStays
  <2>4. \A r \in Readers : ReaderInv(p, r)'
    BY <2>0, ReadersStay
  <2>1. SaveInv(p)'
    BY <2>0 DEF KeptInv, SaveInv, FileInv
  <2>2. FileInv(p)'
    BY <2>0 DEF KeptInv, SaveInv, FileInv
  <2> QED BY <2>1, <2>2, <2>4 DEF KeptInv
<1> QED BY ONLY Processes = {p}, <1>1, <1>2, <1>3 DEF StoreInv

LEMMA SaveRenameSafe ==
    ASSUME NEW p, Processes = {p}, LoadFirst, MaxStoreMishaps <= 1, StoreInv, SaveRename(p)
    PROVE  StoreInv'
<1> USE StoreAssumption DEF StoreInv, StoreTypeOK, Saves, SaveRename, Fault, NoFault, SaveSucceeds,
           Placed, NoSave, Torn, NoProfile
<1>1. StoreTypeOK'
  BY DEF WholeInv
<1>2. WholeInv(p)'
  BY DEF WholeInv
<1>3. psCrossed' \/ KeptInv(p)'
  <2> SUFFICES ASSUME ~psCrossed' PROVE KeptInv(p)'
    OBVIOUS
  <2>0. KeptInv(p) /\ (Sweeping(p)' <=> Sweeping(p))
    BY SweepingStays
  <2>4. \A r \in Readers : ReaderInv(p, r)'
    BY <2>0, ReadersStay
  <2>1. SaveInv(p)'
    BY <2>0 DEF KeptInv, SaveInv, FileInv
  <2>2. FileInv(p)'
    BY <2>0 DEF KeptInv, SaveInv, FileInv
  <2> QED BY <2>1, <2>2, <2>4 DEF KeptInv
<1> QED BY ONLY Processes = {p}, <1>1, <1>2, <1>3 DEF StoreInv

LEMMA SaveAsideSafe ==
    ASSUME NEW p, Processes = {p}, LoadFirst, MaxStoreMishaps <= 1, StoreInv, SaveAside(p)
    PROVE  StoreInv'
<1> USE StoreAssumption DEF StoreInv, StoreTypeOK, Saves, SaveAside, NoProfile, Fault, NoFault,
           SaveFails, NoSave, Torn
<1>1. StoreTypeOK'
  BY DEF WholeInv
<1>2. WholeInv(p)'
  BY DEF WholeInv
<1>3. psCrossed' \/ KeptInv(p)'
  <2> SUFFICES ASSUME ~psCrossed' PROVE KeptInv(p)'
    OBVIOUS
  <2>0. KeptInv(p) /\ (Sweeping(p)' <=> Sweeping(p))
    BY SweepingStays
  <2>4. \A r \in Readers : ReaderInv(p, r)'
    BY <2>0, ReadersStay
  <2>1. SaveInv(p)'
    BY <2>0 DEF KeptInv, SaveInv, FileInv
  <2>2. FileInv(p)'
    BY <2>0 DEF KeptInv, SaveInv, FileInv
  <2> QED BY <2>1, <2>2, <2>4 DEF KeptInv
<1> QED BY ONLY Processes = {p}, <1>1, <1>2, <1>3 DEF StoreInv

LEMMA SaveInstallSafe ==
    ASSUME NEW p, Processes = {p}, LoadFirst, MaxStoreMishaps <= 1, StoreInv, SaveInstall(p)
    PROVE  StoreInv'
<1> USE StoreAssumption DEF StoreInv, StoreTypeOK, Saves, SaveInstall, Fault, NoFault, SaveFails,
           SaveSucceeds, Placed, NoSave, Torn, NoProfile
<1>1. StoreTypeOK'
  BY DEF WholeInv
<1>2. WholeInv(p)'
  BY DEF WholeInv
<1>3. psCrossed' \/ KeptInv(p)'
  <2> SUFFICES ASSUME ~psCrossed' PROVE KeptInv(p)'
    OBVIOUS
  <2>0. KeptInv(p) /\ (Sweeping(p)' <=> Sweeping(p))
    BY SweepingStays
  <2>4. \A r \in Readers : ReaderInv(p, r)'
    BY <2>0, ReadersStay
  <2>1. SaveInv(p)'
    BY <2>0 DEF KeptInv, SaveInv, FileInv
  <2>2. FileInv(p)'
    BY <2>0 DEF KeptInv, SaveInv, FileInv
  <2> QED BY <2>1, <2>2, <2>4 DEF KeptInv
<1> QED BY ONLY Processes = {p}, <1>1, <1>2, <1>3 DEF StoreInv

LEMMA SaveRestoreSafe ==
    ASSUME NEW p, Processes = {p}, LoadFirst, MaxStoreMishaps <= 1, StoreInv, SaveRestore(p)
    PROVE  StoreInv'
<1> USE StoreAssumption DEF StoreInv, StoreTypeOK, Saves, SaveRestore, Fault, NoFault, SaveFails,
           NoSave, NoProfile, Torn
<1>1. StoreTypeOK'
  <2>1. psFile' \in Saves \cup {NoProfile, Torn} /\ psBackups' \subseteq Saves
    OBVIOUS
  <2>2. psSave' \in [Processes -> SaveType] /\ psTemp' \in [Processes -> {"none", "partial", "full"}]
    <3>1. NoSave \in SaveType
      BY DEF SaveType
    <3>2. psSave \in [Processes -> SaveType]
      BY DEF SaveType
    <3>3. psSave' = [psSave EXCEPT ![p] = NoSave]
      OBVIOUS
    <3> QED BY <3>1, <3>2, <3>3
  <2>3. psMishaps' \in 0 .. MaxStoreMishaps
    OBVIOUS
  <2> QED BY <2>1, <2>2, <2>3 DEF SaveType
<1>2. WholeInv(p)'
  BY DEF WholeInv
<1>3. psCrossed' \/ KeptInv(p)'
  <2> SUFFICES ASSUME ~psCrossed' PROVE KeptInv(p)'
    OBVIOUS
  <2>0. KeptInv(p) /\ (Sweeping(p)' <=> Sweeping(p))
    BY SweepingStays
  <2>4. \A r \in Readers : ReaderInv(p, r)'
    BY <2>0, ReadersStay
  <2>1. SaveInv(p)'
    BY <2>0 DEF KeptInv, SaveInv, FileInv
  <2>2. FileInv(p)'
    BY <2>0 DEF KeptInv, SaveInv, FileInv
  <2> QED BY <2>1, <2>2, <2>4 DEF KeptInv
<1> QED BY ONLY Processes = {p}, <1>1, <1>2, <1>3 DEF StoreInv

LEMMA SaveDropSafe ==
    ASSUME NEW p, Processes = {p}, LoadFirst, MaxStoreMishaps <= 1, StoreInv, SaveDrop(p)
    PROVE  StoreInv'
<1> USE StoreAssumption DEF StoreInv, StoreTypeOK, Saves, SaveDrop, Fault, NoFault, SaveSucceeds,
           NoSave, NoProfile, Torn
<1>1. StoreTypeOK'
  <2>1. psBackups' \subseteq Saves
    OBVIOUS
  <2>2. psSave' \in [Processes -> SaveType] /\ psTemp' \in [Processes -> {"none", "partial", "full"}]
    <3>1. NoSave \in SaveType
      BY DEF SaveType
    <3>2. psSave \in [Processes -> SaveType]
      BY DEF SaveType
    <3>3. psSave' = [psSave EXCEPT ![p] = NoSave]
      OBVIOUS
    <3> QED BY <3>1, <3>2, <3>3
  <2>3. psMishaps' \in 0 .. MaxStoreMishaps
    OBVIOUS
  <2>4. psAcked' \in 0 .. MaxVersions
    OBVIOUS
  <2> QED BY <2>1, <2>2, <2>3, <2>4 DEF SaveType
<1>2. WholeInv(p)'
  BY DEF WholeInv
<1>3. psCrossed' \/ KeptInv(p)'
  <2> SUFFICES ASSUME ~psCrossed' PROVE KeptInv(p)'
    OBVIOUS
  <2>0. KeptInv(p) /\ (Sweeping(p)' <=> Sweeping(p))
    BY SweepingStays
  <2>4. \A r \in Readers : ReaderInv(p, r)'
    BY <2>0, ReadersStay
  <2>1. SaveInv(p)'
    BY <2>0 DEF KeptInv, SaveInv, FileInv
  <2>2. FileInv(p)'
    BY <2>0 DEF KeptInv, SaveInv, FileInv
  <2> QED BY <2>1, <2>2, <2>4 DEF KeptInv
<1> QED BY ONLY Processes = {p}, <1>1, <1>2, <1>3 DEF StoreInv

LEMMA LoadBeginSafe ==
    ASSUME NEW p, Processes = {p}, LoadFirst, MaxStoreMishaps <= 1, StoreInv,
           NEW r \in Readers, LoadBegin(p, r)
    PROVE  StoreInv'
<1> USE StoreAssumption DEF StoreInv, StoreTypeOK, Saves, LoadBegin, NoProfile, Torn
<1>0. OneLoads(p, r) /\ psLoad'[<<p, r>>] = [NoLoad EXCEPT !.pc = IF p \in psRecovered THEN "read" ELSE "list"]
      /\ psLoad'[<<p, r>>].pc \in {"read", "list"} /\ psLoad'[<<p, r>>].backups = {}
      /\ (p \in psRecovered => psLoad'[<<p, r>>].pc = "read")
  <2> DEFINE load == [NoLoad EXCEPT !.pc = IF p \in psRecovered THEN "read" ELSE "list"]
  <2>1. load \in LoadType
    <3>1. NoLoad \in LoadType
      BY EmptyLoad
    <3> QED BY <3>1 DEF LoadType
  <2>2. psLoad' = [psLoad EXCEPT ![<<p, r>>] = load]
    OBVIOUS
  <2>3. psLoad \in [Processes \X Readers -> LoadType] /\ p \in Processes
    BY DEF LoadType
  <2> HIDE DEF load
  <2>4. OneLoads(p, r) /\ psLoad'[<<p, r>>] = load
    BY ONLY <2>1, <2>2, <2>3, r \in Readers, NewLoad
  <2> QED BY <2>4 DEF load, NoLoad
<1>1. StoreTypeOK'
  BY <1>0 DEF LoadType, OneLoads
<1>2. WholeInv(p)'
  BY DEF WholeInv
<1>3. psCrossed' \/ KeptInv(p)'
  <2> SUFFICES ASSUME ~psCrossed' PROVE KeptInv(p)'
    OBVIOUS
  <2>0. KeptInv(p)
    OBVIOUS
  <2>1. Sweeping(p)' => Sweeping(p) \/ p \notin psRecovered
    BY <1>0 DEF Sweeping, OneLoads
  <2>3. SaveInv(p)'
    BY <2>0, <2>1 DEF KeptInv, SaveInv
  <2>4. FileInv(p)'
    BY <2>0, <2>1 DEF KeptInv, FileInv
  <2>5. ReaderInv(p, r)'
    BY <1>0, <2>0, <2>1 DEF KeptInv, ReaderInv, FileInv
  <2>6. \A q \in Readers \ {r} : ReaderInv(p, q)'
    BY <1>0, <2>0, <2>1 DEF OneLoads, KeptInv, ReaderInv, FileInv
  <2> QED BY <2>3, <2>4, <2>5, <2>6 DEF KeptInv
<1> QED BY ONLY Processes = {p}, <1>1, <1>2, <1>3 DEF StoreInv

LEMMA SweepListSafe ==
    ASSUME NEW p, Processes = {p}, LoadFirst, MaxStoreMishaps <= 1, StoreInv,
           NEW r \in Readers, SweepList(p, r)
    PROVE  StoreInv'
<1> USE StoreAssumption DEF StoreInv, StoreTypeOK, Saves, SweepList, NoProfile, Torn
<1>0. OneLoads(p, r) /\ psLoad'[<<p, r>>].pc = "sweep" /\ psLoad'[<<p, r>>].backups = psBackups
  <2> DEFINE load == [psLoad[<<p, r>>] EXCEPT !.pc = "sweep", !.backups = psBackups,
                                   !.temps = {q \in Processes : psTemp[q] # "none"}]
  <2>1. load \in LoadType
    <3>1. psLoad[<<p, r>>] \in LoadType /\ psBackups \in SUBSET Saves
      BY DEF LoadType
    <3>2. {q \in Processes : psTemp[q] # "none"} \in SUBSET Processes
      OBVIOUS
    <3> QED BY ONLY <3>1, <3>2 DEF LoadType
  <2>2. psLoad' = [psLoad EXCEPT ![<<p, r>>] = load]
    OBVIOUS
  <2>3. psLoad \in [Processes \X Readers -> LoadType] /\ p \in Processes
    BY DEF LoadType
  <2> HIDE DEF load
  <2>4. OneLoads(p, r) /\ psLoad'[<<p, r>>] = load
    BY ONLY <2>1, <2>2, <2>3, r \in Readers, NewLoad
  <2> QED BY <2>4 DEF load
<1>1. StoreTypeOK'
  BY <1>0 DEF LoadType, OneLoads
<1>2. WholeInv(p)'
  BY DEF WholeInv
<1>3. psCrossed' \/ KeptInv(p)'
  <2> SUFFICES ASSUME ~psCrossed' PROVE KeptInv(p)'
    OBVIOUS
  <2>0. KeptInv(p)
    OBVIOUS
  <2>1. Sweeping(p) /\ psSave[p].pc = "idle" /\ psSave[p].old = 0
    BY <2>0 DEF Sweeping, KeptInv, SaveInv
  <2>3. SaveInv(p)'
    BY <2>0, <2>1 DEF KeptInv, SaveInv
  <2>4. FileInv(p)'
    BY <2>0, <2>1 DEF KeptInv, FileInv
  <2>5. ReaderInv(p, r)'
    BY <1>0, <2>0, <2>1 DEF KeptInv, ReaderInv, FileInv
  <2>6. \A q \in Readers \ {r} : ReaderInv(p, q)'
    BY <1>0, <2>0, <2>1 DEF OneLoads, KeptInv, ReaderInv, FileInv
  <2> QED BY <2>3, <2>4, <2>5, <2>6 DEF KeptInv
<1> QED BY ONLY Processes = {p}, <1>1, <1>2, <1>3 DEF StoreInv

LEMMA SweepFailsSafe ==
    ASSUME NEW p, Processes = {p}, LoadFirst, MaxStoreMishaps <= 1, StoreInv,
           NEW r \in Readers, SweepFails(p, r)
    PROVE  StoreInv'
<1> USE StoreAssumption DEF StoreInv, StoreTypeOK, Saves, SweepFails, Fault, NoProfile, Torn
<1>0. OneLoads(p, r) /\ psLoad'[<<p, r>>].pc = "read" /\ psLoad'[<<p, r>>].backups = psLoad[<<p, r>>].backups
  <2> DEFINE load == [psLoad[<<p, r>>] EXCEPT !.pc = "read"]
  <2>1. load \in LoadType
    <3>1. psLoad[<<p, r>>] \in LoadType
      BY DEF LoadType
    <3> QED BY <3>1 DEF LoadType
  <2>2. psLoad' = [psLoad EXCEPT ![<<p, r>>] = load]
    OBVIOUS
  <2>3. psLoad \in [Processes \X Readers -> LoadType] /\ p \in Processes
    BY DEF LoadType
  <2> HIDE DEF load
  <2>4. OneLoads(p, r) /\ psLoad'[<<p, r>>] = load
    BY ONLY <2>1, <2>2, <2>3, r \in Readers, NewLoad
  <2> QED BY <2>4 DEF load
<1>1. StoreTypeOK'
  BY <1>0 DEF LoadType, OneLoads
<1>2. WholeInv(p)'
  BY DEF WholeInv
<1>3. psCrossed' \/ KeptInv(p)'
  <2> SUFFICES ASSUME ~psCrossed' PROVE KeptInv(p)'
    OBVIOUS
  <2>0. KeptInv(p)
    OBVIOUS
  <2>1. Sweeping(p) /\ psSave[p].pc = "idle" /\ psSave[p].old = 0
    BY <2>0 DEF Sweeping, KeptInv, SaveInv
  <2>2. psBackups = {}
    <3>1. psMishaps = 0
      OBVIOUS
    <3> QED BY <2>0, <2>1, <3>1 DEF KeptInv, FileInv
  <2>3. SaveInv(p)'
    BY <2>0, <2>1 DEF KeptInv, SaveInv
  <2>4. FileInv(p)'
    BY <2>0, <2>1, <2>2 DEF KeptInv, FileInv
  <2>5. ReaderInv(p, r)'
    BY <1>0, <2>0, <2>1 DEF KeptInv, ReaderInv, FileInv
  <2>6. \A q \in Readers \ {r} : ReaderInv(p, q)'
    BY <1>0, <2>0, <2>1 DEF OneLoads, KeptInv, ReaderInv, FileInv
  <2> QED BY <2>3, <2>4, <2>5, <2>6 DEF KeptInv
<1> QED BY ONLY Processes = {p}, <1>1, <1>2, <1>3 DEF StoreInv

LEMMA SweepTempSafe ==
    ASSUME NEW p, Processes = {p}, LoadFirst, MaxStoreMishaps <= 1, StoreInv,
           NEW r \in Readers, SweepTemp(p, r)
    PROVE  StoreInv'
<1> USE StoreAssumption DEF StoreInv, StoreTypeOK, Saves, SweepTemp, NoProfile, Torn
<1>0. OneLoads(p, r) /\ psLoad'[<<p, r>>].pc = "sweep" /\ psLoad'[<<p, r>>].backups = psLoad[<<p, r>>].backups
  <2>0. PICK q \in psLoad[<<p, r>>].temps :
          psLoad' = [psLoad EXCEPT ![<<p, r>>].temps = @ \ {q}]
    OBVIOUS
  <2> DEFINE load == [psLoad[<<p, r>>] EXCEPT !.temps = @ \ {q}]
  <2>1. load \in LoadType
    <3>1. psLoad[<<p, r>>] \in LoadType
      BY DEF LoadType
    <3> QED BY <3>1 DEF LoadType
  <2>2. psLoad' = [psLoad EXCEPT ![<<p, r>>] = load]
    BY <2>0
  <2>3. psLoad \in [Processes \X Readers -> LoadType] /\ p \in Processes
    BY DEF LoadType
  <2> HIDE DEF load
  <2>4. OneLoads(p, r) /\ psLoad'[<<p, r>>] = load
    BY ONLY <2>1, <2>2, <2>3, r \in Readers, NewLoad
  <2> QED BY <2>4 DEF load
<1>1. StoreTypeOK'
  <2>1. psLoad' \in [Processes \X Readers -> LoadType]
    BY <1>0 DEF OneLoads
  <2>2. psTemp' \in [Processes -> {"none", "partial", "full"}]
    OBVIOUS
  <2> QED BY <2>1, <2>2 DEF LoadType
<1>2. WholeInv(p)'
  BY DEF WholeInv
<1>3. psCrossed' \/ KeptInv(p)'
  <2> SUFFICES ASSUME ~psCrossed' PROVE KeptInv(p)'
    OBVIOUS
  <2>0. KeptInv(p)
    OBVIOUS
  <2>1. Sweeping(p) /\ psSave[p].pc = "idle" /\ psSave[p].old = 0
    BY <2>0 DEF Sweeping, KeptInv, SaveInv
  <2>3. SaveInv(p)'
    BY <2>0, <2>1 DEF KeptInv, SaveInv
  <2>4. FileInv(p)'
    BY <2>0, <2>1 DEF KeptInv, FileInv
  <2>5. ReaderInv(p, r)'
    BY <1>0, <2>0, <2>1 DEF KeptInv, ReaderInv, FileInv
  <2>6. \A q \in Readers \ {r} : ReaderInv(p, q)'
    BY <1>0, <2>0, <2>1 DEF OneLoads, KeptInv, ReaderInv, FileInv
  <2> QED BY <2>3, <2>4, <2>5, <2>6 DEF KeptInv
<1> QED BY ONLY Processes = {p}, <1>1, <1>2, <1>3 DEF StoreInv

LEMMA SweepLookSafe ==
    ASSUME NEW p, Processes = {p}, LoadFirst, MaxStoreMishaps <= 1, StoreInv,
           NEW r \in Readers, SweepLook(p, r)
    PROVE  StoreInv'
<1> USE StoreAssumption DEF StoreInv, StoreTypeOK, Saves, SweepLook, NoProfile, Torn
<1>0. OneLoads(p, r) /\ psLoad'[<<p, r>>].pc = "move" /\ (psLoad'[<<p, r>>].exists <=> psFile # NoProfile)
      /\ psLoad[<<p, r>>].backups # {} /\ psLoad'[<<p, r>>].backups \subseteq psLoad[<<p, r>>].backups
      /\ psLoad'[<<p, r>>].look \in psLoad[<<p, r>>].backups
  <2>0. PICK b \in psLoad[<<p, r>>].backups :
          psLoad' = [psLoad EXCEPT ![<<p, r>>].backups = @ \ {b}, ![<<p, r>>].look = b,
                         ![<<p, r>>].pc = "move", ![<<p, r>>].exists = psFile # NoProfile]
    OBVIOUS
  <2> DEFINE load == [psLoad[<<p, r>>] EXCEPT !.backups = @ \ {b}, !.look = b, !.pc = "move",
                                   !.exists = psFile # NoProfile]
  <2>1. load \in LoadType
    <3>1. psLoad[<<p, r>>] \in LoadType
      BY DEF LoadType
    <3>2. b \in 0 .. MaxVersions
      BY <3>1 DEF LoadType
    <3>3. (psFile # NoProfile) \in BOOLEAN
      OBVIOUS
    <3> QED BY ONLY <3>1, <3>2, <3>3 DEF LoadType
  <2>2. psLoad' = [psLoad EXCEPT ![<<p, r>>] = load]
    BY <2>0
  <2>3. psLoad \in [Processes \X Readers -> LoadType] /\ p \in Processes
    BY DEF LoadType
  <2> HIDE DEF load
  <2>4. OneLoads(p, r) /\ psLoad'[<<p, r>>] = load
    BY ONLY <2>1, <2>2, <2>3, r \in Readers, NewLoad
  <2>5. b \in psLoad[<<p, r>>].backups /\ load.pc = "move" /\ load.look = b
        /\ (load.exists <=> psFile # NoProfile)
        /\ load.backups = psLoad[<<p, r>>].backups \ {b}
    <3>1. psLoad[<<p, r>>] \in LoadType
      BY DEF LoadType
    <3> QED BY ONLY <2>0, <3>1 DEF load, LoadType
  <2> QED BY ONLY <2>4, <2>5
<1>1. StoreTypeOK'
  BY <1>0 DEF LoadType, OneLoads
<1>2. WholeInv(p)'
  BY DEF WholeInv
<1>3. psCrossed' \/ KeptInv(p)'
  <2> SUFFICES ASSUME ~psCrossed' PROVE KeptInv(p)'
    OBVIOUS
  <2>0. KeptInv(p)
    OBVIOUS
  <2>1. Sweeping(p) /\ psSave[p].pc = "idle" /\ psSave[p].old = 0
    BY <2>0 DEF Sweeping, KeptInv, SaveInv
  <2>3. SaveInv(p)'
    BY <2>0, <2>1 DEF KeptInv, SaveInv
  <2>4. FileInv(p)'
    BY <2>0, <2>1 DEF KeptInv, FileInv
  <2>5. ReaderInv(p, r)'
    BY <1>0, <2>0, <2>1 DEF KeptInv, ReaderInv, FileInv
  <2>6. \A q \in Readers \ {r} : ReaderInv(p, q)'
    BY <1>0, <2>0, <2>1 DEF OneLoads, KeptInv, ReaderInv, FileInv
  <2> QED BY <2>3, <2>4, <2>5, <2>6 DEF KeptInv
<1> QED BY ONLY Processes = {p}, <1>1, <1>2, <1>3 DEF StoreInv

LEMMA SweepMoveSafe ==
    ASSUME NEW p, Processes = {p}, LoadFirst, MaxStoreMishaps <= 1, StoreInv,
           NEW r \in Readers, SweepMove(p, r)
    PROVE  StoreInv'
<1> USE StoreAssumption DEF StoreInv, StoreTypeOK, Saves, SweepMove, Fault, NoFault, NoProfile, Torn
<1>0. OneLoads(p, r) /\ psLoad[<<p, r>>].pc = "move" /\ psLoad'[<<p, r>>].pc = "sweep"
  <2> DEFINE load == [psLoad[<<p, r>>] EXCEPT !.pc = "sweep"]
  <2>1. load \in LoadType
    <3>1. psLoad[<<p, r>>] \in LoadType
      BY DEF LoadType
    <3> QED BY <3>1 DEF LoadType
  <2>2. psLoad' = [psLoad EXCEPT ![<<p, r>>] = load]
    OBVIOUS
  <2>3. psLoad \in [Processes \X Readers -> LoadType] /\ p \in Processes
    BY DEF LoadType
  <2> HIDE DEF load
  <2>4. OneLoads(p, r) /\ psLoad'[<<p, r>>] = load
    BY ONLY <2>1, <2>2, <2>3, r \in Readers, NewLoad
  <2> QED BY <2>4 DEF load
<1>1. StoreTypeOK'
  <2>1. psLoad' \in [Processes \X Readers -> LoadType]
    BY <1>0 DEF OneLoads
  <2>2. psFile' \in Saves \cup {NoProfile, Torn} /\ psBackups' \subseteq Saves
    OBVIOUS
  <2>3. psMishaps' \in 0 .. MaxStoreMishaps
    OBVIOUS
  <2> QED BY <2>1, <2>2, <2>3 DEF LoadType
<1>2. WholeInv(p)'
  BY DEF WholeInv
<1>3. psCrossed' \/ KeptInv(p)'
  <2> SUFFICES ASSUME ~psCrossed' PROVE KeptInv(p)'
    OBVIOUS
  <2>0. KeptInv(p)
    OBVIOUS
  <2>1. Sweeping(p) /\ psSave[p].pc = "idle" /\ psSave[p].old = 0
    BY <2>0 DEF Sweeping, KeptInv, SaveInv
  <2>2. /\ psMishaps = 1 /\ psMishaps' = 1
        /\ \/ psFile' # NoProfile /\ psBackups' = {} /\ psFile' \in psBackups \cup {psFile}
              /\ (psFile # NoProfile => psFile' = psFile)
           \/ psFile' # NoProfile /\ psFile' = psFile /\ psBackups' = psBackups
    <3>1. psMishaps = 1
      BY <2>0 DEF KeptInv, ReaderInv
    <3>2. psMishaps' = 1
      BY <3>1
    <3>3. CASE psLoad[<<p, r>>].look \in psBackups
      <4>0. ~Fault
        BY <3>1
      <4>1. psBackups' = psBackups \ {psLoad[<<p, r>>].look}
        BY <3>3, <4>0
      <4>2. psBackups' = {}
        BY <2>0, <2>1, <3>3, <4>1 DEF KeptInv, FileInv
      <4>3. psFile' = IF psLoad[<<p, r>>].exists THEN psFile ELSE psLoad[<<p, r>>].look
        BY <3>3, <4>0
      <4>4. CASE psFile = NoProfile
        <5>1. ~psLoad[<<p, r>>].exists /\ psLoad[<<p, r>>].look # NoProfile
          BY <2>0, <3>3, <4>4 DEF KeptInv, ReaderInv
        <5> QED BY <3>1, <3>2, <3>3, <4>2, <4>3, <4>4, <5>1
      <4>5. CASE psFile # NoProfile
        <5>1. psLoad[<<p, r>>].exists
          BY <2>0, <3>3, <4>5 DEF KeptInv, ReaderInv
        <5> QED BY <3>1, <3>2, <3>3, <4>2, <4>3, <4>5, <5>1
      <4> QED BY <4>4, <4>5
    <3>4. CASE psLoad[<<p, r>>].look \notin psBackups
      <4>1. psFile # NoProfile
        BY <2>0, <3>4 DEF KeptInv, ReaderInv
      <4> QED BY <3>1, <3>2, <3>4, <4>1
    <3> QED BY <3>3, <3>4
  <2>3. SaveInv(p)'
    BY <2>0, <2>1 DEF KeptInv, SaveInv
  <2>4. FileInv(p)'
    BY <2>0, <2>1, <2>2 DEF KeptInv, FileInv
  <2>5. ReaderInv(p, r)'
    BY <1>0, <2>0, <2>1, <2>2 DEF KeptInv, ReaderInv, FileInv
  <2>6. \A q \in Readers \ {r} : ReaderInv(p, q)'
    BY <1>0, <2>0, <2>1, <2>2 DEF OneLoads, KeptInv, ReaderInv, FileInv
  <2> QED BY <2>3, <2>4, <2>5, <2>6 DEF KeptInv
<1> QED BY ONLY Processes = {p}, <1>1, <1>2, <1>3 DEF StoreInv

LEMMA SweepDoneSafe ==
    ASSUME NEW p, Processes = {p}, LoadFirst, MaxStoreMishaps <= 1, StoreInv,
           NEW r \in Readers, SweepDone(p, r)
    PROVE  StoreInv'
<1> USE StoreAssumption DEF StoreInv, StoreTypeOK, Saves, SweepDone, NoProfile, Torn
<1>0. OneLoads(p, r) /\ psLoad'[<<p, r>>].pc = "read" /\ psLoad'[<<p, r>>].backups = {}
  <2> DEFINE load == [psLoad[<<p, r>>] EXCEPT !.pc = "read"]
  <2>1. load \in LoadType
    <3>1. psLoad[<<p, r>>] \in LoadType
      BY DEF LoadType
    <3> QED BY <3>1 DEF LoadType
  <2>2. psLoad' = [psLoad EXCEPT ![<<p, r>>] = load]
    OBVIOUS
  <2>3. psLoad \in [Processes \X Readers -> LoadType] /\ p \in Processes
    BY DEF LoadType
  <2> HIDE DEF load
  <2>4. OneLoads(p, r) /\ psLoad'[<<p, r>>] = load
    BY ONLY <2>1, <2>2, <2>3, r \in Readers, NewLoad
  <2> QED BY <2>4 DEF load
<1>1. StoreTypeOK'
  BY <1>0 DEF LoadType, OneLoads
<1>2. WholeInv(p)'
  BY DEF WholeInv
<1>3. psCrossed' \/ KeptInv(p)'
  <2> SUFFICES ASSUME ~psCrossed' PROVE KeptInv(p)'
    OBVIOUS
  <2>0. KeptInv(p)
    OBVIOUS
  <2>1. Sweeping(p) /\ psSave[p].pc = "idle" /\ psSave[p].old = 0
    BY <2>0 DEF Sweeping, KeptInv, SaveInv
  <2>2. psFile = NoProfile => psBackups = {}
    BY <2>0 DEF KeptInv, ReaderInv
  <2>3. SaveInv(p)'
    BY <2>0, <2>1 DEF KeptInv, SaveInv
  <2>4. FileInv(p)'
    BY <2>0, <2>1, <2>2 DEF KeptInv, FileInv
  <2>5. ReaderInv(p, r)'
    BY <1>0, <2>0, <2>1 DEF KeptInv, ReaderInv, FileInv
  <2>6. \A q \in Readers \ {r} : ReaderInv(p, q)'
    BY <1>0, <2>0, <2>1 DEF OneLoads, KeptInv, ReaderInv, FileInv
  <2> QED BY <2>3, <2>4, <2>5, <2>6 DEF KeptInv
<1> QED BY ONLY Processes = {p}, <1>1, <1>2, <1>3 DEF StoreInv

LEMMA LoadReadSafe ==
    ASSUME NEW p, Processes = {p}, LoadFirst, MaxStoreMishaps <= 1, StoreInv,
           NEW r \in Readers, LoadRead(p, r)
    PROVE  StoreInv'
<1> USE StoreAssumption DEF StoreInv, StoreTypeOK, Saves, LoadRead, NoProfile, Torn
<1>0. OneLoads(p, r) /\ psLoad'[<<p, r>>].pc = "idle" /\ psLoad'[<<p, r>>].backups = {}
  <2> DEFINE load == [NoLoad EXCEPT !.answer = psFile]
  <2>1. load \in LoadType
    <3>1. NoLoad \in LoadType
      BY EmptyLoad
    <3>2. psFile \in 0 .. MaxVersions
      BY DEF WholeInv
    <3> HIDE DEF NoLoad
    <3> QED BY <3>1, <3>2 DEF LoadType
  <2>2. psLoad' = [psLoad EXCEPT ![<<p, r>>] = load]
    OBVIOUS
  <2>3. psLoad \in [Processes \X Readers -> LoadType] /\ p \in Processes
    BY DEF LoadType
  <2> HIDE DEF load
  <2>4. OneLoads(p, r) /\ psLoad'[<<p, r>>] = load
    BY ONLY <2>1, <2>2, <2>3, r \in Readers, NewLoad
  <2> QED BY <2>4 DEF load, NoLoad
<1>1. StoreTypeOK'
  BY <1>0 DEF LoadType, OneLoads
<1>2. WholeInv(p)'
  BY DEF WholeInv
<1>3. psCrossed' \/ KeptInv(p)'
  <2> SUFFICES ASSUME ~psCrossed' PROVE KeptInv(p)'
    OBVIOUS
  <2>0. KeptInv(p)
    OBVIOUS
  <2>1. Sweeping(p)' <=> Sweeping(p)
    BY <1>0 DEF Sweeping, OneLoads
  <2>3. SaveInv(p)'
    BY <2>0, <2>1 DEF KeptInv, SaveInv
  <2>4. FileInv(p)'
    BY <2>0, <2>1 DEF KeptInv, FileInv
  <2>5. ReaderInv(p, r)'
    BY <1>0, <2>0, <2>1 DEF KeptInv, ReaderInv, FileInv
  <2>6. \A q \in Readers \ {r} : ReaderInv(p, q)'
    BY <1>0, <2>0, <2>1 DEF OneLoads, KeptInv, ReaderInv, FileInv
  <2> QED BY <2>3, <2>4, <2>5, <2>6 DEF KeptInv
<1> QED BY ONLY Processes = {p}, <1>1, <1>2, <1>3 DEF StoreInv

LEMMA ProcessKilledSafe ==
    ASSUME NEW p, Processes = {p}, LoadFirst, MaxStoreMishaps <= 1, StoreInv, ProcessKilled(p)
    PROVE  StoreInv'
<1> USE StoreAssumption DEF StoreInv, StoreTypeOK, Saves, ProcessKilled, NoSave, Fault,
           NoProfile, Torn
<1>0. \A r \in Readers : psLoad'[<<p, r>>].pc = "idle" /\ psLoad'[<<p, r>>].backups = {}
  BY DEF NoLoad
<1>1. StoreTypeOK'
  <2>1. psLoad' \in [Processes \X Readers -> LoadType]
    <3>1. NoLoad \in LoadType
      BY EmptyLoad
    <3>2. psLoad \in [Processes \X Readers -> LoadType]
      BY DEF LoadType
    <3>3. psLoad' = [l \in Processes \X Readers |-> IF l[1] = p THEN NoLoad ELSE psLoad[l]]
      OBVIOUS
    <3> QED BY ONLY <3>1, <3>2, <3>3
  <2> QED BY <2>1 DEF LoadType
<1>2. WholeInv(p)'
  BY DEF WholeInv
<1>3. psCrossed' \/ KeptInv(p)'
  <2> SUFFICES ASSUME ~psCrossed' PROVE KeptInv(p)'
    OBVIOUS
  <2>0. KeptInv(p)
    OBVIOUS
  <2>5. ~Sweeping(p)'
    BY <1>0 DEF Sweeping
  <2>6. psMishaps' = 1
    OBVIOUS
  <2>1. ~Sweeping(p)' /\ psMishaps' = 1
    BY <2>5, <2>6
  <2>2. SaveInv(p)'
    BY <2>0, <2>1 DEF KeptInv, SaveInv
  <2>3. FileInv(p)'
    BY <2>0, <2>1 DEF KeptInv, SaveInv, FileInv
  <2>4. \A r \in Readers : ReaderInv(p, r)'
    BY <1>0, <2>1 DEF ReaderInv
  <2> QED BY <2>2, <2>3, <2>4 DEF KeptInv
<1> QED BY ONLY Processes = {p}, <1>1, <1>2, <1>3 DEF StoreInv

LEMMA StoreInitSafe ==
    ASSUME NEW p, Processes = {p} PROVE StoreInit => StoreInv
<1> USE StoreAssumption DEF StoreInv, StoreInit, StoreTypeOK, Saves, NoProfile, Torn
<1> SUFFICES ASSUME StoreInit PROVE StoreInv
  OBVIOUS
<1>1. NoSave \in SaveType /\ NoLoad \in LoadType
  BY DEF NoSave, NoLoad, SaveType, LoadType
<1>2. psSave[p] = NoSave /\ \A r \in Readers : psLoad[<<p, r>>] = NoLoad
  OBVIOUS
<1>3. StoreTypeOK
  <2>1. psSave \in [Processes -> SaveType] /\ psLoad \in [Processes \X Readers -> LoadType]
    BY <1>1
  <2>2. psTemp \in [Processes -> {"none", "partial", "full"}]
    OBVIOUS
  <2>3. /\ psFile \in Saves \cup {NoProfile, Torn} /\ psBackups \subseteq Saves
        /\ psOverwrites \in BOOLEAN /\ psRecovered \subseteq Processes /\ psCrossed \in BOOLEAN
    OBVIOUS
  <2>4. /\ psVersions \in 0 .. MaxVersions /\ psAcked \in 0 .. MaxVersions
        /\ psMishaps \in 0 .. MaxStoreMishaps
    OBVIOUS
  <2> QED BY ONLY <2>1, <2>2, <2>3, <2>4 DEF StoreTypeOK, SaveType, LoadType
<1>4. ~Sweeping(p)
  BY <1>2 DEF Sweeping, NoLoad
<1>5. WholeInv(p) /\ KeptInv(p)
  BY <1>2, <1>4 DEF WholeInv, KeptInv, SaveInv, FileInv, ReaderInv, NoSave, NoLoad
<1> QED BY <1>3, <1>5

LEMMA StoreStep ==
    ASSUME NEW p, Processes = {p}, LoadFirst, MaxStoreMishaps <= 1, StoreInv, [StoreNext]_psVars
    PROVE  StoreInv'
<1>1. CASE UNCHANGED psVars
  <2> USE <1>1 DEF psVars
  <2>1. StoreTypeOK' <=> StoreTypeOK
    BY DEF StoreTypeOK
  <2>2. WholeInv(p)' <=> WholeInv(p)
    BY DEF WholeInv
  <2>3. Sweeping(p)' <=> Sweeping(p)
    BY DEF Sweeping
  <2>4. SaveInv(p)' <=> SaveInv(p)
    BY <2>3 DEF SaveInv
  <2>5. FileInv(p)' <=> FileInv(p)
    BY <2>3 DEF FileInv
  <2>6. \A r \in Readers : ReaderInv(p, r)' <=> ReaderInv(p, r)
    BY DEF ReaderInv
  <2> QED BY <2>1, <2>2, <2>4, <2>5, <2>6 DEF StoreInv, KeptInv
<1>2. CASE StoreNext
  BY <1>2, SaveBeginSafe, SaveWriteSafe, SaveRenameSafe, SaveAsideSafe, SaveInstallSafe,
     SaveRestoreSafe, SaveDropSafe, LoadBeginSafe, SweepListSafe, SweepFailsSafe, SweepTempSafe,
     SweepLookSafe, SweepMoveSafe, SweepDoneSafe, LoadReadSafe, ProcessKilledSafe DEF StoreNext
<1> QED BY <1>1, <1>2

(* What a restart would find, told from the invariant.                       *)
LEMMA KeptIs ==
    ASSUME NEW p, Processes = {p}, StoreInv
    PROVE  /\ psFile # NoProfile => Kept = psFile
           /\ psFile = NoProfile /\ psBackups = {} => Kept = NoProfile
           /\ \A v \in psBackups : psFile = NoProfile /\ (\A u \in psBackups : u <= v) => Kept = v
<1>1. psBackups \in SUBSET Nat
  BY StoreAssumption DEF StoreInv, StoreTypeOK, Saves
<1>2. Newest({}) = NoProfile
  BY DEF Newest
<1> QED BY <1>1, <1>2, NewestIs DEF Kept

LEMMA StoreKeeps ==
    ASSUME NEW p, Processes = {p}, StoreInv
    PROVE  AckedIsKept
<1> SUFFICES ASSUME ~psCrossed PROVE Kept >= psAcked
  BY DEF AckedIsKept
<1>0. SaveInv(p) /\ FileInv(p)
  BY DEF StoreInv, KeptInv
<1> USE <1>0, StoreAssumption DEF StoreInv, StoreTypeOK, Saves, NoProfile, Torn
<1>1. CASE psFile # NoProfile
  BY <1>1, KeptIs DEF FileInv
<1>2. CASE psFile = NoProfile /\ psBackups = {}
  <2>1. psAcked = 0 /\ Kept = 0
    BY <1>2, KeptIs DEF FileInv
  <2> QED BY <2>1
<1>3. CASE psFile = NoProfile /\ psBackups # {}
  <2>1. PICK b \in psBackups : psAcked <= b
    BY <1>3 DEF FileInv
  <2>2. CASE psSave[p].pc \in {"install", "restore"}
    <3>1. psSave[p].old \in psBackups /\ \A u \in psBackups : u <= psSave[p].old
      BY <1>3, <2>2 DEF SaveInv, FileInv
    <3>2. Kept = psSave[p].old
      BY <1>3, <3>1, KeptIs
    <3> QED BY <2>1, <3>1, <3>2
  <2>3. CASE psSave[p].pc \notin {"install", "restore"}
    <3>1. \A u \in psBackups : u <= b
      BY <1>3, <2>1, <2>3 DEF FileInv
    <3>2. Kept = b
      BY <1>3, <2>1, <3>1, KeptIs
    <3> QED BY <2>1, <3>2
  <2> QED BY <2>2, <2>3
<1> QED BY <1>1, <1>2, <1>3

(* In no state of a save is the profile it replaces out of reach.            *)
LEMMA StoreReplaces ==
    ASSUME NEW p, Processes = {p}, LoadFirst, MaxStoreMishaps <= 1, StoreInv, StoreInv',
           [StoreNext]_psVars
    PROVE  Kept' = Kept \/ psCrossed \/ (psSave[p].pc # "idle" /\ Kept' = psSave[p].new)
<1> SUFFICES ASSUME ~psCrossed
             PROVE  Kept' = Kept \/ (psSave[p].pc # "idle" /\ Kept' = psSave[p].new)
  OBVIOUS
<1>0. SaveInv(p) /\ FileInv(p) /\ \A r \in Readers : ReaderInv(p, r)
  BY DEF StoreInv, KeptInv
<1> USE <1>0, StoreAssumption DEF StoreInv, StoreTypeOK, Saves, NoProfile, Torn, Fault, NoFault
<1>1. psBackups \in SUBSET Nat /\ psBackups' \in SUBSET Nat
  OBVIOUS
<1>2. psFile # NoProfile => Kept = psFile
  BY DEF Kept
<1>3. psFile' # NoProfile => Kept' = psFile'
  BY DEF Kept
<1>4. UNCHANGED <<psFile, psBackups>> => Kept' = Kept
  BY DEF Kept
<1>5. \A v \in psBackups : psFile = NoProfile /\ (\A u \in psBackups : u <= v) => Kept = v
  BY <1>1, NewestIs DEF Kept
<1>6. \A v \in psBackups' : psFile' = NoProfile /\ (\A u \in psBackups' : u <= v) => Kept' = v
  BY <1>1, NewestIs DEF Kept
<1>7. CASE SaveBegin(p) \/ SaveWrite(p) \/ ProcessKilled(p) \/ UNCHANGED psVars
  BY <1>7, <1>4 DEF SaveBegin, SaveWrite, ProcessKilled, psVars
<1>14. ASSUME NEW r \in Readers,
             LoadBegin(p, r) \/ SweepList(p, r) \/ SweepFails(p, r) \/ SweepTemp(p, r)
             \/ SweepLook(p, r) \/ SweepDone(p, r) \/ LoadRead(p, r)
       PROVE Kept' = Kept
  BY <1>14, <1>4 DEF LoadBegin, SweepList, SweepFails, SweepTemp, SweepLook, SweepDone, LoadRead
<1>8. CASE SaveRename(p)
  <2>1. CASE psFile' = Placed(p) /\ psTemp[p] # "none"
    BY <1>3, <1>8, <2>1 DEF SaveRename, SaveInv, Placed
  <2> QED BY <1>8, <2>1, <1>4 DEF SaveRename
<1>9. CASE SaveAside(p)
  <2>1. CASE psFile # NoProfile /\ psBackups' = psBackups \cup {psFile} /\ psFile' = NoProfile
    <3>1. psFile \in psBackups' /\ \A u \in psBackups' : u <= psFile
      BY <2>1 DEF FileInv
    <3>2. Kept' = psFile
      BY <1>6, <2>1, <3>1
    <3> QED BY <1>2, <2>1, <3>2
  <2> QED BY <1>9, <2>1, <1>4 DEF SaveAside
<1>10. CASE SaveInstall(p)
  <2>1. CASE psFile' = Placed(p) /\ psTemp[p] # "none"
    BY <1>3, <1>10, <2>1 DEF SaveInstall, SaveInv, Placed
  <2> QED BY <1>10, <2>1, <1>4 DEF SaveInstall
<1>11. CASE SaveRestore(p)
  <2>1. psFile = NoProfile /\ psSave[p].old \in psBackups /\ psSave[p].old # 0
    BY <1>11 DEF SaveRestore, SaveInv
  <2>2. Kept = psSave[p].old
    BY <1>5, <2>1 DEF FileInv
  <2> QED BY <1>3, <1>4, <1>11, <2>1, <2>2 DEF SaveRestore
<1>12. CASE SaveDrop(p)
  <2>1. psFile # NoProfile /\ psFile' = psFile
    BY <1>12 DEF SaveDrop, SaveInv, FileInv
  <2> QED BY <1>2, <1>3, <2>1
<1>13. ASSUME NEW r \in Readers, SweepMove(p, r) PROVE Kept' = Kept
  <2>0. Sweeping(p) /\ psLoad[<<p, r>>].pc = "move"
    BY <1>13 DEF SweepMove, Sweeping
  <2>1. UNCHANGED <<psFile, psBackups>>
        \/ /\ psLoad[<<p, r>>].look \in psBackups
           /\ psFile' = IF psLoad[<<p, r>>].exists THEN psFile ELSE psLoad[<<p, r>>].look
    BY <1>13 DEF SweepMove
  <2>2. CASE UNCHANGED <<psFile, psBackups>>
    BY <1>4, <2>2
  <2>3. CASE /\ psLoad[<<p, r>>].look \in psBackups
             /\ psFile' = IF psLoad[<<p, r>>].exists THEN psFile ELSE psLoad[<<p, r>>].look
    <3>1. CASE psFile # NoProfile
      <4>1. psLoad[<<p, r>>].exists
        BY <2>0, <2>3, <3>1 DEF ReaderInv
      <4> QED BY <1>2, <1>3, <2>3, <3>1, <4>1
    <3>2. CASE psFile = NoProfile
      <4>1. ~psLoad[<<p, r>>].exists
        BY <2>0, <3>2 DEF ReaderInv
      <4>2. \A u \in psBackups : u <= psLoad[<<p, r>>].look
        BY <2>0, <2>3 DEF FileInv
      <4>3. Kept = psLoad[<<p, r>>].look
        BY <1>5, <2>3, <3>2, <4>2
      <4>4. psFile' = psLoad[<<p, r>>].look /\ psFile' # NoProfile
        BY <2>3, <4>1
      <4> QED BY <1>3, <4>3, <4>4
    <3> QED BY <3>1, <3>2
  <2> QED BY <2>1, <2>2, <2>3
<1> QED BY <1>7, <1>8, <1>9, <1>10, <1>11, <1>12, <1>13, <1>14 DEF StoreNext

-----------------------------------------------------------------------------
(* The invariant that carries the rest, for one process that loads before it
   saves, with any number of loads at once, and is interrupted at most once:
   the file is never torn, and as long as no save began beside a sweep that
   had not ended (psCrossed) the newest version is in reach.                *)
THEOREM StoreSafe ==
    ASSUME NEW p, Processes = {p}, LoadFirst, MaxStoreMishaps <= 1
    PROVE  StoreSpec => []StoreInv
<1>1. StoreInit => StoreInv
  BY StoreInitSafe
<1>2. StoreInv /\ [StoreNext]_psVars => StoreInv'
  BY StoreStep
<1> QED BY <1>1, <1>2, PTL DEF StoreSpec

(* The variables of the store keep their types.                             *)
THEOREM StoreTyped ==
    ASSUME NEW p, Processes = {p}, LoadFirst, MaxStoreMishaps <= 1
    PROVE  StoreSpec => []StoreTypeOK
<1>1. StoreInv => StoreTypeOK
  BY DEF StoreInv
<1> QED BY <1>1, StoreSafe, PTL

(* What a save was told Ok for is never lost and never replaced by an older
   version (atomic_write.rs:102, core.rs:185), however many first loads sweep
   at once, unless a save began beside a sweep that had not ended (:276).   *)
THEOREM StoreKeepsAcked ==
    ASSUME NEW p, Processes = {p}, LoadFirst, MaxStoreMishaps <= 1
    PROVE  StoreSpec => []AckedIsKept
<1>1. StoreInv => AckedIsKept
  BY StoreKeeps
<1> QED BY <1>1, StoreSafe, PTL

(* The content a restart would find changes only to the version of a save in
   progress, although a save moves, places and drops files (atomic_write.rs:45),
   with the same exception.                                                 *)
THEOREM StoreIsAtomic ==
    ASSUME NEW k, Processes = {k}, LoadFirst, MaxStoreMishaps <= 1
    PROVE  StoreSpec => FileIsAtomic
<1>1. StoreInv /\ StoreInv' /\ [StoreNext]_psVars
        => [psCrossed \/ \E p \in Processes : psSave[p].pc # "idle" /\ Kept' = psSave[p].new]_Kept
  BY StoreReplaces
<1>2. StoreSpec => []StoreInv
  BY StoreSafe
<1> QED BY <1>1, <1>2, PTL DEF StoreSpec, FileIsAtomic
-----------------------------------------------------------------------------
(* The background start of the server.                                      *)
(* The strengthening: how far a child can be at each step of its parent.  A
   parent that got its token back once listened through its child, and the
   port test of a start is the only one that lets go of it.                 *)
ParentInv(s) ==
    /\ dsParent[s] \in {"start", "testing", "spawning", "refused"} => dsChild[s] = "none"
    /\ dsParent[s] \in {"waiting", "probing"} => dsChild[s] \in {"starting", "serving", "dead"}
    /\ dsParent[s] = "confirming" => dsChild[s] \in {"serving", "dead"}
    /\ dsParent[s] = "ready" => dsChild[s] \in {"serving", "ended"}
    /\ dsParent[s] = "failed" => dsChild[s] = "dead"
    /\ dsParent[s] = "testing" => dsPort = TestOf(s)

DaemonInv == DaemonTypeOK /\ PortHasOneOwner /\ \A s \in Starters : ParentInv(s)

Places == {"start", "testing", "spawning", "refused", "failed", "ready", "gone",
           "waiting", "probing", "confirming"}
ChildStates == {"none", "starting", "serving", "dead", "ended"}

(* Who listens is told apart: a child, a port test, an older server, nobody.  *)
LEMMA Listeners ==
    ASSUME NEW s, NEW r
    PROVE  /\ ChildOf(s) = ChildOf(r) => s = r
           /\ TestOf(s) = TestOf(r) => s = r
           /\ ChildOf(s) # TestOf(r)
           /\ ChildOf(s) \notin {NoListener, Older} /\ TestOf(s) \notin {NoListener, Older}
           /\ NoListener # Older
BY DEF ChildOf, TestOf, NoListener, Older

(* A start begins with nothing of its own.                                  *)
LEMMA DaemonInitSafe == DaemonInit => DaemonInv
<1> SUFFICES ASSUME DaemonInit PROVE DaemonInv
  OBVIOUS
<1>1. DaemonTypeOK
  BY DaemonAssumption DEF DaemonInit, DaemonTypeOK
<1>2. PortHasOneOwner
  BY Listeners DEF DaemonInit, PortHasOneOwner
<1>3. ASSUME NEW s \in Starters PROVE ParentInv(s)
  BY DEF DaemonInit, ParentInv
<1> QED BY <1>1, <1>2, <1>3 DEF DaemonInv

-----------------------------------------------------------------------------
(* A step that leaves the children and the port alone, and takes one parent to
   a place that its child allows.                                            *)
LEMMA ParentMoves ==
    ASSUME DaemonInv, NEW s \in Starters, NEW from, NEW to \in Places, Moves(s, from, to),
           UNCHANGED <<dsChild, dsPort>>,
           dsProbes' \in [Starters -> 0 .. MaxProbes], dsMishaps' \in 0 .. MaxDaemonMishaps,
           ParentInv(s)'
    PROVE  DaemonInv'
<1>1. DaemonTypeOK'
  BY DEF DaemonInv, DaemonTypeOK, Moves, Places, Starting
<1>2. PortHasOneOwner'
  BY DEF DaemonInv, PortHasOneOwner
<1>3. ASSUME NEW r \in Starters PROVE ParentInv(r)'
  BY DEF DaemonInv, DaemonTypeOK, ParentInv, Moves
<1> QED BY <1>1, <1>2, <1>3 DEF DaemonInv

(* The end of a start that failed: its child is gone and so is its listener.  *)
LEMMA StartFails ==
    ASSUME DaemonInv, NEW s \in Starters, NEW from, Moves(s, from, "failed"),
           from \in Starting, KillChild(s), UNCHANGED <<dsProbes, dsMishaps>>
    PROVE  DaemonInv'
<1>1. DaemonTypeOK'
  BY DEF DaemonInv, DaemonTypeOK, Moves, KillChild, Starting
<1>2. PortHasOneOwner'
  BY Listeners DEF DaemonInv, DaemonTypeOK, PortHasOneOwner, KillChild
<1>3. ASSUME NEW r \in Starters PROVE ParentInv(r)'
  BY Listeners DEF DaemonInv, DaemonTypeOK, ParentInv, Moves, KillChild, Starting
<1> QED BY <1>1, <1>2, <1>3 DEF DaemonInv

(* The steps of a parent, one by one.                                       *)
LEMMA TestPortSafe ==
    ASSUME DaemonInv, NEW s \in Starters, TestPort(s) PROVE DaemonInv'
<1>1. CASE dsPort = NoListener
  <2>1. Moves(s, "start", "testing") /\ dsPort' = TestOf(s) /\ UNCHANGED <<dsChild, dsProbes, dsMishaps>>
    BY <1>1 DEF TestPort
  <2>2. DaemonTypeOK'
    BY <2>1 DEF DaemonInv, DaemonTypeOK, Moves
  <2>3. PortHasOneOwner'
    BY <1>1, <2>1, Listeners DEF DaemonInv, PortHasOneOwner
  <2>4. ASSUME NEW r \in Starters PROVE ParentInv(r)'
    BY <1>1, <2>1, Listeners DEF DaemonInv, DaemonTypeOK, ParentInv, Moves
  <2> QED BY <2>2, <2>3, <2>4 DEF DaemonInv
<1>2. CASE dsPort # NoListener
  <2>1. Moves(s, "start", "refused") /\ UNCHANGED <<dsPort, dsChild, dsProbes, dsMishaps>>
    BY <1>2 DEF TestPort
  <2>2. ParentInv(s)'
    BY <2>1 DEF DaemonInv, DaemonTypeOK, ParentInv, Moves
  <2> QED BY <2>1, <2>2, ParentMoves DEF DaemonInv, DaemonTypeOK, Places
<1> QED BY <1>1, <1>2

LEMMA DropTestSafe ==
    ASSUME DaemonInv, NEW s \in Starters, DropTest(s) PROVE DaemonInv'
<1>1. dsPort = TestOf(s)
  BY DEF DaemonInv, ParentInv, DropTest, Moves
<1>2. DaemonTypeOK'
  BY DEF DaemonInv, DaemonTypeOK, DropTest, Moves
<1>3. PortHasOneOwner'
  BY <1>1, Listeners DEF DaemonInv, PortHasOneOwner, DropTest
<1>4. ASSUME NEW r \in Starters PROVE ParentInv(r)'
  BY <1>1, Listeners DEF DaemonInv, DaemonTypeOK, ParentInv, DropTest, Moves
<1> QED BY <1>2, <1>3, <1>4 DEF DaemonInv

LEMMA SpawnChildSafe ==
    ASSUME DaemonInv, NEW s \in Starters, SpawnChild(s) PROVE DaemonInv'
<1>1. DaemonTypeOK'
  BY DEF DaemonInv, DaemonTypeOK, SpawnChild, Moves, Starting
<1>2. PortHasOneOwner'
  BY DEF DaemonInv, DaemonTypeOK, PortHasOneOwner, ParentInv, SpawnChild, Moves
<1>3. ASSUME NEW r \in Starters PROVE ParentInv(r)'
  BY DEF DaemonInv, DaemonTypeOK, ParentInv, SpawnChild, Moves
<1> QED BY <1>1, <1>2, <1>3 DEF DaemonInv

LEMMA SpawnFailsSafe ==
    ASSUME DaemonInv, NEW s \in Starters, SpawnFails(s) PROVE DaemonInv'
<1>1. ParentInv(s)'
  BY DEF DaemonInv, DaemonTypeOK, ParentInv, SpawnFails, Moves
<1>2. dsMishaps' \in 0 .. MaxDaemonMishaps
  BY DaemonAssumption DEF DaemonInv, DaemonTypeOK, SpawnFails, DaemonMishap
<1> QED BY <1>1, <1>2, ParentMoves DEF DaemonInv, DaemonTypeOK, SpawnFails, Places

LEMMA WaitSafe ==
    ASSUME DaemonInv, NEW s \in Starters,
           \/ ChildSeenDead(s) \/ DeadlinePasses(s) \/ ConnectProbe(s) \/ ProbeMissed(s)
    PROVE  DaemonInv'
<1>1. CASE ChildSeenDead(s) \/ DeadlinePasses(s)
  BY <1>1, StartFails DEF ChildSeenDead, DeadlinePasses, Starting
<1>2. CASE ConnectProbe(s)
  <2>1. ParentInv(s)'
    BY <1>2 DEF DaemonInv, DaemonTypeOK, ParentInv, ConnectProbe, Moves
  <2>2. dsProbes' \in [Starters -> 0 .. MaxProbes]
    BY <1>2, DaemonAssumption DEF DaemonInv, DaemonTypeOK, ConnectProbe
  <2> QED BY <1>2, <2>1, <2>2, ParentMoves DEF DaemonInv, DaemonTypeOK, ConnectProbe, Places
<1>3. CASE ProbeMissed(s)
  <2>1. ParentInv(s)'
    BY <1>3 DEF DaemonInv, DaemonTypeOK, ParentInv, ProbeMissed, Moves
  <2> QED BY <1>3, <2>1, ParentMoves DEF DaemonInv, DaemonTypeOK, ProbeMissed, Places
<1> QED BY <1>1, <1>2, <1>3

(* The token came back through the child of this start, which listened.       *)
LEMMA ConfirmSafe ==
    ASSUME DaemonInv, NEW s \in Starters,
           ProbeAnswered(s) \/ ConfirmAlive(s) \/ ConfirmDead(s)
    PROVE  DaemonInv'
<1>1. CASE ProbeAnswered(s)
  <2>1. dsChild[s] = "serving"
    BY <1>1 DEF DaemonInv, PortHasOneOwner, ProbeAnswered, TokenAnswers
  <2>2. ParentInv(s)'
    BY <1>1, <2>1 DEF DaemonInv, DaemonTypeOK, ParentInv, ProbeAnswered, Moves
  <2> QED BY <1>1, <2>2, ParentMoves DEF DaemonInv, DaemonTypeOK, ProbeAnswered, Places
<1>2. CASE ConfirmAlive(s)
  <2>1. ParentInv(s)'
    BY <1>2 DEF DaemonInv, DaemonTypeOK, ParentInv, ConfirmAlive, Moves, Alive
  <2> QED BY <1>2, <2>1, ParentMoves DEF DaemonInv, DaemonTypeOK, ConfirmAlive, Places
<1>3. CASE ConfirmDead(s)
  BY <1>3, StartFails DEF ConfirmDead, Starting
<1> QED BY <1>1, <1>2, <1>3

-----------------------------------------------------------------------------
(* What happens to a start from outside.                                    *)
LEMMA ParentKilledSafe ==
    ASSUME DaemonInv, NEW s \in Starters, ParentKilled(s) PROVE DaemonInv'
<1>1. DaemonTypeOK'
  BY DaemonAssumption DEF DaemonInv, DaemonTypeOK, ParentKilled, DaemonMishap, LeaveChild
<1>2. PortHasOneOwner'
  BY DEF DaemonInv, PortHasOneOwner, ParentKilled, LeaveChild
<1>3. ASSUME NEW r \in Starters PROVE ParentInv(r)'
  BY DEF DaemonInv, DaemonTypeOK, ParentInv, ParentKilled, LeaveChild
<1> QED BY <1>1, <1>2, <1>3 DEF DaemonInv

LEMMA ChildBindsSafe ==
    ASSUME DaemonInv, NEW s \in Starters, ChildBinds(s) PROVE DaemonInv'
<1>1. CASE dsPort = NoListener
  <2>1. DaemonTypeOK'
    BY <1>1 DEF DaemonInv, DaemonTypeOK, ChildBinds
  <2>2. PortHasOneOwner'
    BY <1>1, Listeners DEF DaemonInv, DaemonTypeOK, PortHasOneOwner, ChildBinds
  <2>3. ASSUME NEW r \in Starters PROVE ParentInv(r)'
    BY <1>1, Listeners DEF DaemonInv, DaemonTypeOK, ParentInv, ChildBinds
  <2> QED BY <2>1, <2>2, <2>3 DEF DaemonInv
<1>2. CASE dsPort # NoListener
  <2>1. DaemonTypeOK'
    BY <1>2 DEF DaemonInv, DaemonTypeOK, ChildBinds
  <2>2. PortHasOneOwner'
    BY <1>2 DEF DaemonInv, DaemonTypeOK, PortHasOneOwner, ChildBinds
  <2>3. ASSUME NEW r \in Starters PROVE ParentInv(r)'
    BY <1>2 DEF DaemonInv, DaemonTypeOK, ParentInv, ChildBinds
  <2> QED BY <2>1, <2>2, <2>3 DEF DaemonInv
<1> QED BY <1>1, <1>2

LEMMA ChildEndsSafe ==
    ASSUME DaemonInv, NEW s \in Starters, ChildEnds(s) PROVE DaemonInv'
<1>1. DaemonTypeOK'
  BY DaemonAssumption DEF DaemonInv, DaemonTypeOK, ChildEnds, DaemonMishap
<1>2. PortHasOneOwner'
  BY Listeners DEF DaemonInv, DaemonTypeOK, PortHasOneOwner, ChildEnds
<1>3. ASSUME NEW r \in Starters PROVE ParentInv(r)'
  BY Listeners DEF DaemonInv, DaemonTypeOK, ParentInv, ChildEnds, Alive
<1> QED BY <1>1, <1>2, <1>3 DEF DaemonInv

LEMMA OlderEndsSafe == ASSUME DaemonInv, OlderEnds PROVE DaemonInv'
<1>1. DaemonTypeOK'
  BY DEF DaemonInv, DaemonTypeOK, OlderEnds
<1>2. PortHasOneOwner'
  BY Listeners DEF DaemonInv, PortHasOneOwner, OlderEnds
<1>3. ASSUME NEW r \in Starters PROVE ParentInv(r)'
  BY Listeners DEF DaemonInv, ParentInv, OlderEnds
<1> QED BY <1>1, <1>2, <1>3 DEF DaemonInv

-----------------------------------------------------------------------------
(* The invariant that carries the rest, for any starts on one address.       *)
THEOREM DaemonSafe == DaemonSpec => []DaemonInv
<1>1. DaemonInit => DaemonInv
  BY DaemonInitSafe
<1>2. DaemonInv /\ [DaemonNext]_dsVars => DaemonInv'
  <2> SUFFICES ASSUME DaemonInv, [DaemonNext]_dsVars PROVE DaemonInv'
    OBVIOUS
  <2>1. ASSUME NEW s \in Starters, ParentStep(s) PROVE DaemonInv'
    BY <2>1, TestPortSafe, DropTestSafe, SpawnChildSafe, WaitSafe, ConfirmSafe DEF ParentStep
  <2>2. ASSUME NEW s \in Starters, SpawnFails(s) PROVE DaemonInv'
    BY <2>2, SpawnFailsSafe
  <2>3. ASSUME NEW s \in Starters, ParentKilled(s) PROVE DaemonInv'
    BY <2>3, ParentKilledSafe
  <2>4. ASSUME NEW s \in Starters, ChildBinds(s) PROVE DaemonInv'
    BY <2>4, ChildBindsSafe
  <2>5. ASSUME NEW s \in Starters, ChildEnds(s) PROVE DaemonInv'
    BY <2>5, ChildEndsSafe
  <2>6. CASE UNCHANGED dsVars
    BY <2>6 DEF dsVars, DaemonInv, DaemonTypeOK, PortHasOneOwner, ParentInv
  <2> QED BY <2>1, <2>2, <2>3, <2>4, <2>5, <2>6, OlderEndsSafe DEF DaemonNext
<1> QED BY <1>1, <1>2, PTL DEF DaemonSpec

(* The state of the starts keeps its type.                                  *)
THEOREM DaemonTyped == DaemonSpec => []DaemonTypeOK
<1>1. DaemonInv => DaemonTypeOK
  BY DEF DaemonInv
<1> QED BY <1>1, DaemonSafe, PTL

(* An address has one server, however many starts meet on it (cli.rs:215).   *)
THEOREM DaemonPortIsOwned == DaemonSpec => []PortHasOneOwner
<1>1. DaemonInv => PortHasOneOwner
  BY DEF DaemonInv
<1> QED BY <1>1, DaemonSafe, PTL

(* A start that reports success had a server of its own, one that reports a
   failure left none behind (cli.rs:213, README.md:109).                    *)
THEOREM DaemonTellsTheTruth == DaemonSpec => []DaemonStartIsTruthful
<1>1. DaemonInv => DaemonStartIsTruthful
  BY DEF DaemonInv, ParentInv, DaemonStartIsTruthful, Alive
<1> QED BY <1>1, DaemonSafe, PTL
-----------------------------------------------------------------------------
(* Each part of the host runs by its own specification: a step of another
   part leaves it alone, so what is proved of the part holds of the host.   *)
LEMMA HostRunsEngine == HostSpec => EngineSpec
<1>1. HostInit => EngineInit
  BY DEF HostInit
<1>2. [HostNext]_hostVars => [EngineNext]_engineVars
  BY DEF HostNext, hostVars, rsVars
<1> QED BY <1>1, <1>2, PTL DEF HostSpec, EngineSpec

LEMMA HostRunsHelper == HostSpec => HelperSpec
<1>1. HostInit => HelperInit
  BY DEF HostInit
<1>2. [HostNext]_hostVars => [HelperNext]_dhVars
  BY DEF HostNext, hostVars, rsVars
<1> QED BY <1>1, <1>2, PTL DEF HostSpec, HelperSpec

LEMMA HostRunsMacHelper == HostSpec => MacSpec
<1>1. HostInit => MacInit
  BY DEF HostInit
<1>2. [HostNext]_hostVars => [MacNext]_mhVars
  BY DEF HostNext, hostVars, rsVars
<1> QED BY <1>1, <1>2, PTL DEF HostSpec, MacSpec

LEMMA HostRunsStore == HostSpec => StoreSpec
<1>1. HostInit => StoreInit
  BY DEF HostInit
<1>2. [HostNext]_hostVars => [StoreNext]_psVars
  BY DEF HostNext, hostVars, rsVars
<1> QED BY <1>1, <1>2, PTL DEF HostSpec, StoreSpec

LEMMA HostRunsRuleSet == HostSpec => Spec
<1>1. HostInit => Init
  BY DEF HostInit
<1>2. [HostNext]_hostVars => [Next]_vars
  BY DEF HostNext, hostVars, rsVars
<1> QED BY <1>1, <1>2, PTL DEF HostSpec, Spec

LEMMA HostRunsDaemon == HostSpec => DaemonSpec
<1>1. HostInit => DaemonInit
  BY DEF HostInit
<1>2. [HostNext]_hostVars => [DaemonNext]_dsVars
  BY DEF HostNext, hostVars, rsVars
<1> QED BY <1>1, <1>2, PTL DEF HostSpec, DaemonSpec

(* What the last answer of either helper says of the core it holds still holds.
   Of a core whose stop failed neither helper has a handle, and none of its
   answers speaks (lib.rs:153; desktop_helper.rs, macos.rs:
   dispatch_helper_action and the serve loops).                              *)
THEOREM HostAnswersAreCurrent == HostSpec => []AnswersAreCurrent
<1> QED BY HostRunsHelper, HostRunsMacHelper, HelperAnswerIsCurrent, MacAnswersAreCurrent, PTL
        DEF AnswersAreCurrent

(* The state a crash leaves in the rule directory is one the next recovery can
   finish (rule_set_cache.rs:512, :521).                                    *)
THEOREM HostRecoveryIsSafe ==
    ASSUME NEW k, Clients = {k}
    PROVE  HostSpec => []RecoveryIsSafe
<1>1. Spec => []CommitMeansComplete
  BY RuleSetCommitted
<1>2. Spec => []HalfWrittenIsHarmless
  BY RuleSetHalfWritten
<1> QED BY <1>1, <1>2, HostRunsRuleSet, PTL DEF RecoveryIsSafe

(* Every variable of the six parts keeps its type, and an address one server. *)
THEOREM HostTyped ==
    ASSUME NEW k, Clients = {k},
           NEW p, Processes = {p}, LoadFirst, MaxStoreMishaps <= 1
    PROVE  HostSpec => []HostTypeOK
<1>1. Spec => []RuleSetTypeOK
  BY RuleSetTyped
<1>2. StoreSpec => []StoreTypeOK
  BY StoreTyped
<1> QED BY <1>1, <1>2, HostRunsEngine, HostRunsHelper, HostRunsMacHelper, HostRunsStore,
           HostRunsRuleSet, HostRunsDaemon, EngineTypeOK, HelperTyped, MacHelperTyped,
           DaemonTyped, DaemonPortIsOwned, PTL
        DEF HostTypeOK
=============================================================================
