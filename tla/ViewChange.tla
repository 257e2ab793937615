------------------------------ MODULE ViewChange ------------------------------
(***************************************************************************)
(* The ViewChangeManager of src/src/consensus/view_change.rs on every      *)
(* validator, driven by the ConsensusEngine of src/src/consensus/mod.rs.   *)
(*                                                                         *)
(* The manager's current_view, state and view_change_messages are          *)
(* variables per validator; a stored ViewChange message is identified by  *)
(* its (new_view, validator_id), so view_change_messages[v] is the set of *)
(* validators whose ViewChange for v is stored.  new_view_messages is     *)
(* written and never read, and view_start_time / timeout_duration only    *)
(* decide when is_timeout fires, which is a nondeterministic choice here. *)
(* The engine's own current_view and state (ViewChanging or not) are the  *)
(* variables oView and oState.                                            *)
(*                                                                         *)
(* The manager's broadcast_message is a no-op until set_message_sender is *)
(* called, which no code does; this module composes the managers as spec  *)
(* 4.3 does, with the sender wired to the network.  msgs is every message *)
(* ever broadcast; delivered[n] the ones n has handled.  A message may be *)
(* delivered to each other validator once, late, or never (gossipsub's    *)
(* seen-cache drops duplicates).  Faulty validators have crashed before   *)
(* the first step and do nothing.                                          *)
(*                                                                         *)
(* The engine's timer: spec 4.5 triggers a view change when the manager   *)
(* reports is_timeout (state Normal, time elapsed).  It fires here only   *)
(* while the primary of the view has crashed: a live primary's progress   *)
(* keeps it from expiring.                                                 *)
(***************************************************************************)
EXTENDS Integers, Sequences, FiniteSets

CONSTANTS
    ValidatorOrder,   \* config.validator_set, in order
    Faulty,           \* validators that have crashed
    MaxView           \* bound on the views triggered

Nodes == {ValidatorOrder[i] : i \in 1..Len(ValidatorOrder)}
N == Len(ValidatorOrder)
Correct == Nodes \ Faulty
Views == 0..MaxView

ASSUME N >= 1 /\ Faulty \subseteq Nodes /\ MaxView \in Nat

States == {"Normal", "ViewChanging", "NewViewReceived"}

\* Faulty variant of byzantine_threshold: the + 1 dropped.
ThresholdNoPlusOne == (N * 2) \div 3

\* byzantine_threshold: (validator_set.len() * 2 / 3) + 1
Threshold == (N * 2) \div 3 + 1

\* The validator is_new_primary(view) names: validator_set[view % len].
Primary(v) == ValidatorOrder[(v % N) + 1]

VCMsg(v, q) == [type |-> "ViewChange", view |-> v, from |-> q]
NVMsg(v, q, S) == [type |-> "NewView", view |-> v, from |-> q, vcs |-> S]

Messages == {VCMsg(v, q) : v \in Views, q \in Nodes}
            \cup {NVMsg(v, q, S) : v \in Views, q \in Nodes, S \in SUBSET Nodes}

VARIABLES
    vcView,      \* manager's current_view, per validator
    vcState,     \* manager's state, per validator
    vcMsgs,      \* view_change_messages: view -> validators, per validator
    oView,       \* the engine's current_view, per validator
    oState,      \* the engine's state: "ViewChanging" or "Other"
    msgs,        \* every message broadcast so far
    delivered    \* messages each validator has handled

vars == <<vcView, vcState, vcMsgs, oView, oState, msgs, delivered>>

Init ==
    /\ vcView = [n \in Nodes |-> 0]
    /\ vcState = [n \in Nodes |-> "Normal"]
    /\ vcMsgs = [n \in Nodes |-> [v \in Views |-> {}]]
    /\ oView = [n \in Nodes |-> 0]
    /\ oState = [n \in Nodes |-> "Other"]
    /\ msgs = {}
    /\ delivered = [n \in Nodes |-> {}]

\* start_view(v): current_view = v and state Normal (the start time and
\* the timeout reset only matter to is_timeout).
StartView(n, v) ==
    /\ vcView' = [vcView EXCEPT ![n] = v]
    /\ vcState' = [vcState EXCEPT ![n] = "Normal"]

\* broadcast_message with the sender wired: the message reaches the network.
BroadcastMessage(m) == msgs' = msgs \cup {m}

\* The manager's trigger_view_change(v) when v exceeds its current_view:
\* state ViewChanging, broadcast ViewChange{v}, store its own message.
TriggerViewChange(n, v) ==
    /\ v > vcView[n]
    /\ vcState' = [vcState EXCEPT ![n] = "ViewChanging"]
    /\ BroadcastMessage(VCMsg(v, n))
    /\ vcMsgs' = [vcMsgs EXCEPT ![n][v] = @ \cup {n}]

\* Faulty variant of SendNewView: broadcast_message with no sender set, as
\* the manager is built (set_message_sender is never called).
SendNewViewUnwired(n, v, S) ==
    /\ UNCHANGED msgs
    /\ StartView(n, v)

\* send_new_view(v) once the tally S reached the threshold: broadcast
\* NewView{v, S} and start_view(v).
SendNewView(n, v, S) ==
    /\ BroadcastMessage(NVMsg(v, n, S))
    /\ StartView(n, v)

\* wait_for_new_view: state NewViewReceived, and no timer is set.
WaitForNewView(n) ==
    /\ vcState' = [vcState EXCEPT ![n] = "NewViewReceived"]
    /\ UNCHANGED <<vcView, msgs>>

\* is_timeout: state Normal and the view's time elapsed, which happens
\* exactly when the view's primary has crashed.
IsTimeout(n) ==
    /\ vcState[n] = "Normal"
    /\ Primary(vcView[n]) \in Faulty

-----------------------------------------------------------------------------
(* The engine's view-change driver, when the manager reports is_timeout:  *)
(* ConsensusEngine::trigger_view_change computes new_view from the        *)
(* engine's own current_view and calls the manager's trigger_view_change, *)
(* which returns an error, changing nothing, unless new_view exceeds the  *)
(* manager's current_view; otherwise the manager sets ViewChanging,       *)
(* broadcasts ViewChange{new_view} and stores its own, and the engine    *)
(* sets current_view = new_view and state = ViewChanging.                 *)
Timeout(n) ==
    LET v == oView[n] + 1
    IN /\ n \in Correct
       /\ IsTimeout(n)
       /\ v <= MaxView
       /\ TriggerViewChange(n, v)
       /\ oView' = [oView EXCEPT ![n] = v]
       /\ oState' = [oState EXCEPT ![n] = "ViewChanging"]
       /\ UNCHANGED <<vcView, delivered>>

(* handle_view_change (via handle_view_change_message): a ViewChange for  *)
(* a view not above current_view is dropped; otherwise it is stored and,  *)
(* once threshold validators are stored for the view, the new primary     *)
(* runs send_new_view (broadcast NewView with the stored messages, then   *)
(* start_view) and every other validator wait_for_new_view (state         *)
(* NewViewReceived, with no timeout).                                      *)
HandleViewChange(n, m) ==
    LET v == m.view
        S == vcMsgs[n][v] \cup {m.from}
    IN /\ m.type = "ViewChange"
       /\ \/ /\ v <= vcView[n]
             /\ UNCHANGED <<vcView, vcState, vcMsgs, msgs>>
          \/ /\ v > vcView[n]
             /\ vcMsgs' = [vcMsgs EXCEPT ![n][v] = S]
             /\ \/ /\ Cardinality(S) < Threshold
                   /\ UNCHANGED <<vcView, vcState, msgs>>
                \/ /\ Cardinality(S) >= Threshold
                   /\ Primary(v) = n
                   /\ SendNewView(n, v, S)
                \/ /\ Cardinality(S) >= Threshold
                   /\ Primary(v) /= n
                   /\ WaitForNewView(n)

(* handle_new_view (via handle_new_view_message): a NewView for a view   *)
(* not above current_view is dropped, one carrying fewer than threshold  *)
(* ViewChange messages is an error; otherwise start_view.  The embedded  *)
(* messages always name the view and validators of the set, since the    *)
(* primaries here are honest.  The engine is not told.                    *)
HandleNewView(n, m) ==
    /\ m.type = "NewView"
    /\ \/ /\ m.view <= vcView[n] \/ Cardinality(m.vcs) < Threshold
          /\ UNCHANGED <<vcView, vcState>>
       \/ /\ m.view > vcView[n] /\ Cardinality(m.vcs) >= Threshold
          /\ StartView(n, m.view)
    /\ UNCHANGED <<vcMsgs, msgs>>

\* The message task of correct validator n takes a message it has not yet
\* handled from another validator.
Deliver(n, m) ==
    /\ n \in Correct
    /\ m \in msgs \ delivered[n]
    /\ m.from /= n
    /\ delivered' = [delivered EXCEPT ![n] = @ \cup {m}]
    /\ HandleViewChange(n, m) \/ HandleNewView(n, m)
    /\ UNCHANGED <<oView, oState>>

Next ==
    \/ \E n \in Nodes : Timeout(n)
    \/ \E n \in Nodes, m \in msgs : Deliver(n, m)

\* The message task keeps taking messages, and the timer of a validator
\* whose primary has crashed keeps running until it fires.
Fairness ==
    \A n \in Correct :
        /\ WF_vars(\E m \in msgs : Deliver(n, m))
        /\ WF_vars(Timeout(n))

Spec == Init /\ [][Next]_vars /\ Fairness

-----------------------------------------------------------------------------
(***************************************************************************)
(* Properties                                                              *)
(***************************************************************************)

TypeOK ==
    /\ vcView \in [Nodes -> Views]
    /\ vcState \in [Nodes -> States]
    /\ vcMsgs \in [Nodes -> [Views -> SUBSET Nodes]]
    /\ oView \in [Nodes -> Views]
    /\ oState \in [Nodes -> {"ViewChanging", "Other"}]
    /\ msgs \subseteq Messages
    /\ delivered \in [Nodes -> SUBSET Messages]

\* A correct validator is only ever in a view v > 0 that more than two
\* thirds of the validators asked for (spec 4.3): either its own tally of
\* ViewChange messages reached the threshold, or it accepted a NewView
\* whose embedded messages did.  The count is stated without
\* byzantine_threshold, so that it is the threshold that is checked.
ViewEnteredWithQuorum ==
    \A n \in Correct :
        vcView[n] > 0 =>
            3 * Cardinality({q \in Nodes : VCMsg(vcView[n], q) \in msgs}) > 2 * N

\* A view that one correct validator has installed is eventually installed
\* (or passed) by every correct validator (spec 4.3: the new primary's
\* NewView moves the others into the view).  A validator enters a view
\* above 0 either as its primary, by its own tally in handle_view_change,
\* which then broadcasts NewView, or by accepting that NewView; the others
\* may still be in ViewChanging or already in NewViewReceived when it
\* reaches them, and handle_new_view accepts it in either state.
NewViewAdopted ==
    \A v \in 1..MaxView :
        (\E n \in Correct : vcView[n] = v) ~> (\A n \in Correct : vcView[n] >= v)

\* A view whose primary has crashed is eventually left for good (spec 4.3,
\* "recover liveness when the primary is unresponsive"): from some point
\* on, every correct validator is in Normal in a view with a live primary.
\* Only handle_view_change compares the tally with the threshold, not
\* trigger_view_change after storing the validator's own message, and
\* neither ViewChanging nor NewViewReceived has a timeout.
StalledViewLeft ==
    <>[](\A n \in Correct : vcState[n] = "Normal" /\ Primary(vcView[n]) \notin Faulty)

====
