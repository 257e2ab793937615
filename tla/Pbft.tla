-------------------------------- MODULE Pbft --------------------------------
(***************************************************************************)
(* The PbftEngine of src/src/consensus/pbft.rs, run by every validator.    *)
(*                                                                         *)
(* Each honest validator r owns one engine: its current_view and           *)
(* current_sequence, the message_log keyed by (view, sequence), the        *)
(* prepared and committed certificate sets and the view_change_votes map.  *)
(* process_message is pure with respect to I/O: it returns the messages    *)
(* to broadcast.  The network is the set msgs of every message ever        *)
(* broadcast; a replica may handle any of them at any time, any number of  *)
(* times, or never, which models loss, duplication and reordering.         *)
(* Byzantine validators keep no modelled state and may broadcast any       *)
(* message that carries their own identity (signatures are assumed to      *)
(* authenticate the sender, as the specification's channel does).  Since  *)
(* a replica may leave any message unhandled for as long as it likes,      *)
(* every such message is in the network from the start: that covers every *)
(* time at which a Byzantine validator could have sent it.                 *)
(***************************************************************************)
EXTENDS Integers, FiniteSets, Sequences

CONSTANTS
    \* validator_set, in the order that defines round-robin primaries
    ValidatorOrder,
    \* the validators that may behave arbitrarily
    Byzantine,
    \* block hashes a primary may propose (model values)
    Blocks,
    \* the message types a Byzantine validator sends
    ByzantineTypes,
    \* bounds on the view and sequence numbers that are explored; with
    \* MaxSeq = -1 no block is proposed and only view changes happen
    MaxView,
    MaxSeq

Validators == {ValidatorOrder[i] : i \in 1..Len(ValidatorOrder)}
N == Len(ValidatorOrder)
Honest == Validators \ Byzantine
Views == 0..MaxView
Seqs == 0..MaxSeq

ASSUME /\ N >= 1
       /\ Byzantine \subseteq Validators
       /\ ByzantineTypes \subseteq {"Propose", "Prepare", "Commit", "ViewChange", "NewView"}
       /\ MaxView \in Nat /\ MaxSeq \in Int /\ MaxSeq >= -1

\* Faulty variant of Quorum: the threshold without the + 1, i.e. 2f.
QuorumNoPlusOne == (N * 2) \div 3

\* byzantine_threshold(): (validator_set.len() * 2 / 3) + 1
Quorum == (N * 2) \div 3 + 1

\* is_primary(node_id, view): validator_set[view % len] == node_id
IsPrimary(id, v) == ValidatorOrder[(v % N) + 1] = id

NoHash == "NoHash"
\* the kind of message a log entry holds for a validator (absent: "None")
Kinds == {"None", "Propose", "Prepare", "Commit"}

\* One record shape for every ConsensusMessage variant; fields a variant
\* does not have hold 0 or NoHash.
Msg(t, v, s, h, from) == [type |-> t, view |-> v, seq |-> s, hash |-> h, from |-> from]

Messages ==
    [type : {"Propose", "Prepare", "Commit"}, view : Views, seq : Seqs,
     hash : Blocks, from : Validators]
    \cup [type : {"ViewChange", "NewView"}, view : Views, seq : {0},
          hash : {NoHash}, from : Validators]

\* A PbftLogEntry: the pinned block hash and the message each validator
\* contributed.  The entry's phase field is written by the handlers but
\* never read by the engine, so it is left out.
LogEntry == [hash : Blocks \cup {NoHash}, votes : [Validators -> Kinds]]

\* A (view, sequence) without a log entry.
NoEntry == [hash |-> NoHash, votes |-> [q \in Validators |-> "None"]]

\* The entry at k exists and is pinned to hash h.
PinnedTo(log, k, h) == log[k].hash = h

VARIABLES
    view,        \* current_view, per replica
    sequence,    \* current_sequence, per replica
    mlog,        \* message_log: (view, sequence) -> PbftLogEntry
    prepared,    \* prepared_certificates: set of <<view, sequence, hash>>
    committed,   \* committed_certificates: set of <<view, sequence, hash>>
    vcVotes,     \* view_change_votes: new_view -> set of validator ids
    msgs         \* every message broadcast so far

vars == <<view, sequence, mlog, prepared, committed, vcVotes, msgs>>

Keys == Views \X Seqs

\* Everything a Byzantine validator may send under its own identity.
ByzantineMessages ==
    {m \in Messages : m.from \in Byzantine /\ m.type \in ByzantineTypes}

TypeOK ==
    /\ view \in [Honest -> Views]
    /\ sequence \in [Honest -> 0..(MaxSeq + 1)]
    /\ mlog \in [Honest -> [Keys -> LogEntry]]
    /\ prepared \in [Honest -> SUBSET (Views \X Seqs \X Blocks)]
    /\ committed \in [Honest -> SUBSET (Views \X Seqs \X Blocks)]
    /\ vcVotes \in [Honest -> [Views -> SUBSET Validators]]
    /\ msgs \subseteq Messages

Init ==
    /\ view = [r \in Honest |-> 0]
    /\ sequence = [r \in Honest |-> 0]
    /\ mlog = [r \in Honest |-> [k \in Keys |-> NoEntry]]
    /\ prepared = [r \in Honest |-> {}]
    /\ committed = [r \in Honest |-> {}]
    /\ vcVotes = [r \in Honest |-> [v \in Views |-> {}]]
    /\ msgs = ByzantineMessages

\* Faulty variant of CountVotes: every message in the entry counts, whatever
\* its kind (entry.messages.len()).
CountAnyVote(log, k, h, kind) ==
    IF PinnedTo(log, k, h)
    THEN Cardinality({q \in Validators : log[k].votes[q] /= "None"})
    ELSE 0

\* count_prepare_messages / count_commit_messages: the votes of one kind in
\* the entry at k, provided the entry is pinned to hash h.
CountVotes(log, k, h, kind) ==
    IF PinnedTo(log, k, h)
    THEN Cardinality({q \in Validators : log[k].votes[q] = kind})
    ELSE 0

\* The entry a vote for hash h at k is stored into: only an existing entry
\* pinned to the same hash takes it.
StoreVote(log, k, h, q, kind) ==
    IF PinnedTo(log, k, h)
    THEN [log EXCEPT ![k].votes[q] = kind]
    ELSE log

-----------------------------------------------------------------------------
(* Proposal by an honest primary: the orchestrator's propose_block, which  *)
(* broadcasts Propose{block, round, view} for its current view and round   *)
(* (here the engine's current_sequence), once per (view, round).           *)
Propose(p) ==
    /\ IsPrimary(p, view[p])
    /\ sequence[p] \in Seqs
    /\ ~\E m \in msgs : m.type = "Propose" /\ m.from = p
                        /\ m.view = view[p] /\ m.seq = sequence[p]
    /\ \E b \in Blocks :
         msgs' = msgs \cup {Msg("Propose", view[p], sequence[p], b, p)}
    /\ UNCHANGED <<view, sequence, mlog, prepared, committed, vcVotes>>

(* handle_pre_prepare: a proposal for the current view from that view's   *)
(* primary creates the log entry if there is none (an existing entry keeps *)
(* its hash), stores the Propose under the proposer's id, and a validator *)
(* other than the proposer answers with a Prepare for the proposed block. *)
HandlePrePrepare(r, m) ==
    /\ m.type = "Propose"
    /\ m.view = view[r]
    /\ IsPrimary(m.from, m.view)
    /\ LET k == <<m.view, m.seq>>
           e == IF mlog[r][k] = NoEntry
                THEN [hash |-> m.hash, votes |-> [q \in Validators |-> "None"]]
                ELSE mlog[r][k]
       IN mlog' = [mlog EXCEPT ![r][k] = [e EXCEPT !.votes[m.from] = "Propose"]]
    /\ msgs' = IF r /= m.from
               THEN msgs \cup {Msg("Prepare", m.view, m.seq, m.hash, r)}
               ELSE msgs
    /\ UNCHANGED <<view, sequence, prepared, committed, vcVotes>>

\* Faulty variant of HandlePrepare: the Commit is broadcast but the
\* prepared certificate is never recorded.
HandlePrepareNoCert(r, m) ==
    /\ m.type = "Prepare"
    /\ m.view = view[r]
    /\ LET k == <<m.view, m.seq>>
           log1 == StoreVote(mlog[r], k, m.hash, m.from, "Prepare")
       IN /\ mlog' = [mlog EXCEPT ![r] = log1]
          /\ IF CountVotes(log1, k, m.hash, "Prepare") >= Quorum
             THEN msgs' = msgs \cup {Msg("Commit", m.view, m.seq, m.hash, r)}
             ELSE UNCHANGED msgs
    /\ UNCHANGED <<view, sequence, committed, vcVotes, prepared>>

(* handle_prepare: a Prepare for the current view is stored if the entry   *)
(* exists and is pinned to its hash; once 2f+1 Prepare votes are in the    *)
(* entry the triple is prepared and a Commit is broadcast.                 *)
HandlePrepare(r, m) ==
    /\ m.type = "Prepare"
    /\ m.view = view[r]
    /\ LET k == <<m.view, m.seq>>
           log1 == StoreVote(mlog[r], k, m.hash, m.from, "Prepare")
       IN /\ mlog' = [mlog EXCEPT ![r] = log1]
          /\ IF CountVotes(log1, k, m.hash, "Prepare") >= Quorum
             THEN /\ prepared' = [prepared EXCEPT ![r] = @ \cup {<<m.view, m.seq, m.hash>>}]
                  /\ msgs' = msgs \cup {Msg("Commit", m.view, m.seq, m.hash, r)}
             ELSE UNCHANGED <<prepared, msgs>>
    /\ UNCHANGED <<view, sequence, committed, vcVotes>>

\* Faulty variant of HandleCommit: current_sequence one too far.
HandleCommitSkipSeq(r, m) ==
    /\ m.type = "Commit"
    /\ m.view = view[r]
    /\ LET k == <<m.view, m.seq>>
           log1 == StoreVote(mlog[r], k, m.hash, m.from, "Commit")
       IN /\ mlog' = [mlog EXCEPT ![r] = log1]
          /\ IF CountVotes(log1, k, m.hash, "Commit") >= Quorum
             THEN /\ committed' = [committed EXCEPT ![r] = @ \cup {<<m.view, m.seq, m.hash>>}]
                  /\ sequence' = [sequence EXCEPT ![r] = m.seq + 2]
             ELSE UNCHANGED <<committed, sequence>>
    /\ UNCHANGED <<view, prepared, vcVotes, msgs>>

(* handle_commit: a Commit is stored like a Prepare; once 2f+1 Commit      *)
(* votes are in the entry the triple is committed and current_sequence    *)
(* becomes sequence + 1.                                                   *)
HandleCommit(r, m) ==
    /\ m.type = "Commit"
    /\ m.view = view[r]
    /\ LET k == <<m.view, m.seq>>
           log1 == StoreVote(mlog[r], k, m.hash, m.from, "Commit")
       IN /\ mlog' = [mlog EXCEPT ![r] = log1]
          /\ IF CountVotes(log1, k, m.hash, "Commit") >= Quorum
             THEN /\ committed' = [committed EXCEPT ![r] = @ \cup {<<m.view, m.seq, m.hash>>}]
                  /\ sequence' = [sequence EXCEPT ![r] = m.seq + 1]
             ELSE UNCHANGED <<committed, sequence>>
    /\ UNCHANGED <<view, prepared, vcVotes, msgs>>

(* handle_view_change: the sender is added to the votes for new_view; with *)
(* 2f+1 of them current_view becomes new_view (whatever it was), and the   *)
(* primary of new_view broadcasts NewView.                                 *)
HandleViewChange(r, m) ==
    /\ m.type = "ViewChange"
    /\ LET votes1 == vcVotes[r][m.view] \cup {m.from}
       IN /\ vcVotes' = [vcVotes EXCEPT ![r][m.view] = votes1]
          /\ IF Cardinality(votes1) >= Quorum
             THEN /\ view' = [view EXCEPT ![r] = m.view]
                  /\ msgs' = IF IsPrimary(r, m.view)
                             THEN msgs \cup {Msg("NewView", m.view, 0, NoHash, r)}
                             ELSE msgs
             ELSE UNCHANGED <<view, msgs>>
    /\ UNCHANGED <<sequence, mlog, prepared, committed>>

(* handle_new_view: current_view becomes the message's view, unchecked,   *)
(* and the view-change votes for that view are dropped.                    *)
HandleNewView(r, m) ==
    /\ m.type = "NewView"
    /\ view' = [view EXCEPT ![r] = m.view]
    /\ vcVotes' = [vcVotes EXCEPT ![r][m.view] = {}]
    /\ UNCHANGED <<sequence, mlog, prepared, committed, msgs>>

(* The view timer of validator r fires: trigger_view_change(view + 1)     *)
(* broadcasts ViewChange{view + 1}.  Timers are not modelled, so it may    *)
(* fire at any time.                                                       *)
Timeout(r) ==
    /\ view[r] + 1 \in Views
    /\ msgs' = msgs \cup {Msg("ViewChange", view[r] + 1, 0, NoHash, r)}
    /\ UNCHANGED <<view, sequence, mlog, prepared, committed, vcVotes>>

Receive(r, m) ==
    \/ HandlePrePrepare(r, m)
    \/ HandlePrepare(r, m)
    \/ HandleCommit(r, m)
    \/ HandleViewChange(r, m)
    \/ HandleNewView(r, m)

Next ==
    \/ \E r \in Honest : Propose(r) \/ Timeout(r)
    \/ \E r \in Honest, m \in msgs : Receive(r, m)

Spec == Init /\ [][Next]_vars

-----------------------------------------------------------------------------
(***************************************************************************)
(* Properties                                                              *)
(***************************************************************************)

\* Agreement within a view: two honest validators never hold committed
\* certificates for different blocks at the same (view, sequence), even
\* when the primary equivocates.  This rests on handle_prepare emitting a
\* Commit only for the hash the entry was pinned to by the first proposal.
CommitAgreementSameView ==
    \A r1, r2 \in Honest, v \in Views, s \in Seqs, h1, h2 \in Blocks :
        (<<v, s, h1>> \in committed[r1] /\ <<v, s, h2>> \in committed[r2])
            => h1 = h2

\* A committed certificate held by an honest validator is backed by an
\* honest validator that holds the prepared certificate for the same
\* triple: handle_prepare broadcasts Commit only once prepared.
CommitBackedByPrepared ==
    \A r \in Honest : \A c \in committed[r] :
        \E q \in Honest : c \in prepared[q]

\* A prepared certificate is backed by 2f+1 distinct validators that
\* broadcast a Prepare for the same (view, sequence, hash) (spec 8): the
\* count in handle_prepare counts only Prepare votes.
PreparedHasQuorum ==
    \A r \in Honest : \A t \in prepared[r] :
        Cardinality({q \in Validators :
            Msg("Prepare", t[1], t[2], t[3], q) \in msgs}) >= Quorum

\* A view above 0 is entered only after more than two thirds of the
\* validators asked for it with ViewChange (spec 4.3); handle_view_change
\* counts the votes and handle_new_view trusts the NewView sent by the
\* primary of that view.
ViewAdvanceJustified ==
    \A r \in Honest :
        view[r] > 0 =>
            3 * Cardinality({q \in Validators :
                Msg("ViewChange", view[r], 0, NoHash, q) \in msgs}) > 2 * N

=============================================================================
