---------------------------- MODULE Confirmations ----------------------------
(***************************************************************************)
(* infrastructure/notify/telegram.py and domain/confirmations.py: a signal *)
(* over budget is put to the owner as a message with two buttons, and the  *)
(* answer is fetched by long polling.                                      *)
(*                                                                         *)
(* A poller is a process with a TelegramNotifier of its own: the bot, and  *)
(* ops/telegram_check.py, which an operator starts beside it under the     *)
(* same token.  The first keeps polling; the second asks a question of its *)
(* own and polls until it is answered or its deadline is over.             *)
(*                                                                         *)
(* Telegram is external.  It keeps the updates of the token in one queue   *)
(* and forgets those below the offset of a getUpdates.  An update is a     *)
(* press of the owner, or a stray one: somebody else's, or with data that  *)
(* names no choice.  Its number is its update_id.                          *)
(***************************************************************************)
EXTENDS Integers, Sequences, FiniteSetsExt

CONSTANTS
    Bot, Script,   \* the two pollers
    Asks,          \* which question(s) each poller asks
    NoOffset,      \* _offset is None
    Patience,      \* from asking to deadline_at
    Batch,         \* how many updates one getUpdates returns
    MaxTime,       \* bound on the clock
    MaxUpdates,    \* bound on presses
    MaxFaults      \* bound on failed requests and restarts

Pollers   == {Bot, Script}
Questions == UNION {Asks[p] : p \in Pollers}

ASSUME ConfirmationsAssumption ==
    /\ Bot # Script
    /\ Asks \in [Pollers -> SUBSET Questions] /\ Asks[Bot] \cap Asks[Script] = {}
    /\ NoOffset \notin Nat
    /\ Patience \in Nat \ {0} /\ Batch \in Nat \ {0}
    /\ MaxTime \in Nat /\ MaxUpdates \in Nat /\ MaxFaults \in Nat

VARIABLES
    now,        \* the clock
    deadline,   \* deadline_at of the questions asked so far
    delivered,  \* questions whose asker was told that they were delivered
    shown,      \* questions that stand in the owner's chat
    updates,    \* every update Telegram ever queued
    forgotten,  \* Telegram has forgotten the updates up to this number
    phase,      \* idle, polling or done
    sentAt,     \* when each poller's open getUpdates was sent, else 0
    offset,     \* _offset of each poller's notifier
    returned,   \* how often (2 is "more than once") each notifier returned an update
    responses,  \* all responses ever returned
    faults

telegram == <<shown, updates, forgotten>>
poller   == <<phase, sentAt, offset, returned>>
vars     == <<now, deadline, delivered, telegram, poller, responses, faults>>

Ids == 1..MaxUpdates
------------------------------------------------------------------------------
Fresh == [i \in Ids |-> 0]

Init ==
    /\ now = 0
    /\ deadline = << >>
    /\ delivered = {} /\ shown = {}
    /\ updates = << >> /\ forgotten = 0
    /\ phase = [p \in Pollers |-> "idle"]
    /\ sentAt = [p \in Pollers |-> 0]
    /\ offset = [p \in Pollers |-> NoOffset]
    /\ returned = [p \in Pollers |-> Fresh]
    /\ responses = {}
    /\ faults = 0

Fault == faults < MaxFaults /\ faults' = faults + 1

IsExpired(q, at) == at >= deadline[q]

Tick ==
    /\ now < MaxTime /\ now' = now + 1
    /\ UNCHANGED <<deadline, delivered, telegram, poller, responses, faults>>

\* deadline_at of a request made now.
SetDeadline(q) ==
    deadline' = [x \in DOMAIN deadline \cup {q} |->
                    IF x = q THEN now + Patience ELSE deadline[x]]

\* Mutant of Ask: the failure is swallowed, as notify() does.
AskSwallowing(p, q) ==
    /\ phase[p] = "idle" /\ q \in Asks[p] \ DOMAIN deadline
    /\ SetDeadline(q)
    /\ delivered' = delivered \cup {q}
    /\ \/ shown' = shown \cup {q} /\ UNCHANGED faults
       \/ UNCHANGED shown /\ Fault
    /\ UNCHANGED <<now, updates, forgotten, poller, responses>>

\* request_confirmation raises when the message was not delivered, or when it
\* was and Telegram's answer is lost.
Ask(p, q) ==
    /\ phase[p] = "idle" /\ q \in Asks[p] \ DOMAIN deadline
    /\ SetDeadline(q)
    /\ \/ /\ delivered' = delivered \cup {q} /\ shown' = shown \cup {q}
          /\ UNCHANGED faults
       \/ /\ Fault
          /\ shown' \in {shown, shown \cup {q}}
          /\ UNCHANGED delivered
    /\ UNCHANGED <<now, updates, forgotten, poller, responses>>

Press ==
    /\ Len(updates) < MaxUpdates
    /\ \E q \in shown, kind \in {"owner", "stray"} :
          updates' = Append(updates, [about |-> q, kind |-> kind, at |-> now])
    /\ UNCHANGED <<now, deadline, delivered, shown, forgotten, poller, responses, faults>>
------------------------------------------------------------------------------
(***************************************************************************)
(* poll_responses.                                                         *)
(***************************************************************************)
\* The script asks first, then polls while its deadline is ahead.
MayPoll(p) ==
    p = Script => /\ Asks[p] \subseteq delivered
                  /\ \A q \in Asks[p] : ~IsExpired(q, now)

Request(p) ==
    /\ phase[p] = "idle" /\ MayPoll(p)
    /\ phase' = [phase EXCEPT ![p] = "polling"]
    /\ sentAt' = [sentAt EXCEPT ![p] = now]
    /\ UNCHANGED <<now, deadline, delivered, telegram, offset, returned, responses, faults>>

\* A getUpdates has Telegram forget what is below its offset, if it has one,
\* and returns the oldest updates it still keeps.
ForgottenBy(p) ==
    IF offset[p] = NoOffset THEN forgotten ELSE Max({forgotten, offset[p] - 1})

Returned(p) ==
    {i \in DOMAIN updates : ForgottenBy(p) < i /\ i <= ForgottenBy(p) + Batch}

\* _parse_callback: only the owner's callbacks with readable data.
Accepted(ids) == {i \in ids : updates[i].kind = "owner"}

\* Mutants of OffsetAfter: one too far, one too short, only past accepted updates.
OffsetTooFar(p, ids)   == IF ids = {} THEN offset[p] ELSE Max(ids) + 2
OffsetTooShort(p, ids) == IF ids = {} THEN offset[p] ELSE Max(ids)
OffsetAccepted(p, ids) ==
    IF Accepted(ids) = {} THEN offset[p] ELSE Max(Accepted(ids)) + 1

\* The loop leaves the last update_id + 1, whatever the updates were.
OffsetAfter(p, ids) == IF ids = {} THEN offset[p] ELSE Max(ids) + 1

\* Mutant of ReceivedAt: the time at which the long poll was sent.
ReceivedAtRequest(p) == sentAt[p]

ReceivedAt(p) == now

\* After a poll the script is done if its own question was answered.
PhaseAfter(p, ids) ==
    IF p = Script /\ \E i \in Accepted(ids) : updates[i].about \in Asks[p]
    THEN "done" ELSE "idle"

PollReturns(p) ==
    LET ids == Returned(p) IN
    /\ phase[p] = "polling"
    /\ forgotten' = ForgottenBy(p)
    /\ offset' = [offset EXCEPT ![p] = OffsetAfter(p, ids)]
    /\ returned' = [returned EXCEPT ![p] =
                       [i \in Ids |-> IF i \in Accepted(ids) THEN Min({2, @[i] + 1}) ELSE @[i]]]
    /\ responses' = responses \cup
                    {[update |-> i, received_at |-> ReceivedAt(p)] : i \in Accepted(ids)}
    /\ phase' = [phase EXCEPT ![p] = PhaseAfter(p, ids)]
    /\ sentAt' = [sentAt EXCEPT ![p] = 0]
    /\ UNCHANGED <<now, deadline, delivered, shown, updates, faults>>

\* The request or its answer is lost, or ended by the other poller's getUpdates
\* (409): the exception is caught, nothing is returned and the offset stays.
PollFails(p) ==
    /\ phase[p] = "polling" /\ Fault
    /\ forgotten' \in {forgotten, ForgottenBy(p)}
    /\ phase' = [phase EXCEPT ![p] = "idle"]
    /\ sentAt' = [sentAt EXCEPT ![p] = 0]
    /\ UNCHANGED <<now, deadline, delivered, shown, updates, offset, returned, responses>>

\* The bot starts anew: a new notifier, whose offset is None.  (A script that
\* dies takes no further step.)
Restart ==
    /\ Fault
    /\ phase' = [phase EXCEPT ![Bot] = "idle"]
    /\ offset' = [offset EXCEPT ![Bot] = NoOffset]
    /\ returned' = [returned EXCEPT ![Bot] = Fresh]
    /\ sentAt' = [sentAt EXCEPT ![Bot] = 0]
    /\ UNCHANGED <<now, deadline, delivered, telegram, responses>>
------------------------------------------------------------------------------
Next ==
    \/ Tick \/ Press \/ Restart
    \/ \E p \in Pollers : \/ \E q \in Asks[p] : Ask(p, q)
                          \/ Request(p) \/ PollReturns(p) \/ PollFails(p)

Spec == Init /\ [][Next]_vars

\* The bot polls again and again, and a poll ends, since the client has a
\* timeout.  Nobody need ask or press, and the script need not run.
FairSpec == Spec /\ WF_vars(Request(Bot)) /\ WF_vars(PollReturns(Bot))
------------------------------------------------------------------------------
\* Types; Telegram forgets and a notifier skips only what exists.
TypeOK ==
    /\ now \in 0..MaxTime /\ faults \in 0..MaxFaults
    /\ DOMAIN deadline \subseteq Questions
    /\ \A q \in DOMAIN deadline : deadline[q] \in Nat
    /\ shown \subseteq DOMAIN deadline /\ delivered \subseteq DOMAIN deadline
    /\ updates \in Seq([about : Questions, kind : {"owner", "stray"}, at : 0..MaxTime])
    /\ Len(updates) <= MaxUpdates
    /\ forgotten \in 0..Len(updates)
    /\ phase \in [Pollers -> {"idle", "polling", "done"}]
    /\ sentAt \in [Pollers -> 0..MaxTime]
    /\ offset \in [Pollers -> {NoOffset} \cup 2..(Len(updates) + 1)]
    /\ returned \in [Pollers -> [Ids -> 0..2]]
    /\ responses \subseteq [update : DOMAIN updates, received_at : 0..MaxTime]

\* Whoever waits for an answer knows that the question was delivered: an asker
\* that was told so finds it in the chat, failures and restarts or not.
AwaitedMeansShown == delivered \subseteq shown

Heard == {r.update : r \in responses}

\* Telegram forgets a press of the owner only after some notifier has returned
\* it: the offset acknowledges nothing that was lost on the way, skipped, or
\* still unread.  (The script does acknowledge presses meant for the bot.)
NothingForgottenUnread ==
    \A i \in DOMAIN updates :
        i <= forgotten /\ updates[i].kind = "owner" => i \in Heard

\* One notifier returns a press at most once: the repetitions poll_responses
\* announces come from a restart or from a second notifier.
RepeatsNeedANewNotifier == \A p \in Pollers, i \in Ids : returned[p][i] <= 1

\* A response that is_expired() lets pass was pressed before the deadline, also
\* when the poll that fetched it had been sent much earlier.
InTimeMeansPressedInTime ==
    \A r \in responses :
        LET u == updates[r.update] IN
        ~IsExpired(u.about, r.received_at) => u.at < deadline[u.about]

\* The owner's press is returned in the end, whatever strangers press before it
\* and however often polls fail or the bot starts anew (finitely often).
PressesAreReturned ==
    \A i \in Ids :
        (i \in DOMAIN updates /\ updates[i].kind = "owner") ~> i \in Heard
==============================================================================
