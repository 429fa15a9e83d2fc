-------------------------------- MODULE Feeds --------------------------------
(***************************************************************************)
(* Rows that are stored, listed and streamed: a user's alerts (create_alert*)
(* and the calls on alerts in src/src/automations/service.rs, with         *)
(* src/src/notifications) and the comments of a market                     *)
(* (src/src/markets/comments).  The two are streamed alike; only alerts    *)
(* are marked as read and cleared.                                         *)
(*                                                                         *)
(* A row is inserted, then published to a broadcast channel that keeps the *)
(* newest events for all receivers; a stream's task takes those of its     *)
(* user, or its market, and sends them to its response, which holds a few  *)
(* events until the client takes them.  Comments are listed whole, their   *)
(* pages being in Pages; of the alerts only the newest are listed, and     *)
(* there is no further page.                                               *)
(*                                                                         *)
(* clear_alerts and mark_alerts_read read the rows they are about, then    *)
(* delete or update them one by one.                                       *)
(***************************************************************************)
EXTENDS Integers, Sequences, FiniteSets, Functions

CONSTANTS
    Alerts,         \* rows to come, of alerts or comments
    Own,            \* those of the user, or the market, in question
    Clients,        \* clients of the stream
    Editors,        \* concurrent requests to clear or to mark alerts
    ListLimit,      \* alerts that a list has: 20
    Stamps,         \* what rows are stamped with
    Backlog,        \* events the broadcast channel keeps: 512, or 1024
    Room            \* events a response holds: 64

ASSUME OwnAssumption == Own \subseteq Alerts
ASSUME HeartbeatAssumption == "heartbeat" \notin Alerts
ASSUME ListAssumption == ListLimit \in Nat \ {0} /\ Stamps \subseteq Int
ASSUME RoomAssumption == Backlog \in Nat \ {0} /\ Room \in Nat \ {0}

VARIABLES
    feed,           \* are these alerts or comments?
    entry,          \* the table
    created,        \* created_at, which is taken before the row is inserted: in any order
    unsent,         \* rows whose insert has returned and that are not yet published
    sent,           \* all that was published since the process started
    stream,         \* the streams and what their clients know
    edit,           \* the locals of the editors
    cleared,        \* rows a clear_alerts has listed
    marked          \* rows a mark has listed

feedVars == <<feed, created, entry, unsent, sent, stream, edit, cleared, marked>>
-----------------------------------------------------------------------------
Closed == [open |-> FALSE, next |-> 0, lagged |-> FALSE, response |-> <<>>,
           listed |-> FALSE, known |-> {}]

Inactive == [op |-> "none", rows |-> {}, left |-> {}]

FeedInit ==
    /\ feed \in {"alerts", "comments"}
    /\ created \in [Own -> Stamps]
    /\ entry = [r \in Alerts |-> "none"]
    /\ unsent = {} /\ sent = <<>>
    /\ stream = [s \in Clients |-> Closed]
    /\ edit = [e \in Editors |-> Inactive]
    /\ cleared = {} /\ marked = {}

Present == {r \in Own : entry[r] \in {"unread", "read"}}
-----------------------------------------------------------------------------
(* Writers.                                                                *)

\* create_alert, or create, up to its insert.
InsertEntry(r) ==
    /\ entry[r] = "none"
    /\ entry' = [entry EXCEPT ![r] = "unread"]
    /\ unsent' = unsent \cup {r}
    /\ UNCHANGED <<feed, created, sent, stream, edit, cleared, marked>>

\* publish_alert, or the send of create.
Publish(r) ==
    /\ r \in unsent
    /\ unsent' = unsent \ {r}
    /\ sent' = Append(sent, r)
    /\ UNCHANGED <<feed, created, entry, stream, edit, cleared, marked>>
-----------------------------------------------------------------------------
(* Streams.                                                                *)

\* stream_alerts, or market_comment_stream: from here on all is received.
OpenStream(s) ==
    /\ ~stream[s].open
    /\ stream' = [stream EXCEPT ![s] = [Closed EXCEPT !.open = TRUE, !.next = Len(sent) + 1]]
    /\ UNCHANGED <<feed, created, entry, unsent, sent, edit, cleared, marked>>

\* ORDER BY created_at DESC LIMIT 20; rows with the same time come in any order.
Listings ==
    IF feed = "alerts" /\ Cardinality(Present) > ListLimit
      THEN {L \in SUBSET Present :
                /\ Cardinality(L) = ListLimit
                /\ \A q \in L, r \in Present \ L : created[q] >= created[r]}
      ELSE {Present}

\* alerts, or list, by a client whose stream is open.
ListEntries(s) ==
    /\ stream[s].open
    /\ \E L \in Listings :
         stream' = [stream EXCEPT ![s] = [stream[s] EXCEPT !.listed = TRUE, !.known = @ \cup L]]
    /\ UNCHANGED <<feed, created, entry, unsent, sent, edit, cleared, marked>>

\* One event is with the task that waits to send it, the others in the response.
HasRoom(s) == Len(stream[s].response) <= Room

OldestKept == IF Len(sent) > Backlog THEN Len(sent) - Backlog + 1 ELSE 1

\* Mutation: an event is dropped when the response is full.
TakeEvent_Dropping(s) ==
    LET r == sent[stream[s].next] IN
    /\ stream[s].open
    /\ stream[s].next \in OldestKept..Len(sent)
    /\ stream' = [stream EXCEPT ![s] = [stream[s] EXCEPT
            !.next = @ + 1,
            !.response = IF r \in Own /\ HasRoom(s) THEN Append(@, r) ELSE @]]
    /\ UNCHANGED <<feed, created, entry, unsent, sent, edit, cleared, marked>>

\* receiver.recv(): the task takes nothing while an event waits to be sent.
TakeEvent(s) ==
    LET r == sent[stream[s].next] IN
    /\ stream[s].open
    /\ HasRoom(s)
    /\ stream[s].next \in OldestKept..Len(sent)
    /\ stream' = [stream EXCEPT ![s] = [stream[s] EXCEPT
            !.next = @ + 1,
            !.response = IF r \in Own THEN Append(@, r) ELSE @]]
    /\ UNCHANGED <<feed, created, entry, unsent, sent, edit, cleared, marked>>

\* RecvError::Lagged: the receiver goes on with the oldest event there is.
Lag(s) ==
    /\ stream[s].open
    /\ HasRoom(s)
    /\ stream[s].next < OldestKept
    /\ stream' = [stream EXCEPT ![s] = [stream[s] EXCEPT !.next = OldestKept, !.lagged = TRUE]]
    /\ UNCHANGED <<feed, created, entry, unsent, sent, edit, cleared, marked>>

\* Every 25 seconds, heartbeats take room as well.
Heartbeat(s) ==
    /\ stream[s].open
    /\ HasRoom(s)
    /\ stream' = [stream EXCEPT ![s].response = Append(@, "heartbeat")]
    /\ UNCHANGED <<feed, created, entry, unsent, sent, edit, cleared, marked>>

ReadEvent(s) ==
    LET events == stream[s].response IN
    /\ events # <<>>
    /\ stream' = [stream EXCEPT ![s] = [stream[s] EXCEPT
            !.response = Tail(events),
            !.known = @ \cup ({Head(events)} \ {"heartbeat"})]]
    /\ UNCHANGED <<feed, created, entry, unsent, sent, edit, cleared, marked>>

\* The client is gone; the task notices when it sends.
CloseStream(s) ==
    /\ stream[s].open
    /\ stream' = [stream EXCEPT ![s] = Closed]
    /\ UNCHANGED <<feed, created, entry, unsent, sent, edit, cleared, marked>>
-----------------------------------------------------------------------------
(* Alerts only.                                                            *)

Begin(e, op, rows) ==
    /\ feed = "alerts"
    /\ edit[e] = Inactive
    /\ edit' = [edit EXCEPT ![e] = [op |-> op, rows |-> rows, left |-> rows]]
    /\ UNCHANGED <<feed, created, entry, unsent, sent, stream>>

Unread == {r \in Present : entry[r] = "unread"}

\* mark_alerts_read
ListUnread(e) ==
    /\ Begin(e, "mark", Unread)
    /\ marked' = marked \cup Unread
    /\ UNCHANGED cleared

\* mark_alert_read, of one that is not read already.
ReadAlert(e, r) ==
    /\ r \in Unread
    /\ Begin(e, "mark", {r})
    /\ marked' = marked \cup {r}
    /\ UNCHANGED cleared

\* clear_alerts
ListAlerts(e) ==
    /\ Begin(e, "clear", Present)
    /\ cleared' = cleared \cup Present
    /\ UNCHANGED marked

\* The UPDATE of a row that is gone is an error and ends the request.
MarkEntry(e, r) ==
    /\ edit[e].op = "mark" /\ r \in edit[e].left
    /\ IF r \in Present
         THEN /\ entry' = [entry EXCEPT ![r] = "read"]
              /\ edit' = [edit EXCEPT ![e].left = @ \ {r}]
         ELSE /\ edit' = [edit EXCEPT ![e] = Inactive]
              /\ UNCHANGED entry
    /\ UNCHANGED <<feed, created, unsent, sent, stream, cleared, marked>>

\* Mutation: all alerts of the user are deleted, with the one that was read.
ClearEntry_All(e, r) ==
    /\ edit[e].op = "clear" /\ r \in edit[e].left
    /\ entry' = [s \in Alerts |-> IF s \in Present \cup {r} THEN "gone" ELSE entry[s]]
    /\ edit' = [edit EXCEPT ![e].left = {}]
    /\ UNCHANGED <<feed, created, unsent, sent, stream, cleared, marked>>

\* The DELETE of a row that is gone is none.
ClearEntry(e, r) ==
    /\ edit[e].op = "clear" /\ r \in edit[e].left
    /\ entry' = [entry EXCEPT ![r] = "gone"]
    /\ edit' = [edit EXCEPT ![e].left = @ \ {r}]
    /\ UNCHANGED <<feed, created, unsent, sent, stream, cleared, marked>>

\* The answer, an error of the database, or a caller that is gone.
EndEdit(e) ==
    /\ edit[e] # Inactive
    /\ edit' = [edit EXCEPT ![e] = Inactive]
    /\ UNCHANGED <<feed, created, entry, unsent, sent, stream, cleared, marked>>
-----------------------------------------------------------------------------
\* A writer is dropped between its insert and its publication.
DropWriter(r) ==
    /\ r \in unsent
    /\ unsent' = unsent \ {r}
    /\ UNCHANGED <<feed, created, entry, sent, stream, edit, cleared, marked>>

\* The process ends and starts again: its channel and its streams are new.
RestartFeed ==
    /\ unsent' = {} /\ sent' = <<>>
    /\ stream' = [s \in Clients |-> Closed]
    /\ edit' = [e \in Editors |-> Inactive]
    /\ UNCHANGED <<feed, created, entry, cleared, marked>>

FeedNext ==
    \/ \E r \in Alerts : InsertEntry(r) \/ Publish(r) \/ DropWriter(r)
    \/ \E s \in Clients :
        \/ OpenStream(s) \/ ListEntries(s) \/ TakeEvent(s) \/ Lag(s)
        \/ Heartbeat(s) \/ ReadEvent(s) \/ CloseStream(s)
    \/ \E e \in Editors :
        \/ ListUnread(e) \/ ListAlerts(e) \/ EndEdit(e)
        \/ \E r \in Own : ReadAlert(e, r) \/ MarkEntry(e, r) \/ ClearEntry(e, r)
    \/ RestartFeed

FeedSpec == FeedInit /\ [][FeedNext]_feedVars
-----------------------------------------------------------------------------
(* Properties.                                                             *)

\* The client has as many alerts as a list can have that are no older than r.
Outlisted(s, r) ==
    \E L \in SUBSET stream[s].known :
        Cardinality(L) = ListLimit /\ \A q \in L : created[q] >= created[r]

(* A client that opens its stream before it lists misses nothing: what was *)
(* published, and is not cleared, it has listed or received, or it is on   *)
(* its way - unless its stream fell more than the channel's backlog        *)
(* behind, which the stream's task does not tell; and of the alerts, those *)
(* that are older than the 20 newest it has may be neither listed nor      *)
(* streamed (alerts, stream_alerts, list, market_comment_stream).          *)
NothingMissed ==
    \A s \in Clients : stream[s].listed /\ ~stream[s].lagged =>
        LET coming == {sent[i] : i \in stream[s].next..Len(sent)} IN
        \A r \in Range(sent) \cap Present :
            \/ r \in stream[s].known \cup Range(stream[s].response) \cup coming
            \/ feed = "alerts" /\ Outlisted(s, r)

(* An alert that comes while others are cleared or marked stays, and stays *)
(* unread: only what a request has listed is touched; and a request that   *)
(* has come to its end has cleared, or marked, all that it listed, however *)
(* other requests interfere (clear_alerts, mark_alerts_read).              *)
OnlyListedGo ==
    /\ \A r \in Alerts :
        /\ entry[r] = "gone" => r \in cleared
        /\ entry[r] = "read" => r \in marked
    /\ \A e \in Editors : \A r \in edit[e].rows \ edit[e].left :
        entry[r] \in IF edit[e].op = "clear" THEN {"gone"} ELSE {"read", "gone"}
=============================================================================
