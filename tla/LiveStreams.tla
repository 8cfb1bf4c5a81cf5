---------------------------- MODULE LiveStreams -----------------------------
(* The live (SSE) streams of one profile's now playing: requests that check  *)
(* whether the viewer may look, the hub that fans out what one Redis channel *)
(* brings, and the closing messages of a block or of a profile turned        *)
(* private, which travel on the same channel as the updates.  Updates come   *)
(* from whatever set what is playing, and once more from the enrichment      *)
(* worker when a picture for it has been found.                              *)
EXTENDS Integers, Sequences, SequencesExt

CONSTANTS
    Viewers,      \* signed-in accounts that are not the profile's owner
    Players,      \* what sets the play: requests of the owner's, a poll of an account
    BUFFER,       \* updates a slow stream may fall behind by
    MaxEvents,    \* bound: blocks, profiles turned private, updates
    MaxRepublishes,  \* bound: plays the worker reads to publish again
    MaxLost       \* bound: publishes that fail, messages the hub loses

ASSUME LiveConstants == BUFFER \in Nat \ {0} /\ MaxEvents \in Nat

VARIABLES
    hidden,       \* users.is_private
    shunned,      \* the viewers the owner blocks
    playing,      \* the row of now_playing: a version, 0 for none
    player,       \* player[p]: where set_now_playing is, and what it read
    republish,    \* the enrichment worker, and the play it read to send again
    owesClose,    \* closing messages committed for and not yet published
    bus,          \* the Redis channel, up to this API instance
    stream,       \* stream[v]: the request and its listener
    events, lostOnes,
    missed,       \* history: viewers whose closing message was lost
    behind,       \* history: viewers whose newest update fell out of a full buffer
    crossed       \* history: the latest update ran beside another or beside a
                  \* republish of an older play, or was lost

liveVars == <<hidden, shunned, playing, player, republish, owesClose, bus, stream,
              events, lostOnes, missed, behind, crossed>>

NoStream == [at |-> "none", private |-> FALSE, buffer |-> <<>>, shows |-> 0]
CloseFor(v) == [close |-> {v}, shows |-> 0]
CloseOthers == [close |-> Viewers, shows |-> 0]
Update(version) == [close |-> {}, shows |-> version]
IsUpdate(m) == m.close = {}

LiveInit ==
    /\ hidden = FALSE /\ shunned = {}
    /\ playing = 0
    /\ player = [p \in Players |-> [at |-> "idle", read |-> 0]]
    /\ republish = [at |-> "idle", read |-> 0, times |-> 0]
    /\ owesClose = {} /\ bus = <<>>
    /\ stream = [v \in Viewers |-> NoStream]
    /\ events = 0 /\ lostOnes = 0
    /\ missed = {} /\ behind = {} /\ crossed = FALSE

Listening(v) == stream[v].at \in {"listening", "reread", "checked", "shown", "open"}
MayLook(v) == ~hidden /\ v \notin shunned

-----------------------------------------------------------------------------
(* live_now_playing                                                         *)

\* find_by_username and the first ensure_profile_visible
AskStream(v) ==
    /\ stream[v].at = "none"
    /\ MayLook(v)
    /\ stream' = [stream EXCEPT ![v] = [NoStream EXCEPT !.at = "asked"]]
    /\ missed' = missed \ {v} /\ behind' = behind \ {v}
    /\ UNCHANGED <<hidden, shunned, playing, player, republish, owesClose, bus,
                   events, lostOnes, crossed>>

\* LiveHub::listen, before anything else is read
Listen(v) ==
    /\ stream[v].at = "asked"
    /\ stream' = [stream EXCEPT ![v].at = "listening"]
    /\ UNCHANGED <<hidden, shunned, playing, player, republish, owesClose, bus,
                   events, lostOnes, missed, behind, crossed>>

\* find_by_id once more: the profile as it is now
Reread(v) ==
    /\ stream[v].at = "listening"
    /\ stream' = [stream EXCEPT ![v].at = "reread", ![v].private = hidden]
    /\ UNCHANGED <<hidden, shunned, playing, player, republish, owesClose, bus,
                   events, lostOnes, missed, behind, crossed>>

\* the second ensure_profile_visible: a block, then the profile read before
StillVisible(v) == v \notin shunned /\ ~stream[v].private

Recheck(v) ==
    /\ stream[v].at = "reread"
    /\ stream' = [stream EXCEPT ![v] =
          IF StillVisible(v) THEN [@ EXCEPT !.at = "checked"] ELSE NoStream]
    /\ UNCHANGED <<hidden, shunned, playing, player, republish, owesClose, bus,
                   events, lostOnes, missed, behind, crossed>>

\* get_now_playing: the first event
ShowCurrent(v) ==
    /\ stream[v].at = "checked"
    /\ stream' = [stream EXCEPT ![v].at = "shown", ![v].shows = playing]
    /\ behind' = behind \ {v}
    /\ UNCHANGED <<hidden, shunned, playing, player, republish, owesClose, bus,
                   events, lostOnes, missed, crossed>>

\* The response: the first event, then what the listener receives.
OpenStream(v) ==
    /\ stream[v].at = "shown"
    /\ stream' = [stream EXCEPT ![v].at = "open"]
    /\ UNCHANGED <<hidden, shunned, playing, player, republish, owesClose, bus,
                   events, lostOnes, missed, behind, crossed>>

\* Listener::recv: a closing message for this viewer ends the stream, another
\* one is passed over, an update is shown.
Receive(v) ==
    /\ stream[v].at = "open" /\ stream[v].buffer # <<>>
    /\ LET m == Head(stream[v].buffer) IN
       stream' = [stream EXCEPT ![v] =
          IF v \in m.close THEN NoStream
          ELSE [stream[v] EXCEPT !.buffer = Tail(@),
                                 !.shows = IF IsUpdate(m) THEN m.shows ELSE @]]
    /\ UNCHANGED <<hidden, shunned, playing, player, republish, owesClose, bus,
                   events, lostOnes, missed, behind, crossed>>

\* The client goes away: the listener is dropped.
Leave(v) ==
    /\ Listening(v)
    /\ stream' = [stream EXCEPT ![v] = NoStream]
    /\ UNCHANGED <<hidden, shunned, playing, player, republish, owesClose, bus,
                   events, lostOnes, missed, behind, crossed>>

-----------------------------------------------------------------------------
(* The hub. A subscriber that falls behind loses its oldest messages, and   *)
(* recv goes on after what it lost (RecvError::Lagged).                     *)

Buffered(s, m) ==
    IF Len(s.buffer) < BUFFER THEN Append(s.buffer, m) ELSE Append(Tail(s.buffer), m)
Lags(v) == Listening(v) /\ Len(stream[v].buffer) = BUFFER
HasUpdate(messages) == \E i \in DOMAIN messages : IsUpdate(messages[i])

\* What falls out of v's buffer is the newest update there is for it: only
\* closing messages for others came after it.
LosesNewest(v) ==
    /\ Lags(v) /\ IsUpdate(Head(stream[v].buffer))
    /\ ~HasUpdate(Tail(stream[v].buffer)) /\ ~IsUpdate(Head(bus))

Dispatch ==
    /\ bus # <<>>
    /\ bus' = Tail(bus)
    /\ stream' = [v \in Viewers |->
          IF Listening(v) THEN [stream[v] EXCEPT !.buffer = Buffered(stream[v], Head(bus))]
          ELSE stream[v]]
    /\ missed' = missed \cup {v \in Viewers : Lags(v) /\ v \in Head(stream[v].buffer).close}
    /\ behind' = (IF IsUpdate(Head(bus)) THEN {} ELSE behind)
                  \cup {v \in Viewers : LosesNewest(v)}
    /\ UNCHANGED <<hidden, shunned, playing, player, republish, owesClose, events,
                   lostOnes, crossed>>

\* The hub's own subscription misses a message: it lagged, or was away for a
\* reconnect. When it closes, it misses every message from then on.
HubLoses ==
    /\ bus # <<>>
    /\ lostOnes < MaxLost
    /\ bus' = Tail(bus)
    /\ lostOnes' = lostOnes + 1
    /\ missed' = missed \cup {v \in Head(bus).close : Listening(v)}
    /\ crossed' = (crossed \/ (IsUpdate(Head(bus)) /\ ~HasUpdate(Tail(bus))
                                /\ Head(bus).shows = playing))
    /\ UNCHANGED <<hidden, shunned, playing, player, republish, owesClose, stream, events,
                   behind>>

-----------------------------------------------------------------------------
(* What is published, each after its own transaction.                       *)

\* blocks::block on a viewer not blocked yet
BlockViewer(v) ==
    /\ events < MaxEvents
    /\ v \notin shunned
    /\ shunned' = shunned \cup {v}
    /\ owesClose' = owesClose \cup {CloseFor(v)}
    /\ events' = events + 1
    /\ UNCHANGED <<hidden, playing, player, republish, bus, stream, lostOnes, missed,
                   behind, crossed>>

UnblockViewer(v) ==
    /\ v \in shunned
    /\ shunned' = shunned \ {v}
    /\ UNCHANGED <<hidden, playing, player, republish, owesClose, bus, stream,
                   events, lostOnes, missed, behind, crossed>>

\* update_settings with is_private
SetPrivate ==
    /\ events < MaxEvents
    /\ hidden' = TRUE
    /\ owesClose' = owesClose \cup {CloseOthers}
    /\ events' = events + 1
    /\ UNCHANGED <<shunned, playing, player, republish, bus, stream, lostOnes,
                   missed, behind, crossed>>

SetPublic ==
    /\ hidden
    /\ hidden' = FALSE
    /\ UNCHANGED <<shunned, playing, player, republish, owesClose, bus, stream,
                   events, lostOnes, missed, behind, crossed>>

Send(m) == bus' = Append(bus, m) /\ UNCHANGED lostOnes

\* A publish that fails is logged and forgotten.
SendFails ==
    /\ lostOnes < MaxLost
    /\ lostOnes' = lostOnes + 1
    /\ UNCHANGED bus

PublishClose(m) ==
    /\ m \in owesClose
    /\ owesClose' = owesClose \ {m}
    /\ \/ Send(m) /\ UNCHANGED missed
       \/ SendFails /\ missed' = missed \cup {v \in m.close : Listening(v)}
    /\ UNCHANGED <<hidden, shunned, playing, player, republish, stream, events,
                   behind, crossed>>

\* upsert_now_playing, after the track was resolved
Upsert(p) ==
    /\ player[p].at = "idle"
    /\ events < MaxEvents
    /\ playing' = playing + 1
    /\ player' = [player EXCEPT ![p].at = "stored"]
    /\ crossed' = (republish.at # "idle" \/ \E q \in Players : player[q].at # "idle")
    /\ events' = events + 1
    /\ UNCHANGED <<hidden, shunned, republish, owesClose, bus, stream, lostOnes,
                   missed, behind>>

\* get_now_playing: what is stored by now
ReadBack(p) ==
    /\ player[p].at = "stored"
    /\ player' = [player EXCEPT ![p] = [at |-> "read", read |-> playing]]
    /\ UNCHANGED <<hidden, shunned, playing, republish, owesClose, bus, stream,
                   events, lostOnes, missed, behind, crossed>>

PublishUpdate(p) ==
    /\ player[p].at = "read"
    /\ player' = [player EXCEPT ![p] = [at |-> "idle", read |-> 0]]
    /\ \/ Send(Update(player[p].read)) /\ UNCHANGED crossed
       \/ SendFails /\ crossed' = TRUE
    /\ UNCHANGED <<hidden, shunned, playing, republish, owesClose, stream, events,
                   missed, behind>>

\* republish_now_playing, once a picture of the artist or the album is stored:
\* active_now_playing_for_entity reads what is playing
ReadPlaying ==
    /\ republish.at = "idle"
    /\ playing # 0
    /\ republish.times < MaxRepublishes
    /\ republish' = [at |-> "read", read |-> playing, times |-> republish.times + 1]
    /\ UNCHANGED <<hidden, shunned, playing, player, owesClose, bus, stream, events,
                   lostOnes, missed, behind, crossed>>

\* It then publishes what it read, whatever was stored since; a failure is
\* logged and forgotten.
Republish ==
    /\ republish.at = "read"
    /\ republish' = [republish EXCEPT !.at = "idle", !.read = 0]
    /\ Send(Update(republish.read)) \/ SendFails
    /\ UNCHANGED <<hidden, shunned, playing, player, owesClose, stream, events, missed,
                   behind, crossed>>

-----------------------------------------------------------------------------
LiveNext ==
    \/ \E v \in Viewers :
          \/ AskStream(v) \/ Listen(v) \/ Reread(v) \/ Recheck(v) \/ ShowCurrent(v) \/ OpenStream(v)
          \/ Receive(v) \/ Leave(v) \/ BlockViewer(v) \/ UnblockViewer(v)
    \/ SetPrivate \/ SetPublic \/ Dispatch \/ HubLoses \/ ReadPlaying \/ Republish
    \/ \E m \in owesClose : PublishClose(m)
    \/ \E p \in Players : Upsert(p) \/ ReadBack(p) \/ PublishUpdate(p)

LiveSpec == LiveInit /\ [][LiveNext]_liveVars

-----------------------------------------------------------------------------
Messages == [close : SUBSET Viewers, shows : Nat]
Streams == [at : {"none", "asked", "listening", "reread", "checked", "shown", "open"},
            private : BOOLEAN, buffer : Seq(Messages), shows : Nat]

LiveTypeOK ==
    /\ hidden \in BOOLEAN /\ crossed \in BOOLEAN
    /\ shunned \subseteq Viewers /\ missed \subseteq Viewers /\ behind \subseteq Viewers
    /\ playing \in Nat /\ events \in 0 .. MaxEvents /\ lostOnes \in Nat
    /\ player \in [Players -> [at : {"idle", "stored", "read"}, read : Nat]]
    /\ republish \in [at : {"idle", "read"}, read : Nat, times : Nat]
    /\ republish.read <= playing
    /\ owesClose \subseteq Messages /\ bus \in Seq(Messages)
    /\ stream \in [Viewers -> Streams]
    /\ \A v \in Viewers : Len(stream[v].buffer) <= BUFFER /\ stream[v].shows <= playing

ClosingComes(v) ==
    \/ \E m \in owesClose : v \in m.close
    \/ \E i \in DOMAIN bus : v \in bus[i].close
    \/ \E i \in DOMAIN stream[v].buffer : v \in stream[v].buffer[i].close

\* A stream that is open to somebody the owner blocks, or of a profile turned
\* private, has its closing message on the way: no request slips in between
\* its check and its listening, whatever order the statements of the request,
\* the block and the channel come in. A closing message that could not be
\* published, that the hub missed or that fell out of a slow stream's buffer
\* is the exception.
StreamsEndWithSight ==
    \A v \in Viewers :
       stream[v].at = "open" /\ ~MayLook(v) /\ v \notin missed => ClosingComes(v)

\* An open stream that has nothing left to receive shows what is playing: no
\* update falls between its first event and its listening, and the worker's
\* republish of a play brings back no other. Excepted are updates that ran at
\* once, which may be published in the other order; an update stored between
\* the worker's reading of what plays and its publishing of it, after which
\* the older play may come last; the newest update lost on its way; and the
\* stream so slow that closing messages for others pushed the newest update
\* out of its buffer.
ShowsWhatPlays ==
    \A v \in Viewers :
       /\ stream[v].at = "open" /\ stream[v].buffer = <<>> /\ bus = <<>>
       /\ \A p \in Players : player[p].at = "idle"
       /\ ~crossed /\ v \notin behind
       => stream[v].shows = playing

=============================================================================
