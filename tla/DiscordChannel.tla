---------------------------- MODULE DiscordChannel ----------------------------
(* A Discord session after its account is authenticated (providers/discord.rs)*)
(* : the worker watches the account, follows the selected voice channel and   *)
(* publishes what it knows. It sends one command at a time and handles the    *)
(* events that arrive before the answer. The pipe keeps the order, and its    *)
(* packets are whole (when they are is in DiscordPipe).                       *)
EXTENDS Naturals, Sequences

CONSTANTS
    Channel, NoChannel,     \* voice channels
    MaxInbox                \* bound: messages in the pipe

VARIABLES
    \* Discord.
    same,       \* it runs under the account of the session
    selected,   \* its voice channel
    feeds,      \* what it sends events of: the account, selections, channels
    missed,     \* the selection changed unseen since the last query (history)
    asked,      \* the commands it has not answered
    inbox,      \* what it has sent and the worker has not read
    \* Rpc.
    at,         \* the answer the worker waits for, or where it is
    first,      \* the initial refresh_channel is under way
    round,      \* rounds of refresh_channel that are left
    channel,    \* state.channel_id
    channelSubscribed, globalSubscribed, pendingRefresh, accountChanged,
    failed,     \* the last refresh_channel has failed (history)
    shown       \* a connected state was published last

discord == <<same, selected, feeds, missed>>
pipe == <<asked, inbox>>
tracker == <<channel, channelSubscribed, globalSubscribed>>
rpc == <<at, first, round, tracker, pendingRefresh, accountChanged, failed, shown>>
vars == <<discord, pipe, rpc>>

Event(e) == [kind |-> e, of |-> "event", channel |-> NoChannel]
Answer(k, c, result) == [kind |-> result, of |-> k, channel |-> c]
Command(k, c) == [kind |-> k, channel |-> c]

(* AUTHENTICATE has been answered; the account's events are asked for. *)
Start ==
    /\ same' = TRUE /\ feeds' = {} /\ missed' = FALSE
    /\ asked' = <<Command("monitor", NoChannel)>> /\ inbox' = <<>>
    /\ at' = "monitor" /\ first' = TRUE /\ round' = 0
    /\ channel' = NoChannel /\ channelSubscribed' = NoChannel
    /\ globalSubscribed' = FALSE /\ pendingRefresh' = FALSE
    /\ accountChanged' = FALSE /\ failed' = FALSE /\ shown' = FALSE

Init ==
    /\ same = TRUE /\ selected \in Channel \cup {NoChannel} /\ feeds = {} /\ missed = FALSE
    /\ asked = <<>> /\ inbox = <<>>
    /\ at = "ended" /\ first = TRUE /\ round = 0
    /\ channel = NoChannel /\ channelSubscribed = NoChannel
    /\ globalSubscribed = FALSE /\ pendingRefresh = FALSE
    /\ accountChanged = FALSE /\ failed = FALSE /\ shown = FALSE

----------------------------------------------------------------------------
(* Discord.                                                                  *)

Notify(feed, e) ==
    inbox' = IF feed \in feeds THEN Append(inbox, Event(e)) ELSE inbox

SelectChannel(c) ==
    /\ at # "ended" /\ Len(inbox) < MaxInbox /\ c # selected /\ selected' = c
    /\ Notify("select", "VOICE_CHANNEL_SELECT")
    /\ missed' = (missed \/ "select" \notin feeds)
    /\ UNCHANGED <<same, feeds, asked, rpc>>

SwitchAccount ==
    /\ at # "ended" /\ Len(inbox) < MaxInbox /\ same /\ same' = FALSE
    /\ Notify("account", "CURRENT_USER_UPDATE")
    /\ UNCHANGED <<selected, feeds, missed, asked, rpc>>

(* Somebody in a channel speaks, mutes, comes or goes. *)
Voice ==
    /\ at # "ended" /\ Len(inbox) < MaxInbox /\ feeds \cap Channel # {}
    /\ inbox' = Append(inbox, Event("VOICE"))
    /\ UNCHANGED <<discord, asked, rpc>>

(* What the command changes. A refused one may have been carried out in part. *)
Effect(k, c) ==
    CASE k = "monitor" -> feeds \cup {"account"}
      [] k = "global" -> feeds \cup {"select"}
      [] k = "unsubscribe" -> feeds \ {c}
      [] k = "subscribe" -> feeds \cup {c}
      [] OTHER -> feeds

AnswerCommand ==
    /\ asked # <<>> /\ asked' = Tail(asked)
    /\ LET k == Head(asked).kind
           effect == Effect(k, Head(asked).channel)
       IN  \/ /\ feeds' = effect
              /\ missed' = (missed /\ k # "get")
              /\ inbox' = Append(inbox, Answer(k, selected, "ok"))
           \/ /\ feeds' \in {feeds, effect}
              /\ inbox' = Append(inbox, Answer(k, selected, "ERROR"))
              /\ UNCHANGED missed
    /\ UNCHANGED <<same, selected, rpc>>

----------------------------------------------------------------------------
(* refresh_channel.                                                          *)

Send(k, c) == at' = k /\ asked' = Append(asked, Command(k, c))

Publish == shown' = TRUE

BeginRound == pendingRefresh' = FALSE /\ Send("get", NoChannel)

(* The state is published; a selection that arrived meanwhile is looked up in *)
(* a round of its own, of which there are three. *)
EndRound ==
    /\ Publish
    /\ IF pendingRefresh /\ round > 0
       THEN /\ BeginRound /\ round' = round - 1
            /\ UNCHANGED <<first, failed>>
       ELSE /\ at' = "serve" /\ round' = 0 /\ first' = FALSE
            /\ failed' = pendingRefresh
            /\ UNCHANGED <<pendingRefresh, asked>>

(* The events of the channel before are no longer wanted, those of this are.  *)
FollowChannel(subscribed) ==
    IF subscribed # NoChannel /\ subscribed # channel'
    THEN Send("unsubscribe", subscribed) /\ UNCHANGED <<first, round, pendingRefresh, failed, shown>>
    ELSE IF channel' # NoChannel /\ subscribed # channel'
    THEN Send("subscribe", channel') /\ UNCHANGED <<first, round, pendingRefresh, failed, shown>>
    ELSE EndRound

(* An error other than a change of the account ends the refresh and is        *)
(* swallowed; only the initial refresh publishes nothing then.                *)
GiveUp ==
    /\ at' = "serve" /\ round' = 0 /\ first' = FALSE /\ failed' = TRUE
    /\ shown' = (shown \/ ~first)
    /\ UNCHANGED <<asked, pendingRefresh>>

(* connect_and_serve returns and the worker takes the published state back. *)
EndSession ==
    /\ at' = "ended" /\ shown' = FALSE /\ asked' = <<>> /\ inbox' = <<>>
    /\ UNCHANGED <<discord, first, round, tracker, pendingRefresh, failed>>

Monitored ==
    /\ BeginRound /\ round' = 2
    /\ UNCHANGED <<first, tracker, failed, shown>>

GotChannel(c) ==
    /\ channel' = c
    /\ IF globalSubscribed
       THEN FollowChannel(channelSubscribed)
       ELSE Send("global", NoChannel) /\ UNCHANGED <<first, round, pendingRefresh, failed, shown>>
    /\ UNCHANGED <<channelSubscribed, globalSubscribed>>

Subscribed(k) ==
    /\ UNCHANGED channel
    /\ \/ /\ k = "global" /\ globalSubscribed' = TRUE
          /\ UNCHANGED channelSubscribed /\ FollowChannel(channelSubscribed)
       \/ /\ k = "unsubscribe" /\ channelSubscribed' = NoChannel
          /\ UNCHANGED globalSubscribed /\ FollowChannel(NoChannel)
       \/ /\ k = "subscribe" /\ channelSubscribed' = channel
          /\ UNCHANGED globalSubscribed /\ EndRound

----------------------------------------------------------------------------
(* command: messages are read until the answer arrives.                      *)

Waiting == {"monitor", "get", "global", "unsubscribe", "subscribe"}

ReadAnswer ==
    /\ at \in Waiting /\ inbox # <<>> /\ Head(inbox).of = at
    /\ inbox' = Tail(inbox)
    /\ IF Head(inbox).kind = "ok" \/ at = "unsubscribe"
       THEN CASE at = "monitor" -> Monitored
              [] at = "get" -> GotChannel(Head(inbox).channel)
              [] OTHER -> Subscribed(at)
       ELSE at # "monitor" /\ GiveUp /\ UNCHANGED tracker
    /\ UNCHANGED <<discord, accountChanged>>

(* The answer of an earlier command. *)
SkipAnswer ==
    /\ at # "ended" /\ inbox # <<>> /\ Head(inbox).of \notin {at, "event"}
    /\ inbox' = Tail(inbox)
    /\ UNCHANGED <<discord, asked, rpc>>

(* Mutant: a selection that arrives before an answer leads to no refresh. *)
ForgetSelection ==
    /\ at \in Waiting /\ inbox # <<>> /\ Head(inbox).kind = "VOICE_CHANNEL_SELECT"
    /\ inbox' = Tail(inbox)
    /\ Publish
    /\ UNCHANGED <<discord, asked, at, first, round, tracker, pendingRefresh,
                   accountChanged, failed>>

NoteSelection ==
    /\ at \in Waiting /\ inbox # <<>> /\ Head(inbox).kind = "VOICE_CHANNEL_SELECT"
    /\ inbox' = Tail(inbox)
    /\ pendingRefresh' = TRUE /\ Publish
    /\ UNCHANGED <<discord, asked, at, first, round, tracker, accountChanged, failed>>

NoteVoice ==
    /\ at \in Waiting \cup {"serve"} /\ inbox # <<>> /\ Head(inbox).kind = "VOICE"
    /\ inbox' = Tail(inbox) /\ Publish
    /\ UNCHANGED <<discord, asked, at, first, round, tracker, pendingRefresh,
                   accountChanged, failed>>

(* handle_event: the state is taken back and the command fails, unless it is  *)
(* one whose result is not looked at. *)
AccountChanged ==
    /\ at # "ended" /\ inbox # <<>> /\ Head(inbox).kind = "CURRENT_USER_UPDATE"
    /\ accountChanged' = TRUE
    /\ IF at = "unsubscribe"
       THEN /\ inbox' = Tail(inbox)
            /\ channelSubscribed' = NoChannel
            /\ UNCHANGED <<discord, channel, globalSubscribed>>
            /\ IF channel # NoChannel
               THEN /\ Send("subscribe", channel) /\ shown' = FALSE
                    /\ UNCHANGED <<first, round, pendingRefresh, failed>>
               ELSE EndRound
       ELSE EndSession

(* The loop of connect_and_serve. *)
Serve ==
    /\ at = "serve" /\ inbox # <<>> /\ Head(inbox).kind = "VOICE_CHANNEL_SELECT"
    /\ inbox' = Tail(inbox)
    /\ BeginRound /\ round' = 2
    /\ UNCHANGED <<discord, first, tracker, accountChanged, failed, shown>>

(* The pipe is closed, an answer is refused that must not be, or the session  *)
(* is cancelled. *)
Disconnect ==
    /\ at # "ended" /\ EndSession /\ UNCHANGED accountChanged

Reconnect ==
    /\ at = "ended" /\ Start /\ UNCHANGED selected

Next ==
    \/ SwitchAccount \/ Voice \/ AnswerCommand
    \/ \E c \in Channel \cup {NoChannel} : SelectChannel(c)
    \/ ReadAnswer \/ SkipAnswer \/ NoteSelection \/ NoteVoice \/ AccountChanged \/ Serve
    \/ Disconnect \/ Reconnect

Spec == Init /\ [][Next]_vars

----------------------------------------------------------------------------
(* Properties.                                                               *)

TypeOK ==
    /\ {same, missed, first, globalSubscribed, pendingRefresh, accountChanged, failed,
        shown} \subseteq BOOLEAN
    /\ {selected, channel, channelSubscribed} \subseteq Channel \cup {NoChannel}
    /\ feeds \subseteq {"account", "select"} \cup Channel
    /\ at \in Waiting \cup {"serve", "ended"} /\ Len(asked) <= 2
    /\ Len(inbox) <= MaxInbox + 2 /\ round \in 0..2

(* When the worker has read all there is, what it shows is of the channel     *)
(* that is selected, and it is told of that channel's events: no selection is *)
(* forgotten, in whatever order it and the answers arrive. Left out are a     *)
(* refresh that failed, which nothing repeats, and a selection between the    *)
(* first query and the subscription, which Discord does not report.           *)
ChannelFollowed ==
    at = "serve" /\ inbox = <<>> /\ ~failed /\ ~missed =>
        /\ channel = selected /\ channelSubscribed = selected
        /\ selected # NoChannel => selected \in feeds

(* "Switch accounts and confirm only the active account's voice state         *)
(* appears" (HARDWARE-ACCEPTANCE.md): once the worker has read that the       *)
(* account has changed, nothing more of this session is shown. *)
OnlyActiveAccount == accountChanged => ~shown
=============================================================================
