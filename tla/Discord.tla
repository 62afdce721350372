------------------------------- MODULE Discord -------------------------------
(* The Discord worker and the credentials on disk (providers/discord.rs). A   *)
(* session is opened with the stored access token of the account that Discord *)
(* runs under; a token near its end is exchanged first, which may spend the   *)
(* stored refresh token. The commands `--discord-authorize` and               *)
(* `--discord-clear-token` are processes of their own, with the same files.   *)
(*                                                                            *)
(* What happens in a session is in module DiscordChannel.                     *)
CONSTANTS Account, NoAccount

VARIABLES
    \* The dashboard and Discord.
    enabled,    \* provider_enabled of the settings in force
    changed,    \* the settings of the session are no longer in force
    shutdown,
    user,       \* the account Discord runs under, if it runs
    \* The credential files.
    stored,     \* what each account's file is worth
    \* The worker.
    at,         \* where it is
    ready,      \* the account of the first READY
    own,        \* the file is the one that was loaded (history)
    shown,      \* the account whose voice state was sent last
    \* --discord-authorize.
    step,       \* where it is
    asker,      \* the account of its first READY
    owner       \* the account that approved, whose token it holds

world == <<enabled, changed, shutdown, user>>
worker == <<at, ready, own, shown>>
command == <<step, asker, owner>>
vars == <<world, stored, worker, command>>

(* A file is absent, usable, or holds a refresh token the server does not     *)
(* take: one that has just been replaced, one whose successor is lost, or one *)
(* of another account. *)
Worth == {"none", "fresh", "spent", "lost", "foreign"}

Init ==
    /\ enabled \in BOOLEAN /\ changed = FALSE /\ shutdown = FALSE
    /\ user \in Account
    /\ stored = [a \in Account |-> "none"]
    /\ at = "loop" /\ ready = NoAccount /\ own = FALSE /\ shown = NoAccount
    /\ step = "off" /\ asker = NoAccount /\ owner = NoAccount

----------------------------------------------------------------------------
(* spawn: the loop of the worker.                                            *)

Ended ==
    /\ at = "loop" /\ shutdown
    /\ at' = "ended"
    /\ UNCHANGED <<world, stored, ready, own, shown, command>>

Disabled ==
    /\ at = "loop" /\ ~shutdown /\ ~enabled
    /\ changed' = FALSE /\ shown' = NoAccount
    /\ UNCHANGED <<enabled, shutdown, user, stored, at, ready, own, command>>

Connect ==
    /\ at = "loop" /\ ~shutdown /\ enabled
    /\ changed' = FALSE /\ at' = "open"
    /\ UNCHANGED <<enabled, shutdown, user, stored, ready, own, shown, command>>

(* Whatever error connect_and_serve returns. *)
Fail == at' = "failed" /\ ready' = NoAccount /\ own' = FALSE

(* It is reported, and after a pause there is another attempt. *)
Failed ==
    /\ at = "failed"
    /\ IF shutdown THEN at' = "ended" /\ UNCHANGED shown
       ELSE /\ at' = IF changed THEN "loop" ELSE "wait"
            /\ shown' = NoAccount
    /\ UNCHANGED <<world, stored, ready, own, command>>

Waited ==
    /\ at = "wait" /\ at' = "loop"
    /\ UNCHANGED <<world, stored, ready, own, shown, command>>

----------------------------------------------------------------------------
(* connect_and_serve.                                                        *)

(* A pipe of Discord is found and verified, and READY names the account. *)
Ready ==
    /\ at = "open" /\ user # NoAccount
    /\ ready' = user /\ at' = "load"
    /\ UNCHANGED <<world, stored, own, shown, command>>

LoadToken ==
    /\ at = "load" /\ stored[ready] # "none"
    /\ at' \in {"exchange", "authenticate"}
    /\ own' = TRUE
    /\ UNCHANGED <<world, stored, ready, shown, command>>

(* The stored refresh token buys a record, and may be spent by that. *)
Exchange ==
    /\ at = "exchange" /\ (own => stored[ready] = "fresh")
    /\ at' = "save"
    /\ \/ own /\ stored' = [stored EXCEPT ![ready] = "spent"]
       \/ UNCHANGED stored
    /\ UNCHANGED <<world, ready, own, shown, command>>

(* The server has answered, and the answer is lost, late or of no use. *)
ExchangeLost ==
    /\ at = "exchange" /\ own /\ stored[ready] = "fresh"
    /\ stored' = [stored EXCEPT ![ready] = "lost"]
    /\ Fail
    /\ UNCHANGED <<world, shown, command>>

(* Mutant: the record is kept in memory until Discord has accepted it. *)
PersistLater ==
    /\ at = "save" /\ at' = "reopen"
    /\ UNCHANGED <<world, stored, ready, own, shown, command>>

PersistRotatedRefresh ==
    /\ at = "save"
    /\ stored' = [stored EXCEPT ![ready] = "fresh"]
    /\ own' = TRUE /\ at' = "reopen"
    /\ UNCHANGED <<world, ready, shown, command>>

PersistFails ==
    /\ at = "save"
    /\ stored' = [stored EXCEPT ![ready] = IF @ = "spent" THEN "lost" ELSE @]
    /\ Fail
    /\ UNCHANGED <<world, shown, command>>

(* A second pipe, which must be of the same account. *)
Reopen ==
    /\ at = "reopen" /\ user = ready
    /\ at' = "authenticate"
    /\ UNCHANGED <<world, stored, ready, own, shown, command>>

(* The answer names the account of the token. *)
Authenticate ==
    /\ at = "authenticate" /\ ~(own /\ stored[ready] = "foreign")
    /\ at' = "serve"
    /\ UNCHANGED <<world, stored, ready, own, shown, command>>

Publish ==
    /\ at = "serve" /\ shown' = ready
    /\ UNCHANGED <<world, stored, at, ready, own, command>>

(* A pipe is not found, not verified, closed or does not answer as it should; *)
(* a file cannot be read or is of another application; the server refuses;    *)
(* the session is over, or is cancelled by shutdown or new settings. *)
Error ==
    /\ at \in {"open", "load", "exchange", "reopen", "authenticate", "serve"}
    /\ Fail
    /\ UNCHANGED <<world, stored, shown, command>>

Worker ==
    \/ Ended \/ Disabled \/ Connect \/ Failed \/ Waited
    \/ Ready \/ LoadToken \/ Exchange \/ ExchangeLost
    \/ PersistRotatedRefresh \/ PersistFails \/ Reopen \/ Authenticate \/ Publish
    \/ Error

----------------------------------------------------------------------------
(* authorize, clear_tokens_at.                                               *)

AskAuthorize ==
    /\ step = "off" /\ user # NoAccount
    /\ step' = "approve" /\ asker' = user
    /\ UNCHANGED <<world, stored, worker, owner>>

(* Whoever Discord runs under now approves; the code buys a record. *)
Approve ==
    /\ step = "approve" /\ user # NoAccount
    /\ step' = "reopen" /\ owner' = user
    /\ UNCHANGED <<world, stored, worker, asker>>

ReopenAuthorize ==
    /\ step = "reopen" /\ user = asker
    /\ step' = "authenticate"
    /\ UNCHANGED <<world, stored, worker, asker, owner>>

ValidateAuthentication ==
    /\ step = "authenticate" /\ owner = asker
    /\ step' = "save"
    /\ UNCHANGED <<world, stored, worker, asker, owner>>

NotAuthorized == step' = "off" /\ asker' = NoAccount /\ owner' = NoAccount

SaveAuthorized ==
    /\ step = "save"
    /\ stored' = [stored EXCEPT ![asker] = IF owner = asker THEN "fresh" ELSE "foreign"]
    /\ own' = (own /\ ready # asker)
    /\ NotAuthorized
    /\ UNCHANGED <<world, at, ready, shown>>

AuthorizeFails ==
    /\ step # "off" /\ NotAuthorized
    /\ UNCHANGED <<world, stored, worker>>

ClearToken(a) ==
    /\ stored[a] # "none" /\ stored' = [stored EXCEPT ![a] = "none"]
    /\ own' = (own /\ ready # a)
    /\ UNCHANGED <<world, at, ready, shown, command>>

Commands ==
    \/ AskAuthorize \/ Approve \/ ReopenAuthorize \/ ValidateAuthentication
    \/ SaveAuthorized \/ AuthorizeFails
    \/ \E a \in Account : ClearToken(a)

----------------------------------------------------------------------------
(* The dashboard and Discord.                                                *)

UpdateConfig ==
    /\ enabled' \in BOOLEAN /\ changed' = TRUE
    /\ UNCHANGED <<shutdown, user, stored, worker, command>>

Shutdown ==
    /\ ~shutdown /\ shutdown' = TRUE
    /\ UNCHANGED <<enabled, changed, user, stored, worker, command>>

(* The process dies and is started again. A record not yet saved is lost. *)
Crash ==
    /\ stored' = [a \in Account |-> IF stored[a] = "spent" THEN "lost" ELSE stored[a]]
    /\ at' = "loop" /\ ready' = NoAccount /\ own' = FALSE /\ shown' = NoAccount
    /\ shutdown' = FALSE /\ changed' = FALSE
    /\ UNCHANGED <<enabled, user, command>>

SwitchAccount ==
    /\ user' \in (Account \cup {NoAccount}) \ {user}
    /\ UNCHANGED <<enabled, changed, shutdown, stored, worker, command>>

Next == Worker \/ Commands \/ UpdateConfig \/ Shutdown \/ Crash \/ SwitchAccount

Spec == Init /\ [][Next]_vars

----------------------------------------------------------------------------
(* Properties.                                                               *)

TypeOK ==
    /\ {enabled, changed, shutdown, own} \subseteq BOOLEAN
    /\ {user, ready, shown, asker, owner} \subseteq Account \cup {NoAccount}
    /\ stored \in [Account -> Worth]
    /\ at \in {"loop", "open", "load", "exchange", "save", "reopen", "authenticate",
              "serve", "failed", "wait", "ended"}
    /\ step \in {"off", "approve", "reopen", "authenticate", "save"}

(* "OAuth refresh-token rotation may invalidate the old record before IPC     *)
(* validation" (persist_rotated_refresh): the time in which the only usable   *)
(* record is in memory ends before anything else is done, and a file is       *)
(* usable unless the exchange or the save failed. No file holds the token of  *)
(* an account other than its own, whoever approved (authorize). *)
TokenKept ==
    \A a \in Account :
        /\ stored[a] = "spent" => at = "save" /\ ready = a
        /\ stored[a] # "foreign"
=============================================================================
