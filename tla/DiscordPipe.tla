----------------------------- MODULE DiscordPipe -----------------------------
(* The named pipe to Discord (providers/discord.rs): which of the pipes is    *)
(* taken, the check of the program behind it, and packets over overlapped     *)
(* transfers that may be short, be cancelled or run out of time. The session  *)
(* and `--discord-authorize` use it alike. What the packets say is in the     *)
(* modules Discord and DiscordChannel.                                        *)
(*                                                                            *)
(* The header of a packet is one byte here, and a body is its length.         *)
EXTENDS Naturals

CONSTANTS
    MaxPipe,    \* pipes discord-ipc-0 .. discord-ipc-MaxPipe are tried
    MaxFrame    \* MAX_FRAME

VARIABLES
    at,         \* where the caller is
    index,      \* the pipe that is tried
    server,     \* the program behind the pipe that is open
    refreshing, \* the packets are those of refresh_channel
    swallowed,  \* an error on this pipe was dropped: a history variable
    verifier,   \* AUTHENTICODE_ACTIVE: a thread verifies a signature, and
                \* whether its caller still waits
    io,         \* the transfer on the stack, as the driver has it
    moved,      \* bytes it moved
    sent,       \* bytes of the last packet in the pipe to Discord
    incoming,   \* length of the body of the packet that Discord sent
    got,        \* bytes of it that were taken from the pipe
    length      \* length that was read from its header

peer == <<server, refreshing, swallowed>>
place == <<at, index, peer>>
driver == <<io, moved>>
stream == <<sent, incoming, got, length>>
vars == <<place, verifier, driver, stream>>

Header == 1
Bodies == 0..MaxFrame + 1
Server ==
    [session : BOOLEAN, user : BOOLEAN, local : BOOLEAN, name : BOOLEAN,
     publisher : {"unsigned", "another", "Discord Inc."}]
NoServer ==
    [session |-> FALSE, user |-> FALSE, local |-> FALSE, name |-> FALSE,
     publisher |-> "none"]

Init ==
    /\ at = "closed" /\ index = 0 /\ server = NoServer
    /\ refreshing = FALSE /\ swallowed = FALSE
    /\ verifier = "idle"
    /\ io = "none" /\ moved = 0
    /\ sent = 0 /\ incoming = 0 /\ got = 0 /\ length = 0

(* Drop for Pipe: whatever is on its way in it is lost. *)
Close(place_) ==
    /\ at' = place_ /\ server' = NoServer
    /\ refreshing' = FALSE /\ swallowed' = FALSE
    /\ sent' = 0 /\ incoming' = 0 /\ got' = 0 /\ length' = 0

----------------------------------------------------------------------------
(* open_pipe and verify_pipe.                                                *)

OpenPipe ==
    /\ at = "closed"
    /\ at' = "open" /\ index' = 0
    /\ UNCHANGED <<peer, verifier, driver, stream>>

(* Whoever made the pipe of that name first serves it. *)
TryPipe ==
    /\ at = "open" /\ index <= MaxPipe
    /\ \/ server' \in Server /\ at' = "identity" /\ UNCHANGED index
       \/ index' = index + 1 /\ UNCHANGED <<at, server>>
    /\ UNCHANGED <<refreshing, swallowed, verifier, driver, stream>>

NoPipe ==
    /\ at = "open" /\ index > MaxPipe
    /\ at' = "closed" /\ index' = 0
    /\ UNCHANGED <<peer, verifier, driver, stream>>

Reject ==
    /\ Close("open") /\ index' = index + 1

(* same_process_user. *)
SameUser(s) == s.user
(* canonical_process_image: a file of a fixed drive, or an error. *)
LocalImage(s) == s.local
(* verify_authenticode: the organization, when there is a valid signature. *)
Signed(s) == s.publisher \notin {"none", "unsigned"}

(* validate_pipe_identity. *)
Validated(s) ==
    /\ s.session /\ SameUser(s) /\ LocalImage(s) /\ s.name
    /\ Signed(s) /\ s.publisher = "Discord Inc."

(* A pipe whose server cannot be inspected is rejected. The other criteria    *)
(* are judged when its signature is known. *)
Identify ==
    /\ at = "identity"
    /\ \/ LocalImage(server) /\ at' = "signature" /\ UNCHANGED <<index, peer, stream>>
       \/ Reject
    /\ UNCHANGED <<verifier, driver>>

(* verify_authenticode_bounded: one thread at a time, and none while an       *)
(* earlier one has not returned. *)
StartVerifier ==
    /\ at = "signature"
    /\ IF verifier = "idle"
       THEN verifier' = "awaited" /\ at' = "verifying" /\ UNCHANGED <<index, peer, stream>>
       ELSE Reject /\ UNCHANGED verifier
    /\ UNCHANGED driver

Verified ==
    /\ at = "verifying" /\ verifier = "awaited"
    /\ verifier' = "idle"
    /\ IF Validated(server)
       THEN at' = "ready" /\ UNCHANGED <<index, peer, stream>>
       ELSE Reject
    /\ UNCHANGED driver

VerifierTimesOut ==
    /\ at = "verifying"
    /\ verifier' = "late" /\ Reject
    /\ UNCHANGED driver

(* The answer of one that is late is dropped. *)
VerifierEnds ==
    /\ verifier = "late"
    /\ verifier' = "idle"
    /\ UNCHANGED <<place, driver, stream>>

----------------------------------------------------------------------------
(* refresh_channel, of a session: many packets of both kinds. *)

BeginRefresh ==
    /\ at = "ready" /\ ~refreshing
    /\ refreshing' = TRUE
    /\ UNCHANGED <<at, index, server, swallowed, verifier, driver, stream>>

EndRefresh ==
    /\ at = "ready" /\ refreshing
    /\ refreshing' = FALSE
    /\ UNCHANGED <<at, index, server, swallowed, verifier, driver, stream>>

(* An error ends the session or the command, but for two: that of an          *)
(* UNSUBSCRIBE is dropped and the refresh goes on; another of a refresh ends  *)
(* it, and the session goes on with the same pipe, unless the account has     *)
(* changed. `out` and `in` are the bytes that have gone through the pipe.     *)
Error(out, in) ==
    \/ Close("failed")
    \/ /\ refreshing
       /\ at' = "ready" /\ refreshing' \in BOOLEAN /\ swallowed' = TRUE
       /\ sent' = out /\ got' = in
       /\ UNCHANGED <<server, incoming, length>>

----------------------------------------------------------------------------
(* write_packet, read_packet. A body that is too long is not sent. Behind a   *)
(* packet that was left in the middle, a header may say anything.             *)

BeginWrite ==
    /\ at = "ready"
    /\ at' = "write" /\ sent' = 0
    /\ UNCHANGED <<index, peer, verifier, driver, incoming, got, length>>

BeginRead ==
    /\ at = "ready"
    /\ at' = "header" /\ got' = 0 /\ length' = 0
    /\ incoming' \in Bodies
    /\ UNCHANGED <<index, peer, verifier, driver, sent>>

Transfer == {"write", "header", "body"}

(* The packet that is written has one byte after its header. *)
Wanted ==
    CASE at = "write" -> Header + 1 - sent
      [] at = "header" -> Header
      [] at = "body" -> Header + length - got

(* write_some, read_some: pending, or ended at once. *)
StartTransfer ==
    /\ at \in Transfer /\ io = "none"
    /\ \/ io' = "pending" /\ moved' = 0
       \/ io' = "done" /\ moved' \in 1..Wanted
    /\ UNCHANGED <<place, verifier, stream>>

Packet(read) ==
    IF read > MaxFrame THEN Error(sent, Header)
    ELSE /\ at' = IF read = 0 THEN "ready" ELSE "body"
         /\ length' = read
         /\ got' = Header
         /\ UNCHANGED <<peer, sent, incoming>>

(* Mutant: what came of the body is taken for the body. *)
CompletedShort ==
    /\ io = "done"
    /\ io' = "none" /\ moved' = 0
    /\ CASE at = "write" ->
              /\ sent' = sent + moved
              /\ at' = IF sent' = Header + 1 THEN "ready" ELSE "write"
              /\ UNCHANGED <<peer, incoming, got, length>>
         [] at = "header" -> Packet(incoming)
         [] at = "body" ->
              /\ got' = got + moved /\ at' = "ready"
              /\ UNCHANGED <<peer, sent, incoming, length>>
    /\ UNCHANGED <<index, verifier>>

(* transfer_all and read_exact go on until all is moved. *)
Completed ==
    /\ io = "done"
    /\ io' = "none" /\ moved' = 0
    /\ CASE at = "write" ->
              /\ sent' = sent + moved
              /\ at' = IF sent' = Header + 1 THEN "ready" ELSE "write"
              /\ UNCHANGED <<peer, incoming, got, length>>
         [] at = "header" -> Packet(incoming)
         [] at = "body" ->
              /\ got' = got + moved
              /\ at' = IF got' = Header + length THEN "ready" ELSE "body"
              /\ UNCHANGED <<peer, sent, incoming, length>>
    /\ UNCHANGED <<index, verifier>>

(* The caller is cancelled, by the end of its time, of the program or of the  *)
(* settings; or the wait fails. *)
Cancel ==
    /\ io = "pending"
    /\ io' = "cancelled"
    /\ UNCHANGED <<place, verifier, moved, stream>>

(* The error of a transfer that moved n bytes. *)
TransferError(n) ==
    IF at = "write" THEN Error(sent + n, got) ELSE Error(sent, got + n)

(* cancel_and_drain: the transfer may yet have moved something, which the     *)
(* caller does not learn. *)
Drained ==
    /\ io = "ended"
    /\ io' = "none" /\ moved' = 0
    /\ TransferError(moved)
    /\ UNCHANGED <<index, verifier>>

(* The driver refuses, the pipe is closed, or the caller is cancelled between *)
(* two transfers. *)
TransferFails ==
    /\ at \in Transfer /\ io \in {"none", "done"}
    /\ io' = "none" /\ moved' = 0
    /\ \E n \in {0, moved} : TransferError(n)
    /\ UNCHANGED <<index, verifier>>

(* The session or the command is over; the next one opens anew. *)
EndSession ==
    /\ at \in {"ready", "failed"}
    /\ Close("closed")
    /\ UNCHANGED <<index, verifier, driver>>

IoEnds ==
    /\ io \in {"pending", "cancelled"}
    /\ io' = IF io = "pending" THEN "done" ELSE "ended"
    /\ moved' \in IF io = "pending" THEN 1..Wanted ELSE 0..Wanted
    /\ UNCHANGED <<place, verifier, stream>>

Next ==
    \/ OpenPipe \/ TryPipe \/ NoPipe \/ Identify
    \/ StartVerifier \/ Verified \/ VerifierTimesOut \/ VerifierEnds
    \/ BeginRefresh \/ EndRefresh \/ BeginWrite \/ BeginRead
    \/ StartTransfer \/ Completed \/ Cancel \/ Drained \/ TransferFails
    \/ EndSession \/ IoEnds

Spec == Init /\ [][Next]_vars

----------------------------------------------------------------------------
(* Properties.                                                               *)

TypeOK ==
    /\ at \in {"closed", "open", "identity", "signature", "verifying", "ready",
               "failed"} \cup Transfer
    /\ refreshing \in BOOLEAN /\ swallowed \in BOOLEAN
    /\ index \in 0..MaxPipe + 1 /\ server \in Server \cup {NoServer}
    /\ verifier \in {"idle", "awaited", "late"}
    /\ io \in {"none", "pending", "done", "cancelled", "ended"}
    /\ moved \in 0..Header + MaxFrame
    /\ sent \in 0..Header + 1 /\ incoming \in Bodies /\ length \in 0..MaxFrame
    /\ got \in 0..Header + MaxFrame

(* Whenever the caller may begin another packet, the last one was written or  *)
(* read to its end, so that both sides read the pipe in step (transfer_all,   *)
(* read_exact), as long as no error on this pipe was swallowed. After one     *)
(* that was (discord.rs:1972, 2089-2094, 2110-2115) the next packet may begin *)
(* within the last one. In either case the driver has no transfer whose call  *)
(* has returned (cancel_and_drain), and whoever is spoken to was found to be  *)
(* Discord, by a verification of its own program and not by one that came     *)
(* late (verify_authenticode_bounded).                                        *)
InStep ==
    /\ at = "ready" /\ ~swallowed =>
          /\ sent \in {0, Header + 1}
          /\ got \in {0, Header + incoming}
    /\ at \notin Transfer => io = "none"
    /\ at \in Transfer \cup {"ready"} => Validated(server)
    /\ at = "verifying" <=> verifier = "awaited"
=============================================================================
