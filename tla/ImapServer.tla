----------------------------- MODULE ImapServer -----------------------------
(***************************************************************************)
(* The mail server, as the client code in src/internal/mailconn sees it.   *)
(* The server is not part of the repository: only the commands the program *)
(* issues and what other mail clients may do meanwhile are modelled.       *)
(*                                                                         *)
(* A message is its RFC 822 text, a member of Body.  A mailbox holds at    *)
(* most one message per UID; UIDs are handed out in increasing order and   *)
(* never reused while UIDVALIDITY stays the same.                          *)
(***************************************************************************)
EXTENDS Naturals, FiniteSets

CONSTANTS
    Mailbox,        \* the selectable mailboxes of one account
    Body,           \* the distinct message texts
    NoBody,         \* "no message under this UID"
    MaxUid,         \* bound: UIDs per mailbox incarnation
    MaxValidity,    \* bound: 1 = mailboxes are never recreated
    ClientActs      \* what other mail clients do: part of {"delete", "flag"}

ASSUME ServerAssumption ==
    /\ Mailbox # {}
    /\ NoBody \notin Body
    /\ MaxUid \in Nat
    /\ MaxValidity \in Nat \ {0}
    /\ ClientActs \subseteq {"delete", "flag"}

VARIABLES
    uidValidity,    \* [Mailbox -> Nat]: the UIDVALIDITY of the mailbox
    msgs,           \* [Mailbox -> [Uid -> Body or NoBody]]
    flagged,        \* [Mailbox -> SUBSET Uid]: messages with the \Deleted flag
    uidNext         \* [Mailbox -> Nat]: the UID the next message gets

serverVars == <<uidValidity, msgs, flagged, uidNext>>

Uid == 1 .. MaxUid

(* What a variable that names a mailbox holds while it names none. *)
AnyMailbox == CHOOSE mb \in Mailbox : TRUE

ServerTypeOK ==
    /\ uidValidity \in [Mailbox -> 1 .. MaxValidity]
    /\ msgs \in [Mailbox -> [Uid -> Body \cup {NoBody}]]
    /\ flagged \in [Mailbox -> SUBSET Uid]
    /\ uidNext \in [Mailbox -> 1 .. MaxUid + 1]

(* The UIDs that hold a message: what UID SEARCH ALL returns. *)
Present(mb) == {u \in Uid : msgs[mb][u] # NoBody}

(* A session that selected mb when its UIDVALIDITY was v can still act on it: *)
(* a server closes the sessions of a mailbox that is deleted and recreated.   *)
SessionAlive(mb, v) == uidValidity[mb] = v

-----------------------------------------------------------------------------
(* Commands the program issues. *)

(* UID FETCH n:* returns the messages at n and above and, when there is none, *)
(* the message with the highest UID: "n:*" names the same range as "*:n".     *)
FromUid(mb, n) ==
    {u \in Present(mb) : u >= n \/ \A w \in Present(mb) : w <= u}

CanAppend(mb) == uidNext[mb] <= MaxUid

(* APPEND or a delivery: text b arrives in mb, with the \Deleted flag or without. *)
AppendMessage(mb, b, deleted) ==
    /\ CanAppend(mb)
    /\ msgs' = [msgs EXCEPT ![mb][uidNext[mb]] = b]
    /\ flagged' = [flagged EXCEPT ![mb] = IF deleted THEN @ \cup {uidNext[mb]} ELSE @]
    /\ uidNext' = [uidNext EXCEPT ![mb] = @ + 1]
    /\ UNCHANGED uidValidity

(* COPY of one message: the copy has the flags of the original. *)
CopyMessage(mb, u, target) == AppendMessage(target, msgs[mb][u], u \in flagged[mb])

(* MOVE of one message, with its flags (RFC 6851 makes each message atomic, *)
(* not the set).                                                            *)
MoveMessage(mb, u, target) ==
    /\ CanAppend(target)
    /\ msgs' = [[msgs EXCEPT ![target][uidNext[target]] = msgs[mb][u]]
                     EXCEPT ![mb][u] = NoBody]
    /\ flagged' = [[flagged EXCEPT ![target] =
                        IF u \in flagged[mb] THEN @ \cup {uidNext[target]} ELSE @]
                        EXCEPT ![mb] = @ \ {u}]
    /\ uidNext' = [uidNext EXCEPT ![target] = @ + 1]
    /\ UNCHANGED uidValidity

(* UID STORE +FLAGS (\Deleted): UIDs that name no message are ignored. *)
StoreDeleted(mb, uids) ==
    /\ flagged' = [flagged EXCEPT ![mb] = @ \cup (uids \cap Present(mb))]
    /\ UNCHANGED <<uidValidity, msgs, uidNext>>

(* EXPUNGE: every message of the mailbox that has the flag goes, whoever set it. *)
ExpungeFlagged(mb) ==
    /\ msgs' = [msgs EXCEPT ![mb] =
                   [u \in Uid |-> IF u \in flagged[mb] THEN NoBody ELSE @[u]]]
    /\ flagged' = [flagged EXCEPT ![mb] = {}]
    /\ UNCHANGED <<uidValidity, uidNext>>

-----------------------------------------------------------------------------
(* What happens on the server without the program. *)

Deliver(mb, b) == AppendMessage(mb, b, FALSE)

(* Another client deletes and expunges one message. *)
ClientDelete(mb, u) ==
    /\ "delete" \in ClientActs
    /\ u \in Present(mb)
    /\ msgs' = [msgs EXCEPT ![mb][u] = NoBody]
    /\ flagged' = [flagged EXCEPT ![mb] = @ \ {u}]
    /\ UNCHANGED <<uidValidity, uidNext>>

(* Another client flags a message \Deleted and expunges later, or never. *)
ClientFlag(mb, u) ==
    /\ "flag" \in ClientActs
    /\ u \in Present(mb) \ flagged[mb]
    /\ flagged' = [flagged EXCEPT ![mb] = @ \cup {u}]
    /\ UNCHANGED <<uidValidity, msgs, uidNext>>

(* Another client takes the \Deleted flag of a message back. *)
ClientUnflag(mb, u) ==
    /\ "flag" \in ClientActs
    /\ u \in flagged[mb]
    /\ flagged' = [flagged EXCEPT ![mb] = @ \ {u}]
    /\ UNCHANGED <<uidValidity, msgs, uidNext>>

(* The mailbox is deleted and created again (or restored by the provider): *)
(* a new UIDVALIDITY, and UIDs start over.                                 *)
Recreate(mb) ==
    /\ uidValidity[mb] < MaxValidity
    /\ uidValidity' = [uidValidity EXCEPT ![mb] = @ + 1]
    /\ msgs' = [msgs EXCEPT ![mb] = [u \in Uid |-> NoBody]]
    /\ flagged' = [flagged EXCEPT ![mb] = {}]
    /\ uidNext' = [uidNext EXCEPT ![mb] = 1]

ServerInit ==
    /\ uidValidity = [mb \in Mailbox |-> 1]
    /\ msgs = [mb \in Mailbox |-> [u \in Uid |-> NoBody]]
    /\ flagged = [mb \in Mailbox |-> {}]
    /\ uidNext = [mb \in Mailbox |-> 1]

ServerNext ==
    \E mb \in Mailbox :
        \/ \E b \in Body : Deliver(mb, b)
        \/ \E u \in Uid : ClientDelete(mb, u) \/ ClientFlag(mb, u) \/ ClientUnflag(mb, u)
        \/ Recreate(mb)
=============================================================================
