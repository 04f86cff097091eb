---------------------------- MODULE NoiseSessions ----------------------------
(***************************************************************************)
(* SessionManager (network/security.rs): a table of Noise XX sessions by   *)
(* address, opened by whichever of wrap and unwrap comes first.            *)
(*                                                                         *)
(* The handshake itself is that of the snow crate.  Its three messages are *)
(* written by the initiator, the responder and the initiator again; next   *)
(* is the number of the one that is due.  The first is sent before there   *)
(* is a key: any bytes pass for it that are long enough for a public key   *)
(* and leave no more payload than fits the buffer.  The others pass only   *)
(* if the other side of the handshake wrote them.                          *)
(*                                                                         *)
(* A datagram is a record [from, kind, number, content, fits]; a table a   *)
(* function from addresses to sessions [role, next, active, used].         *)
(***************************************************************************)
EXTENDS Integers, FiniteSets

CONSTANTS
  SessionMax,   \* SESSION_MAX_COUNT
  SessionTtl,   \* SESSION_TTL_SECS
  NoContent     \* what is left of a handshake message: no envelope

ASSUME SessionAssumption == SessionMax \in Nat /\ SessionTtl \in Nat

Fresh(role, now) == [role |-> role, next |-> 1, active |-> FALSE, used |-> now]

MyTurn(s) == s.next <= 3 /\ (s.role = "initiator" <=> s.next \in {1, 3})

Readable(s, d) ==
  IF s.active THEN d.kind = "transport"
  ELSE /\ s.next <= 3 /\ ~MyTurn(s)
       /\ \/ s.next = 1 /\ d.fits
          \/ s.next > 1 /\ d.kind = "handshake" /\ d.number = s.next

Restricted(sessions, kept) == [a \in kept |-> sessions[a]]

(* evict_stale, before the address at hand is looked up: the expired ones, *)
(* and then the oldest until SessionMax are left.                          *)
EvictStale(sessions, now) ==
  LET live == {a \in DOMAIN sessions : now - sessions[a].used < SessionTtl}
      left == IF Cardinality(live) > SessionMax THEN SessionMax ELSE Cardinality(live)
  IN  {Restricted(sessions, kept) : kept \in
         {K \in SUBSET live : /\ Cardinality(K) = left
                              /\ \A a \in K, b \in live \ K : sessions[a].used >= sessions[b].used}}

(* entry(peer).or_insert_with(...), last_used = now.                       *)
Touched(sessions, addr, role, now) ==
  [a \in DOMAIN sessions \cup {addr} |->
     IF a # addr THEN sessions[a]
     ELSE [(IF a \in DOMAIN sessions THEN sessions[a] ELSE Fresh(role, now)) EXCEPT !.used = now]]

(* wrap: the table it leaves and what it hands out to be sent.  A          *)
(* handshake that wrote its last message is not turned into a transport.   *)
Wrap(sessions, addr, me, content, now) ==
  {LET open == Touched(kept, addr, "initiator", now)
       s == open[addr]
   IN  IF s.active
       THEN [sessions |-> open, sent |-> {[from |-> me, kind |-> "transport", number |-> 0,
                                           content |-> content, fits |-> TRUE]}]
       ELSE IF MyTurn(s)
       THEN [sessions |-> [open EXCEPT ![addr].next = @ + 1],
             sent |-> {[from |-> me, kind |-> "handshake", number |-> s.next,
                        content |-> NoContent, fits |-> TRUE]}]
       ELSE [sessions |-> open, sent |-> {}] :
   kept \in EvictStale(sessions, now)}

(* unwrap: the table it leaves and the plain bytes it returns, if any.     *)
(* What is read as a handshake message returns the rest of its bytes,      *)
(* which is no envelope.                                                   *)
Unwrap(sessions, d, now) ==
  {LET open == Touched(kept, d.from, "responder", now)
       s == open[d.from]
   IN  IF ~Readable(s, d)
       THEN [sessions |-> open, opened |-> d.from \notin DOMAIN kept, plain |-> {}]
       ELSE IF s.active
       THEN [sessions |-> open, opened |-> FALSE, plain |-> {d.content}]
       ELSE [sessions |-> [open EXCEPT ![d.from].next = @ + 1, ![d.from].active = s.next = 3],
             opened |-> d.from \notin DOMAIN kept, plain |-> {NoContent}] :
   kept \in EvictStale(sessions, now)}
=============================================================================
