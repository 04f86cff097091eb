---------------------------- MODULE GossipIngress ----------------------------
(***************************************************************************)
(* GossipNetwork of one node (network/mod.rs): the loop of listen, which   *)
(* takes datagrams through the rate limit, the circuit breaker, the Noise  *)
(* session, the parser, the TTL check, the duplicate filter and the        *)
(* signature check, and hands them to the dispatcher over a bounded        *)
(* channel; and broadcast, by this node and its peers.                     *)
(*                                                                         *)
(* UDP may lose, repeat and reorder what is sent.  Clients send signed     *)
(* envelopes as they are, as benchmarks/bench_system.py does to nodes that *)
(* do not require Noise.                                                   *)
(***************************************************************************)
EXTENDS NoiseSessions, Sequences

CONSTANTS
  Clients,           \* addresses that send raw envelopes
  Peers,             \* addresses of nodes, which broadcast
  Me,                \* the address of this node, one of them
  Everyone,          \* the broadcast address
  Ip(_),             \* the ip of an address
  Signed(_, _),      \* Identity::sign: the envelope a node makes of these data
  Envelopes,         \* what clients send: [sig, ttl, genuine, fits]
  NoiseModes,        \* the values of noise_required
  FilterSize,        \* GOSSIP_LRU_SIZE
  Permits,           \* NETWORK_BACKPRESSURE_LIMIT
  ChannelSize,       \* of the channel to the dispatcher
  FailureThreshold,  \* PEER_FAILURE_THRESHOLD
  Rate, Burst,       \* peer_rate_limit, per Second, and peer_rate_burst
  Second,            \* in units of the clock
  MaxTime            \* bound: the clock

ASSUME NetworkAssumption ==
  /\ Me \in Peers /\ NoiseModes \subseteq BOOLEAN
  /\ Everyone \notin Clients \cup Peers   \* no datagram comes from the broadcast address
  /\ {FilterSize, Permits, ChannelSize, FailureThreshold, Rate, Burst, Second} \subseteq Nat \ {0}
  /\ MaxTime \in Nat

Ips == {Ip(a) : a \in Clients \cup Peers}

VARIABLES
  noiseRequired,
  now,            \* the clock
  wire,           \* what broadcasts have sent
  tables,         \* the session table of each node
  receiving,      \* listen holds a permit and waits for a datagram
  permits,        \* permits left
  bucket,         \* rate_limits: [tokens, last] of the ips seen so far
  health,         \* peer_health
  filter,         \* gossip_filter, oldest first
  tasks,          \* envelopes whose task has not sent them yet
  channel,        \* to the dispatcher
  accepted,       \* history: the signatures that went into the filter
  since,          \* history: any moment so far, from which
  admitted,       \* history: datagrams per ip the rate limit let pass are counted
  causes          \* history: per ip, what may count as a failure (see Cause)

queues  == <<tasks, channel>>
watch   == <<since, admitted>>
history == <<accepted, watch, causes>>
vars    == <<noiseRequired, now, wire, tables, receiving, permits, bucket, health, filter,
             queues, history>>

Init ==
  /\ noiseRequired \in NoiseModes
  /\ now = 0 /\ wire = {}
  /\ tables = [p \in Peers |-> << >>]
  /\ receiving = FALSE /\ permits = Permits
  /\ bucket = << >>
  /\ health = [i \in Ips |-> 0]
  /\ filter = << >> /\ tasks = << >> /\ channel = << >>
  /\ accepted = << >>
  /\ since = 0 /\ admitted = [i \in Ips |-> 0]
  /\ causes = [i \in Ips |-> 0]

-----------------------------------------------------------------------------
(* check_rate_limit: the bucket of an ip after the refill.  The fraction   *)
(* of a token that the division drops is lost.                             *)
Bucket(i) == IF i \in DOMAIN bucket THEN bucket[i] ELSE [tokens |-> Burst, last |-> now]

(* A bug to catch: the refill is not capped.                               *)
RefilledFreely(i) ==
  LET refill == ((now - Bucket(i).last) * Rate) \div Second IN
  IF refill = 0 THEN Bucket(i) ELSE [tokens |-> Bucket(i).tokens + refill, last |-> now]

Refilled(i) ==
  LET refill == ((now - Bucket(i).last) * Rate) \div Second
      sum == Bucket(i).tokens + refill
  IN  IF refill = 0 THEN Bucket(i)
      ELSE [tokens |-> IF sum > Burst THEN Burst ELSE sum, last |-> now]

Charged(i) ==
  [j \in DOMAIN bucket \cup {i} |->
     IF j # i THEN bucket[j]
     ELSE [Refilled(i) EXCEPT !.tokens = IF @ > 0 THEN @ - 1 ELSE 0]]

(* GossipFilter                                                            *)
Known(sig) == \E k \in DOMAIN filter : filter[k] = sig

(* A bug to catch: the newest signature makes room for the next.           *)
InsertedOverNewest(sig) ==
  IF Known(sig) THEN filter
  ELSE Append(IF Len(filter) >= FilterSize THEN SubSeq(filter, 1, Len(filter) - 1) ELSE filter, sig)

Inserted(sig) ==
  IF Known(sig) THEN filter
  ELSE Append(IF Len(filter) >= FilterSize THEN Tail(filter) ELSE filter, sig)

(* What the parser reads: an envelope, or nothing.                         *)
Parses(content) == content # NoContent

(* SecurityFirewall::verify: the key of the origin is one, and the         *)
(* signature is by it and of these data.                                   *)
Verified(content) == content.genuine

(* A bug to catch: a duplicate counts too.                                 *)
SuspectOrKnown(content) ==
  ~Parses(content) \/ content.ttl = 0 \/ Known(content.sig) \/ ~Verified(content)

(* The checks of listen that count against the sender.                     *)
Suspect(content) ==
  \/ ~Parses(content)
  \/ content.ttl = 0
  \/ ~Known(content.sig) /\ ~Verified(content)

-----------------------------------------------------------------------------
(* listen: acquire_owned.                                                  *)
Acquire ==
  /\ ~receiving /\ permits > 0
  /\ receiving' = TRUE /\ permits' = permits - 1
  /\ UNCHANGED <<noiseRequired, now, wire, tables, bucket, health, filter, queues, history>>

(* continue: the permit goes out of scope.  A bug to catch: it is lost.    *)
KeepPermit == receiving' = FALSE /\ permits' = permits

DropPermit == receiving' = FALSE /\ permits' = permits + 1

(* recv_from returned d and the rate limit lets it pass or not.            *)
Received(d, allowed) ==
  LET i == Ip(d.from) IN
  /\ receiving
  /\ (Refilled(i).tokens > 0) = allowed
  /\ bucket' = Charged(i)
  /\ admitted' = IF allowed THEN [admitted EXCEPT ![i] = @ + 1] ELSE admitted
  /\ UNCHANGED since

Silenced(i) == health[i] >= FailureThreshold

DropEarly(d) ==
  /\ \E allowed \in BOOLEAN : Received(d, allowed) /\ (allowed => Silenced(Ip(d.from)))
  /\ DropPermit
  /\ UNCHANGED <<noiseRequired, now, wire, tables, health, filter, queues, accepted, causes>>

(* The session table reads d; without noise_required, bytes that it cannot *)
(* read are taken as they came.                                            *)
Unwrapped(d, read) ==
  /\ Received(d, TRUE) /\ ~Silenced(Ip(d.from))
  /\ read \in Unwrap(tables[Me], d, now)
  /\ tables' = [tables EXCEPT ![Me] = read.sessions]

Plain(d, read) ==
  IF read.plain # {} THEN read.plain ELSE IF noiseRequired THEN {} ELSE {d.content}

(* What gives reason for a failure of the sender: a session opened for it, *)
(* and what it sent, if that is bad.  An envelope is bad if it fails the   *)
(* checks of listen as it came, a handshake message if no session reads it *)
(* and it is parsed as it came.                                            *)
Bad(d, read) ==
  IF d.kind = "handshake" THEN read.plain = {} /\ ~noiseRequired
  ELSE ~Parses(d.content) \/ d.content.ttl = 0 \/ ~Verified(d.content)

Cause(read, bad) == (IF read.opened THEN 1 ELSE 0) + (IF bad THEN 1 ELSE 0)

Ignore(d) ==
  /\ \E read \in Unwrap(tables[Me], d, now) :
       /\ Unwrapped(d, read)
       /\ \A content \in Plain(d, read) : ~Suspect(content) /\ Known(content.sig)
       /\ causes' = [causes EXCEPT ![Ip(d.from)] = @ + Cause(read, FALSE)]
  /\ DropPermit
  /\ UNCHANGED <<noiseRequired, now, wire, health, filter, queues, accepted>>

Blame(d) ==
  /\ \E read \in Unwrap(tables[Me], d, now) :
       /\ Unwrapped(d, read)
       /\ \E content \in Plain(d, read) : Suspect(content)
       /\ causes' = [causes EXCEPT ![Ip(d.from)] = @ + Cause(read, Bad(d, read))]
  /\ health' = [health EXCEPT ![Ip(d.from)] = @ + 1]
  /\ DropPermit
  /\ UNCHANGED <<noiseRequired, now, wire, filter, queues, accepted>>

(* The envelope is new and good: it is remembered, and a task that owns    *)
(* the permit takes it to the channel.                                     *)
Accept(d) ==
  /\ \E read \in Unwrap(tables[Me], d, now) :
       /\ Unwrapped(d, read)
       /\ \E content \in Plain(d, read) :
            /\ ~Suspect(content) /\ ~Known(content.sig)
            /\ filter' = Inserted(content.sig)
            /\ tasks' = Append(tasks, content)
            /\ accepted' = Append(accepted, content.sig)
       /\ causes' = [causes EXCEPT ![Ip(d.from)] = @ + Cause(read, FALSE)]
  /\ receiving' = FALSE
  /\ UNCHANGED <<noiseRequired, now, wire, permits, health, channel>>

(* tx_inner.send: there is room in the channel; the task ends.             *)
TaskSend(k) ==
  /\ Len(channel) < ChannelSize
  /\ channel' = Append(channel, tasks[k])
  /\ tasks' = [j \in 1..Len(tasks) - 1 |-> IF j < k THEN tasks[j] ELSE tasks[j + 1]]
  /\ permits' = permits + 1
  /\ UNCHANGED <<noiseRequired, now, wire, tables, receiving, bucket, health, filter, history>>

(* The dispatcher takes the next envelope.                                 *)
Dispatch ==
  /\ channel # << >>
  /\ channel' = Tail(channel)
  /\ UNCHANGED <<noiseRequired, now, wire, tables, receiving, permits, bucket, health, filter,
                 tasks, history>>

(* broadcast, on a clone whose filter nobody reads: the data are signed    *)
(* again, and what the session with the broadcast address hands out goes   *)
(* onto the wire.                                                          *)
Broadcast(p, envelope) ==
  /\ envelope.ttl > 0
  /\ \E w \in Wrap(tables[p], Everyone, p, Signed(p, [envelope EXCEPT !.ttl = @ - 1]), now) :
       /\ tables' = [tables EXCEPT ![p] = w.sessions]
       /\ wire' = wire \cup w.sent
  /\ UNCHANGED <<noiseRequired, now, receiving, permits, bucket, health, filter, queues, history>>

(* Time passes; the watch that RateBounded reads goes on or starts anew.   *)
Tick ==
  /\ now < MaxTime
  /\ now' = now + 1
  /\ \/ UNCHANGED watch
     \/ since' = now' /\ admitted' = [i \in Ips |-> 0]
  /\ UNCHANGED <<noiseRequired, wire, tables, receiving, permits, bucket, health, filter, queues,
                 accepted, causes>>

Datagrams ==
  wire \cup {[from |-> c, kind |-> "raw", number |-> 0, content |-> e, fits |-> e.fits] :
             c \in Clients, e \in Envelopes}

Next ==
  \/ Acquire
  \/ \E d \in Datagrams : DropEarly(d) \/ Ignore(d) \/ Blame(d) \/ Accept(d)
  \/ \E k \in DOMAIN tasks : TaskSend(k)
  \/ Dispatch
  \/ \E p \in Peers, e \in Envelopes : Broadcast(p, e)
  \/ Tick

Spec == Init /\ [][Next]_vars

(* The runtime runs every task that can go on, the dispatcher included.    *)
(* Nothing is assumed about what the network delivers, nor about time.     *)
FairSpec ==
  /\ Spec
  /\ WF_vars(Acquire)
  /\ WF_vars(\E k \in DOMAIN tasks : TaskSend(k))
  /\ WF_vars(Dispatch)

-----------------------------------------------------------------------------
(* check_rate_limit: from any moment on, whatever the bucket held then, no *)
(* more datagrams of an ip pass than the burst and the tokens of the time  *)
(* since.  So in no window of time does an ip get more: the bucket is full *)
(* at most, a refill moves last_refill, and the time that a division drops *)
(* or that brought no token yet is credited once.                          *)
RateBounded ==
  \A i \in Ips : admitted[i] <= Burst + ((now - since) * Rate) \div Second

(* The same signature goes to the dispatcher twice only with a whole       *)
(* filter's worth of others in between: GossipFilter keeps the newest.     *)
NoReplayWithinFilter ==
  \A j, k \in DOMAIN accepted : j < k /\ accepted[j] = accepted[k] => k - j > FilterSize

(* peer_health of an ip, which nothing lowers, is raised by no more than   *)
(* the sessions opened for the ip (each reads the first bytes as its first *)
(* message, once), the envelopes that came bad and, unless Noise is        *)
(* required, the handshake messages that no session could read, repeated   *)
(* ones among them.  Good envelopes that come again, or late, or that open *)
(* no session are no reason, nor is anything unreadable under              *)
(* noise_required.                                                         *)
BlamedForCause == \A i \in Ips : health[i] <= causes[i]

(* Every permit is with listen, with a task or in the semaphore: no early  *)
(* continue of listen loses one.                                           *)
PermitsAccounted == permits + Len(tasks) + (IF receiving THEN 1 ELSE 0) = Permits

(* Backpressure passes: listen comes back to recv_from again and again,    *)
(* however many tasks hold permits while the channel is full.              *)
ListenerResumes == []<>receiving
=============================================================================
