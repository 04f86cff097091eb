----------------------- MODULE GossipIngress_proofs -----------------------
(***************************************************************************)
(* Proofs about the reception of datagrams, for any sizes, rates and       *)
(* envelopes, and whatever the network delivers.                           *)
(***************************************************************************)
EXTENDS GossipIngress, FiniteSetTheorems, TLAPS

-----------------------------------------------------------------------------
(* Integer division, for the tokens.                                       *)
LEMMA Quotient ==
  ASSUME NEW a \in Nat, NEW s \in Nat \ {0}
  PROVE  a \div s \in Nat /\ s * (a \div s) <= a /\ a < s * ((a \div s) + 1)
OBVIOUS

LEMMA Cancelled ==
  ASSUME NEW s \in Nat \ {0}, NEW x \in Int, NEW y \in Int, s * x < s * y
  PROVE  x < y
OBVIOUS

LEMMA Distributed ==
  ASSUME NEW s \in Int, NEW x \in Int, NEW y \in Int
  PROVE  s * (x + y) = s * x + s * y
OBVIOUS

(* What two divisions give is not more than what one gives.                *)
LEMMA QuotientsAdd ==
  ASSUME NEW a \in Nat, NEW b \in Nat, NEW s \in Nat \ {0}
  PROVE  (a \div s) + (b \div s) <= (a + b) \div s
<1> DEFINE x == a \div s
           y == b \div s
           z == (a + b) \div s
<1>1. x \in Nat /\ y \in Nat /\ z \in Nat /\ a + b \in Nat
  BY Quotient
<1>2. s * x <= a /\ s * y <= b /\ a + b < s * (z + 1)
  BY Quotient
<1> HIDE DEF x, y, z
<1>3. s * (x + y) = s * x + s * y
  BY <1>1, Distributed
<1>4. s * x \in Int /\ s * y \in Int /\ s * (x + y) \in Int /\ s * (z + 1) \in Int
  BY <1>1
<1>5. s * (x + y) < s * (z + 1)
  BY <1>2, <1>3, <1>4
<1>6. x + y < z + 1
  BY <1>1, <1>5, Cancelled
<1> QED
  BY <1>1, <1>6 DEF x, y, z

(* And they miss one at most.                                              *)
LEMMA QuotientsMissOne ==
  ASSUME NEW a \in Nat, NEW b \in Nat, NEW s \in Nat \ {0}
  PROVE  (a + b) \div s <= (a \div s) + (b \div s) + 1
<1> DEFINE x == a \div s
           y == b \div s
           z == (a + b) \div s
<1>1. x \in Nat /\ y \in Nat /\ z \in Nat /\ a + b \in Nat
  BY Quotient
<1>2. a < s * (x + 1) /\ b < s * (y + 1) /\ s * z <= a + b
  BY Quotient
<1> HIDE DEF x, y, z
<1>3. s * ((x + 1) + (y + 1)) = s * (x + 1) + s * (y + 1)
  BY <1>1, Distributed
<1>4. /\ s * (x + 1) \in Int /\ s * (y + 1) \in Int /\ s * z \in Int
      /\ s * ((x + 1) + (y + 1)) \in Int
  BY <1>1
<1>5. s * z < s * ((x + 1) + (y + 1))
  BY <1>2, <1>3, <1>4
<1>6. z < (x + 1) + (y + 1)
  BY <1>1, <1>5, Cancelled
<1> QED
  BY <1>1, <1>6 DEF x, y, z

-----------------------------------------------------------------------------
(* The tokens of some time.                                                *)
Tokens(t) == (t * Rate) \div Second

LEMMA TokensNat == \A t \in Nat : Tokens(t) \in Nat
<1>1. \A t \in Nat : t * Rate \in Nat /\ Second \in Nat \ {0}
  BY NetworkAssumption
<1> QED
  BY <1>1, Quotient DEF Tokens

LEMMA TokensAdd ==
  ASSUME NEW t \in Nat, NEW u \in Nat
  PROVE  /\ Tokens(t) + Tokens(u) <= Tokens(t + u)
         /\ Tokens(t + u) <= Tokens(t) + Tokens(u) + 1
<1>1. Rate \in Nat \ {0} /\ Second \in Nat \ {0}
  BY NetworkAssumption
<1>2. t * Rate \in Nat /\ u * Rate \in Nat /\ (t + u) * Rate = t * Rate + u * Rate
  BY <1>1
<1> QED
  BY <1>1, <1>2, QuotientsAdd, QuotientsMissOne DEF Tokens

(* What has passed since the watch began, and what is left.  A bucket      *)
(* refilled since then has been given the tokens of that time on top of a  *)
(* full bucket at most.  One that was not has a token less than a full one *)
(* (the datagram that saw its last refill took it), and if it let anything *)
(* pass, its last refill was then less than a token away.                  *)
Spent(b, passed) ==
  IF b.last >= since THEN passed + b.tokens <= Burst + Tokens(b.last - since)
  ELSE passed + b.tokens < Burst /\ (passed > 0 => Tokens(since - b.last) = 0)

BucketInv ==
  /\ now \in Nat /\ since \in 0..now
  /\ admitted \in [Ips -> Nat]
  /\ \A i \in Ips \ DOMAIN bucket : admitted[i] = 0
  /\ \A i \in DOMAIN bucket : bucket[i] \in [tokens : 0..(Burst - 1), last : 0..now]
  /\ \A i \in Ips \cap DOMAIN bucket : Spent(bucket[i], admitted[i])

LEMMA InitBucketInv == Init => BucketInv
BY DEF Init, BucketInv

(* check_rate_limit after its refill: a bucket that was given tokens was   *)
(* given them now.  A time with a refill below one token before the watch  *)
(* and the time since make one token more than the latter at most.         *)
LEMMA RefilledSpent ==
  ASSUME BucketInv, NEW i
  PROVE  /\ Refilled(i) \in [tokens : 0..Burst, last : 0..now]
         /\ i \in Ips =>
              IF Refilled(i).last >= since
              THEN admitted[i] + Refilled(i).tokens <= Burst + Tokens(Refilled(i).last - since)
              ELSE /\ admitted[i] + Refilled(i).tokens < Burst
                   /\ Tokens(since - Refilled(i).last) = 0
<1> DEFINE b == Bucket(i)
           r == Refilled(i)
           refill == Tokens(now - b.last)
           sum == b.tokens + refill
<1>1. now \in Nat /\ since \in 0..now /\ Burst \in Nat \ {0}
  BY NetworkAssumption DEF BucketInv
<1>2. b \in [tokens : 0..Burst, last : 0..now]
  BY <1>1 DEF BucketInv, Bucket
<1>3. r = IF refill = 0 THEN b
          ELSE [tokens |-> IF sum > Burst THEN Burst ELSE sum, last |-> now]
  BY DEF Refilled, Tokens
<1>4. now - b.last \in Nat /\ refill \in Nat
  BY <1>1, <1>2, TokensNat
<1>5. i \in Ips => admitted[i] \in Nat
  BY DEF BucketInv
<1>6. now - since \in Nat /\ Tokens(now - since) \in Nat /\ Tokens(0) \in Nat
  BY <1>1, TokensNat
<1>7. CASE i \notin DOMAIN bucket
  <2>1. b = [tokens |-> Burst, last |-> now] /\ (i \in Ips => admitted[i] = 0)
    BY <1>7 DEF Bucket, BucketInv
  <2>2. r.tokens \in 0..Burst /\ r.last = now /\ r \in [tokens : 0..Burst, last : 0..now]
    <3> HIDE DEF r, refill, sum
    <3>1. sum \in Nat
      BY <1>2, <1>4 DEF sum
    <3> QED
      BY <1>1, <1>3, <2>1, <3>1
  <2> HIDE DEF r, b
  <2> QED
    BY <1>1, <1>6, <2>1, <2>2 DEF r
<1>8. CASE i \in DOMAIN bucket
  <2> DEFINE last == b.last
             tokens == b.tokens
             passed == admitted[i]
  <2>1. tokens \in 0..(Burst - 1) /\ last \in 0..now
    BY <1>8 DEF Bucket, BucketInv
  <2>2. /\ i \in Ips /\ last >= since => passed + tokens <= Burst + Tokens(last - since)
        /\ i \in Ips /\ last < since => passed + tokens < Burst
        /\ i \in Ips /\ last < since /\ passed > 0 => Tokens(since - last) = 0
    BY <1>8 DEF Bucket, BucketInv, Spent
  <2>3. /\ last >= since => Tokens(last - since) \in Nat
        /\ last >= since => Tokens(last - since) + refill <= Tokens(now - since)
    <3>1. SUFFICES ASSUME last >= since
                   PROVE  Tokens(last - since) \in Nat
                          /\ Tokens(last - since) + refill <= Tokens(now - since)
      OBVIOUS
    <3>2. last - since \in Nat /\ now - last \in Nat /\ (last - since) + (now - last) = now - since
      BY <1>1, <2>1, <3>1
    <3> HIDE DEF last
    <3> QED
      BY <3>2, TokensNat, TokensAdd DEF last
  <2>4. /\ last < since => Tokens(since - last) \in Nat
        /\ last < since => refill <= Tokens(since - last) + Tokens(now - since) + 1
        /\ last < since => Tokens(since - last) <= refill
    <3>1. SUFFICES ASSUME last < since
                   PROVE  /\ Tokens(since - last) \in Nat
                          /\ refill <= Tokens(since - last) + Tokens(now - since) + 1
                          /\ Tokens(since - last) <= refill
      OBVIOUS
    <3>2. since - last \in Nat /\ now - since \in Nat /\ (since - last) + (now - since) = now - last
      BY <1>1, <2>1, <3>1
    <3>3. /\ Tokens(since - last) + Tokens(now - since) <= refill
          /\ refill <= Tokens(since - last) + Tokens(now - since) + 1
          /\ Tokens(since - last) \in Nat
      <4>1. refill = Tokens((since - last) + (now - since))
        BY <3>2
      <4> HIDE DEF last, refill
      <4> QED
        BY <3>2, <4>1, TokensNat, TokensAdd
    <3> HIDE DEF last, refill
    <3> QED
      BY <1>6, <1>4, <3>3 DEF refill, last
  <2>5. CASE refill = 0
    <3>1. r = b
      BY <1>3, <2>5
    <3>2. last < since => Tokens(since - last) = 0
      <4> HIDE DEF last, refill
      <4> QED
        BY <2>4, <2>5
    <3> QED
      BY <1>1, <1>2, <2>1, <2>2, <3>1, <3>2
  <2>6. CASE refill # 0
    <3>1. r = [tokens |-> IF sum > Burst THEN Burst ELSE sum, last |-> now]
      BY <1>3, <2>6
    <3>2. sum = tokens + refill /\ sum \in Nat
      BY <1>2, <1>4
    <3> HIDE DEF r, refill, sum, last, tokens, passed, b
    <3>3. r.tokens \in 0..Burst /\ r.last = now /\ r.tokens <= sum
          /\ r \in [tokens : 0..Burst, last : 0..now]
      BY <1>1, <3>1, <3>2
    <3>4. ASSUME i \in Ips PROVE passed + r.tokens <= Burst + Tokens(now - since)
      <4>0. passed \in Nat /\ refill \in Nat
        BY <1>4, <1>5, <3>4 DEF passed, refill, b
      <4>1. CASE last >= since
        BY <1>1, <1>6, <2>1, <2>2, <2>3, <3>2, <3>3, <3>4, <4>0, <4>1
      <4>2. CASE last < since /\ passed = 0
        BY <1>1, <1>6, <3>3, <4>2
      <4>3. CASE last < since /\ passed > 0
        BY <1>1, <1>6, <2>1, <2>2, <2>4, <3>2, <3>3, <3>4, <4>0, <4>3
      <4> QED
        BY <1>1, <2>1, <4>0, <4>1, <4>2, <4>3
    <3> QED
      BY <1>1, <3>3, <3>4 DEF r, passed
  <2> QED
    BY <2>5, <2>6
<1> QED
  BY <1>7, <1>8

(* A datagram costs a token, or does not pass.                             *)
LEMMA ReceivedBucketInv ==
  ASSUME BucketInv, NEW d, NEW allowed \in BOOLEAN, Received(d, allowed), now' = now
  PROVE  BucketInv'
<1> DEFINE i == Ip(d.from)
           r == Refilled(i)
           left == IF r.tokens > 0 THEN r.tokens - 1 ELSE 0
<1>1. now \in Nat /\ since \in 0..now /\ Burst \in Nat \ {0} /\ since' = since
  BY NetworkAssumption DEF BucketInv, Received
<1>2. /\ r \in [tokens : 0..Burst, last : 0..now]
      /\ i \in Ips => IF r.last >= since
                      THEN admitted[i] + r.tokens <= Burst + Tokens(r.last - since)
                      ELSE admitted[i] + r.tokens < Burst /\ Tokens(since - r.last) = 0
  BY RefilledSpent
<1> HIDE DEF r
<1>3. (r.tokens > 0) = allowed
  BY DEF Received, r
<1>4. /\ DOMAIN bucket' = DOMAIN bucket \cup {i}
      /\ \A j \in DOMAIN bucket \ {i} : bucket'[j] = bucket[j]
      /\ bucket'[i] = [r EXCEPT !.tokens = left]
  <2>1. bucket' = Charged(i)
    BY DEF Received
  <2>2. Charged(i)[i] = [r EXCEPT !.tokens = left]
    BY DEF Charged, r
  <2> QED
    BY <1>2, <2>1, <2>2 DEF Charged
<1>5. admitted' = IF allowed THEN [admitted EXCEPT ![i] = @ + 1] ELSE admitted
  BY DEF Received
<1> HIDE DEF i
<1>6. left \in 0..(Burst - 1) /\ (allowed => left + 1 = r.tokens) /\ (~allowed => left = r.tokens)
  BY <1>1, <1>2, <1>3
<1> HIDE DEF left
<1>7. admitted' \in [Ips -> Nat]
  <2>1. admitted \in [Ips -> Nat]
    BY DEF BucketInv
  <2>2. [admitted EXCEPT ![i] = @ + 1] \in [Ips -> Nat]
    <3>1. CASE i \in Ips
      <4>1. admitted[i] + 1 \in Nat
        BY <2>1, <3>1
      <4> QED
        BY <2>1, <4>1
    <3>2. CASE i \notin Ips
      BY <2>1, <3>2
    <3> QED
      BY <3>1, <3>2
  <2> QED
    BY <1>5, <2>1, <2>2
<1>8. \A j \in Ips \ {i} : admitted'[j] = admitted[j]
  BY <1>5 DEF BucketInv
<1>9. bucket'[i].tokens = left /\ bucket'[i].last = r.last
      /\ bucket'[i] \in [tokens : 0..(Burst - 1), last : 0..now]
  BY <1>2, <1>4, <1>6
<1>10. ASSUME i \in Ips PROVE Spent(bucket'[i], admitted'[i])
  <2>1. admitted'[i] = IF allowed THEN admitted[i] + 1 ELSE admitted[i]
    BY <1>5, <1>10 DEF BucketInv
  <2>2. admitted[i] \in Nat
    BY <1>10 DEF BucketInv
  <2>3. admitted'[i] + left = admitted[i] + r.tokens
    BY <1>2, <1>6, <2>1, <2>2
  <2> QED
    BY <1>2, <1>9, <1>10, <2>3 DEF Spent
<1>11. \A j \in DOMAIN bucket' : bucket'[j] \in [tokens : 0..(Burst - 1), last : 0..now]
  BY <1>4, <1>9 DEF BucketInv
<1>12. \A j \in Ips \ DOMAIN bucket' : admitted'[j] = 0
  BY <1>4, <1>8 DEF BucketInv
<1>13. \A j \in Ips \cap DOMAIN bucket' : Spent(bucket'[j], admitted'[j])
  <2>1. ASSUME NEW j \in Ips \cap DOMAIN bucket', j # i
        PROVE  Spent(bucket'[j], admitted'[j])
    BY <1>4, <1>8, <2>1 DEF BucketInv
  <2> QED
    BY <1>10, <2>1
<1> QED
  BY <1>1, <1>7, <1>11, <1>12, <1>13 DEF BucketInv, Spent, Tokens

(* A watch that begins now finds no bucket refilled and nothing passed.    *)
LEMMA TickBucketInv == BucketInv /\ Tick => BucketInv'
<1> SUFFICES ASSUME BucketInv, Tick PROVE BucketInv'
  OBVIOUS
<1>1. now \in Nat /\ now' = now + 1 /\ bucket' = bucket /\ since \in 0..now
      /\ Burst \in Nat \ {0}
  BY NetworkAssumption DEF BucketInv, Tick
<1>2. \A i \in DOMAIN bucket : /\ bucket[i] \in [tokens : 0..(Burst - 1), last : 0..now']
                              /\ bucket[i].last \in 0..now /\ bucket[i].tokens \in 0..(Burst - 1)
  BY <1>1 DEF BucketInv
<1>3. CASE UNCHANGED watch
  BY <1>1, <1>2, <1>3 DEF BucketInv, Spent, Tokens, watch
<1>4. CASE since' = now' /\ admitted' = [i \in Ips |-> 0]
  <2>1. since' \in 0..now' /\ admitted' \in [Ips -> Nat] /\ \A i \in Ips : admitted'[i] = 0
    BY <1>1, <1>4
  <2>2. ASSUME NEW i \in Ips \cap DOMAIN bucket
        PROVE  bucket[i].last < since' /\ admitted'[i] + bucket[i].tokens < Burst
               /\ ~(admitted'[i] > 0)
    BY <1>1, <1>2, <1>4, <2>1
  <2>3. \A i \in Ips \cap DOMAIN bucket' : Spent(bucket[i], admitted[i])'
    BY <1>1, <1>2, <1>4, <2>2 DEF Spent
  <2> QED
    BY <1>1, <1>2, <2>1, <2>3 DEF BucketInv, Spent
<1> QED
  BY <1>3, <1>4 DEF Tick

LEMMA NextBucketInv == BucketInv /\ [Next]_vars => BucketInv'
<1> SUFFICES ASSUME BucketInv, [Next]_vars PROVE BucketInv'
  OBVIOUS
<1>1. ASSUME NEW d, DropEarly(d) \/ Ignore(d) \/ Blame(d) \/ Accept(d)
      PROVE  BucketInv'
  <2>1. \E allowed \in BOOLEAN : Received(d, allowed)
    BY <1>1 DEF DropEarly, Ignore, Blame, Accept, Unwrapped
  <2>2. now' = now
    BY <1>1 DEF DropEarly, Ignore, Blame, Accept
  <2> QED
    BY <2>1, <2>2, ReceivedBucketInv
<1>2. CASE Tick
  BY <1>2, TickBucketInv
<1>3. ASSUME UNCHANGED <<now, bucket, since, admitted>>
      PROVE  BucketInv'
  BY <1>3 DEF BucketInv, Spent, Tokens
<1>4. CASE Acquire \/ Dispatch \/ \E k \in DOMAIN tasks : TaskSend(k)
  BY <1>3, <1>4 DEF Acquire, Dispatch, TaskSend, history, watch
<1>5. ASSUME NEW p \in Peers, NEW e \in Envelopes, Broadcast(p, e)
      PROVE  BucketInv'
  BY <1>3, <1>5 DEF Broadcast, history, watch
<1>6. CASE UNCHANGED vars
  BY <1>3, <1>6 DEF vars, history, watch
<1> QED
  BY <1>1, <1>2, <1>4, <1>5, <1>6 DEF Next

(* check_rate_limit: from any moment on, and so in any window of time, no  *)
(* more datagrams of an ip pass than a full bucket and the tokens of the   *)
(* time since, for any rate and burst and however the calls are spaced.    *)
THEOREM RateIsBounded == Spec => []RateBounded
<1>1. BucketInv => RateBounded
  <2> SUFFICES ASSUME BucketInv, NEW i \in Ips
               PROVE  admitted[i] <= Burst + Tokens(now - since)
    BY DEF RateBounded, Tokens
  <2>1. /\ now \in Nat /\ since \in 0..now /\ Burst \in Nat /\ admitted[i] \in Nat
        /\ now - since \in Nat /\ Tokens(now - since) \in Nat
    BY TokensNat, NetworkAssumption DEF BucketInv
  <2>2. CASE i \notin DOMAIN bucket
    BY <2>1, <2>2 DEF BucketInv
  <2>3. CASE i \in DOMAIN bucket
    <3> DEFINE last == bucket[i].last
               tokens == bucket[i].tokens
    <3>1. last \in 0..now /\ tokens \in Nat
      BY <2>1, <2>3, NetworkAssumption DEF BucketInv
    <3>2. IF last >= since THEN admitted[i] + tokens <= Burst + Tokens(last - since)
          ELSE admitted[i] + tokens < Burst
      BY <2>3 DEF BucketInv, Spent
    <3> HIDE DEF last, tokens
    <3>3. CASE last >= since
      <4>1. last - since \in Nat /\ now - last \in Nat /\ (last - since) + (now - last) = now - since
        BY <2>1, <3>1, <3>3
      <4>2. /\ Tokens(last - since) \in Nat /\ Tokens(now - last) \in Nat
            /\ Tokens(last - since) + Tokens(now - last) <= Tokens((last - since) + (now - last))
        BY <4>1, TokensNat, TokensAdd
      <4>3. Tokens(last - since) <= Tokens(now - since)
        BY <2>1, <4>1, <4>2
      <4> QED
        BY <2>1, <3>1, <3>2, <3>3, <4>2, <4>3
    <3>4. CASE last < since
      BY <2>1, <3>1, <3>2, <3>4
    <3> QED
      BY <2>1, <3>1, <3>3, <3>4
  <2> QED
    BY <2>2, <2>3
<1> QED
  BY <1>1, InitBucketInv, NextBucketInv, PTL DEF Spec

-----------------------------------------------------------------------------
(* The filter is the tail of what was accepted, all of it until the filter *)
(* is full.                                                                *)
FilterInv ==
  /\ \E S : accepted \in Seq(S) /\ filter \in Seq(S)
  /\ Len(filter) <= FilterSize /\ Len(filter) <= Len(accepted)
  /\ Len(filter) = FilterSize \/ Len(filter) = Len(accepted)
  /\ \A k \in 1..Len(filter) : filter[k] = accepted[Len(accepted) - Len(filter) + k]

LEMMA InitFilterInv == Init => FilterInv /\ NoReplayWithinFilter
<1> SUFFICES ASSUME Init PROVE FilterInv /\ NoReplayWithinFilter
  OBVIOUS
<1>1. accepted \in Seq({}) /\ filter \in Seq({}) /\ Len(filter) = 0 /\ Len(accepted) = 0
  BY DEF Init
<1>2. FilterInv
  BY <1>1, NetworkAssumption DEF FilterInv
<1>3. DOMAIN accepted = {}
  BY <1>1
<1> QED
  BY <1>2, <1>3 DEF NoReplayWithinFilter

(* What is accepted is not in the filter, and so lies further back than    *)
(* the filter reaches, if it was ever accepted.                            *)
LEMMA AcceptedFilterInv ==
  ASSUME FilterInv, NoReplayWithinFilter, NEW sig, ~Known(sig),
         filter' = Inserted(sig), accepted' = Append(accepted, sig)
  PROVE  FilterInv' /\ NoReplayWithinFilter'
<1> DEFINE kept == IF Len(filter) >= FilterSize THEN Tail(filter) ELSE filter
           n == Len(accepted)
           m == Len(filter)
<1>1. PICK S : accepted \in Seq(S) /\ filter \in Seq(S)
  BY DEF FilterInv
<1>2. n \in Nat /\ m \in Nat /\ FilterSize \in Nat \ {0} /\ m <= n /\ m <= FilterSize
      /\ (m = FilterSize \/ m = n)
  BY <1>1, NetworkAssumption DEF FilterInv
<1>3. accepted \in Seq(S \cup {sig}) /\ filter \in Seq(S \cup {sig})
  BY <1>1
<1>4. /\ kept \in Seq(S \cup {sig})
      /\ Len(kept) = IF m = FilterSize THEN m - 1 ELSE m
      /\ \A k \in 1..Len(kept) : kept[k] = IF m = FilterSize THEN filter[k + 1] ELSE filter[k]
  BY <1>2, <1>3
<1>5. filter' = Append(kept, sig)
  BY DEF Inserted
<1>6. \A k \in 1..m : filter[k] = accepted[n - m + k] /\ filter[k] # sig
  BY <1>1 DEF FilterInv, Known
<1> HIDE DEF kept
<1>7. /\ accepted' \in Seq(S \cup {sig}) /\ Len(accepted') = n + 1
      /\ \A k \in 1..n : accepted'[k] = accepted[k]
      /\ accepted'[n + 1] = sig
  BY <1>3
<1>8. /\ filter' \in Seq(S \cup {sig}) /\ Len(filter') = Len(kept) + 1
      /\ \A k \in 1..Len(kept) : filter'[k] = kept[k]
      /\ filter'[Len(kept) + 1] = sig
  BY <1>4, <1>5
<1> HIDE DEF n, m
<1>9. FilterInv'
  <2>1. /\ Len(filter') <= FilterSize /\ Len(filter') <= Len(accepted')
        /\ Len(filter') = FilterSize \/ Len(filter') = Len(accepted')
    BY <1>2, <1>4, <1>7, <1>8
  <2>2. ASSUME NEW k \in 1..Len(filter')
        PROVE  filter'[k] = accepted'[Len(accepted') - Len(filter') + k]
    <3> DEFINE p == Len(kept)
               j == (n + 1) - (p + 1) + k
    <3>0. /\ p \in Nat /\ k \in 1..(p + 1) /\ Len(accepted') - Len(filter') + k = j
          /\ p = IF m = FilterSize THEN m - 1 ELSE m
      BY <1>2, <1>4, <1>7, <1>8
    <3>1. CASE k = p + 1
      <4>1. j = n + 1
        BY <1>2, <3>0, <3>1
      <4> QED
        BY <1>7, <1>8, <3>0, <3>1, <4>1
    <3>2. CASE k \in 1..p /\ m = FilterSize
      <4>1. k + 1 \in 1..m /\ j = n - m + (k + 1) /\ j \in 1..n
        BY <1>2, <3>0, <3>2
      <4>2. filter'[k] = filter[k + 1] /\ filter[k + 1] = accepted[j]
        BY <1>4, <1>6, <1>8, <3>2, <4>1
      <4> QED
        BY <1>7, <3>0, <4>1, <4>2
    <3>3. CASE k \in 1..p /\ m # FilterSize
      <4>1. k \in 1..m /\ j = n - m + k /\ j \in 1..n
        BY <1>2, <3>0, <3>3
      <4>2. filter'[k] = filter[k] /\ filter[k] = accepted[j]
        BY <1>4, <1>6, <1>8, <3>3, <4>1
      <4> QED
        BY <1>7, <3>0, <4>1, <4>2
    <3>4. k = p + 1 \/ k \in 1..p
      BY <3>0
    <3> HIDE DEF p, j
    <3> QED
      BY <3>1, <3>2, <3>3, <3>4
  <2> QED
    BY <1>7, <1>8, <2>1, <2>2 DEF FilterInv
<1>10. DOMAIN accepted = 1..n /\ DOMAIN accepted' = 1..(n + 1)
  BY <1>1, <1>7 DEF n
<1>11. ASSUME NEW j \in 1..(n + 1), NEW k \in 1..(n + 1), j < k, accepted'[j] = accepted'[k]
       PROVE  k - j > FilterSize
  <2>1. CASE k \in 1..n
    BY <1>2, <1>7, <1>10, <1>11, <2>1 DEF NoReplayWithinFilter
  <2>2. CASE k = n + 1
    <3>1. j \in 1..n /\ accepted[j] = sig
      BY <1>2, <1>7, <1>11, <2>2
    <3>2. j <= n - m
      <4>1. SUFFICES ASSUME j > n - m PROVE FALSE
        BY <1>2
      <4>2. j - (n - m) \in 1..m /\ n - m + (j - (n - m)) = j
        BY <1>2, <3>1, <4>1
      <4> QED
        BY <1>6, <3>1, <4>2
    <3> QED
      BY <1>2, <2>2, <3>1, <3>2
  <2> QED
    BY <1>2, <2>1, <2>2
<1>12. NoReplayWithinFilter'
  BY <1>10, <1>11 DEF NoReplayWithinFilter
<1> QED
  BY <1>9, <1>12

LEMMA NextFilterInv ==
  FilterInv /\ NoReplayWithinFilter /\ [Next]_vars => (FilterInv /\ NoReplayWithinFilter)'
<1> SUFFICES ASSUME FilterInv, NoReplayWithinFilter, [Next]_vars
             PROVE  (FilterInv /\ NoReplayWithinFilter)'
  OBVIOUS
<1>1. ASSUME NEW d, Accept(d)
      PROVE  (FilterInv /\ NoReplayWithinFilter)'
  <2>1. PICK content : /\ ~Known(content.sig)
                       /\ filter' = Inserted(content.sig)
                       /\ accepted' = Append(accepted, content.sig)
    BY <1>1 DEF Accept
  <2> QED
    BY <2>1, AcceptedFilterInv
<1>2. ASSUME UNCHANGED <<filter, accepted>>
      PROVE  (FilterInv /\ NoReplayWithinFilter)'
  BY <1>2 DEF FilterInv, NoReplayWithinFilter
<1>3. ASSUME NEW d, DropEarly(d) \/ Ignore(d) \/ Blame(d)
      PROVE  UNCHANGED <<filter, accepted>>
  BY <1>3 DEF DropEarly, Ignore, Blame
<1>4. CASE Acquire \/ Dispatch \/ Tick \/ \E k \in DOMAIN tasks : TaskSend(k)
  BY <1>2, <1>4 DEF Acquire, Dispatch, Tick, TaskSend, history
<1>5. ASSUME NEW p \in Peers, NEW e \in Envelopes, Broadcast(p, e)
      PROVE  UNCHANGED <<filter, accepted>>
  BY <1>5 DEF Broadcast, history
<1>6. CASE UNCHANGED vars
  BY <1>2, <1>6 DEF vars, history
<1> QED
  BY <1>1, <1>2, <1>3, <1>4, <1>5, <1>6 DEF Next

(* GossipFilter: a signature goes to the dispatcher again only with a      *)
(* whole filter's worth of others in between, for any size of the filter.  *)
THEOREM NoEarlyReplay == Spec => []NoReplayWithinFilter
<1>1. Init => FilterInv /\ NoReplayWithinFilter
  BY InitFilterInv
<1> QED
  BY <1>1, NextFilterInv, PTL DEF Spec

-----------------------------------------------------------------------------
PermitInv ==
  /\ receiving \in BOOLEAN /\ permits \in Nat
  /\ \E S : tasks \in Seq(S)
  /\ (receiving = TRUE => permits + Len(tasks) + 1 = Permits)
  /\ (receiving = FALSE => permits + Len(tasks) = Permits)

LEMMA Idle ==
  ASSUME receiving = FALSE, permits \in Nat, \E S : tasks \in Seq(S),
         permits + Len(tasks) = Permits
  PROVE  PermitInv
BY Zenon DEF PermitInv

LEMMA IdleAfter ==
  ASSUME receiving' = FALSE, permits' \in Nat, \E S : tasks' \in Seq(S),
         permits' + Len(tasks') = Permits
  PROVE  PermitInv'
BY Zenon DEF PermitInv

LEMMA InitPermitInv == Init => PermitInv
<1> SUFFICES ASSUME Init PROVE PermitInv
  OBVIOUS
<1>1. /\ tasks \in Seq({}) /\ permits = Permits
      /\ permits \in Nat /\ permits + Len(tasks) = Permits
  BY NetworkAssumption DEF Init
<1>2. receiving = FALSE
  BY DEF Init
<1> QED
  BY <1>1, <1>2, Idle

LEMMA NextPermitInv == PermitInv /\ [Next]_vars => PermitInv'
<1> SUFFICES ASSUME PermitInv, [Next]_vars PROVE PermitInv'
  OBVIOUS
<1>1. PICK S : tasks \in Seq(S)
  BY DEF PermitInv
<1>2. /\ receiving \in BOOLEAN /\ permits \in Nat /\ Len(tasks) \in Nat
      /\ (receiving = TRUE => permits + Len(tasks) + 1 = Permits)
      /\ (receiving = FALSE => permits + Len(tasks) = Permits)
  BY <1>1 DEF PermitInv
<1>3. CASE Acquire
  BY <1>1, <1>2, <1>3 DEF Acquire, queues, PermitInv
<1>4. ASSUME NEW d, DropEarly(d) \/ Ignore(d) \/ Blame(d)
      PROVE  PermitInv'
  <2>1. receiving = TRUE /\ DropPermit /\ tasks' = tasks
    BY <1>2, <1>4 DEF DropEarly, Ignore, Blame, Unwrapped, Received, queues
  <2>2. permits' = permits + 1 /\ permits + Len(tasks) + 1 = Permits
    BY <1>2, <2>1 DEF DropPermit
  <2>3. permits' \in Nat /\ permits' + Len(tasks') = Permits /\ tasks' \in Seq(S)
    BY <1>1, <1>2, <2>1, <2>2
  <2>4. receiving' = FALSE
    BY <2>1 DEF DropPermit
  <2> QED
    BY <2>3, <2>4, IdleAfter
<1>5. ASSUME NEW d, Accept(d)
      PROVE  PermitInv'
  <2>1. receiving = TRUE
    BY <1>5, <1>2 DEF Accept, Unwrapped, Received
  <2>2. PICK content : tasks' = Append(tasks, content)
    BY <1>5 DEF Accept
  <2>3. receiving' = FALSE /\ permits' = permits
    BY <1>5 DEF Accept
  <2>4. tasks \in Seq(S \cup {content})
    BY <1>1
  <2>5. tasks' \in Seq(S \cup {content}) /\ Len(tasks') = Len(tasks) + 1
    BY <2>2, <2>4
  <2>6. permits + Len(tasks) + 1 = Permits
    BY <1>2, <2>1
  <2>7. permits' \in Nat /\ permits' + Len(tasks') = Permits
    BY <1>2, <2>3, <2>5, <2>6
  <2> QED
    BY <2>3, <2>5, <2>7, IdleAfter
<1>6. ASSUME NEW k \in DOMAIN tasks, TaskSend(k)
      PROVE  PermitInv'
  <2> DEFINE n == Len(tasks) - 1
  <2>1. n \in Nat /\ k \in 1..(n + 1)
    BY <1>1, <1>2
  <2>2. \A j \in 1..n : (IF j < k THEN tasks[j] ELSE tasks[j + 1]) \in S
    BY <1>1, <1>2, <2>1
  <2>3. tasks' = [j \in 1..n |-> IF j < k THEN tasks[j] ELSE tasks[j + 1]]
    BY <1>6 DEF TaskSend
  <2> HIDE DEF n
  <2>4. tasks' \in Seq(S) /\ Len(tasks') = n
    BY <2>1, <2>2, <2>3
  <2>5. permits' = permits + 1 /\ receiving' = receiving
    BY <1>6 DEF TaskSend
  <2> QED
    BY <1>2, <2>4, <2>5 DEF PermitInv, n
<1>7. ASSUME UNCHANGED <<receiving, permits, tasks>>
      PROVE  PermitInv'
  BY <1>7 DEF PermitInv
<1>8. CASE Dispatch \/ Tick
  BY <1>7, <1>8 DEF Dispatch, Tick, queues
<1>9. ASSUME NEW p \in Peers, NEW e \in Envelopes, Broadcast(p, e)
      PROVE  PermitInv'
  BY <1>7, <1>9 DEF Broadcast, queues
<1>10. CASE UNCHANGED vars
  BY <1>7, <1>10 DEF vars, queues
<1> QED
  BY <1>3, <1>4, <1>5, <1>6, <1>8, <1>9, <1>10 DEF Next

(* Every permit is with listen, with a task or in the semaphore: no early  *)
(* continue of listen loses one, and none is given back twice.             *)
THEOREM PermitsAreAccounted == Spec => []PermitsAccounted
<1>1. ASSUME PermitInv
      PROVE  PermitsAccounted
  <2>1. CASE receiving = TRUE
    BY <1>1, <2>1 DEF PermitInv, PermitsAccounted
  <2>2. CASE receiving = FALSE
    BY <1>1, <2>2 DEF PermitInv, PermitsAccounted
  <2> QED
    BY <1>1, <2>1, <2>2 DEF PermitInv
<1> QED
  BY <1>1, InitPermitInv, NextPermitInv, PTL DEF Spec

-----------------------------------------------------------------------------
(* Session tables.  wrap is only called for the broadcast address, which   *)
(* sends nothing; so the session of a sender is one that unwrap opened,    *)
(* and it has read nothing or the first message: the second is never       *)
(* written.                                                                *)
Session ==
  [role : {"initiator", "responder"}, next : Nat \ {0}, active : BOOLEAN, used : Nat]

OfSender(s) == s.role = "responder" /\ s.next \in {1, 2} /\ s.active = FALSE

IsTable(S) ==
  /\ IsFiniteSet(DOMAIN S)
  /\ \A a \in DOMAIN S : S[a] \in Session /\ (a # Everyone => OfSender(S[a]))

(* The sessions that unwrap opened and that have read nothing since.       *)
Opening(s) == s.role = "responder" /\ s.next = 1 /\ s.active = FALSE

Unread(S) == {a \in DOMAIN S : Opening(S[a])}

LEMMA EvictedIsTable ==
  ASSUME NEW S, IsTable(S), NEW t \in Nat, NEW kept \in EvictStale(S, t)
  PROVE  IsTable(kept) /\ Unread(kept) \subseteq Unread(S)
<1>1. PICK K \in SUBSET DOMAIN S : kept = Restricted(S, K)
  BY DEF EvictStale
<1>2. DOMAIN kept = K /\ \A a \in K : kept[a] = S[a]
  BY <1>1 DEF Restricted
<1>3. IsFiniteSet(K)
  BY <1>1, FS_Subset DEF IsTable
<1> QED
  BY <1>2, <1>3 DEF IsTable, Unread

(* The session of an address is the one it had, or a fresh one.            *)
LEMMA TouchedSession ==
  ASSUME NEW S, IsTable(S), NEW addr, NEW t \in Nat,
         NEW role \in {"initiator", "responder"}, role = "responder" \/ addr = Everyone,
         NEW open, open = Touched(S, addr, role, t)
  PROVE  /\ IsTable(open)
         /\ addr \in DOMAIN open
         /\ Unread(open) \ {addr} = Unread(S) \ {addr}
         /\ addr \in DOMAIN S => (Opening(open[addr]) <=> addr \in Unread(S))
         /\ addr \notin DOMAIN S => (Opening(open[addr]) <=> role = "responder")
<1> DEFINE was == IF addr \in DOMAIN S THEN S[addr] ELSE Fresh(role, t)
<1>1. /\ DOMAIN open = DOMAIN S \cup {addr}
      /\ \A a \in DOMAIN S \ {addr} : open[a] = S[a]
      /\ open[addr] = [was EXCEPT !.used = t]
  BY DEF Touched
<1>2. was \in Session /\ (addr # Everyone => OfSender(was))
  BY DEF IsTable, Fresh, Session, OfSender
<1>3. addr \in DOMAIN S => was = S[addr]
  OBVIOUS
<1>4. addr \notin DOMAIN S => was = Fresh(role, t)
  OBVIOUS
<1> HIDE DEF was
<1>5. /\ open[addr] \in Session
      /\ open[addr].role = was.role /\ open[addr].next = was.next
      /\ open[addr].active = was.active
  BY <1>1, <1>2 DEF Session
<1>6. IsFiniteSet(DOMAIN open)
  BY <1>1, FS_AddElement DEF IsTable
<1>7. IsTable(open)
  BY <1>1, <1>2, <1>5, <1>6 DEF IsTable, OfSender
<1>8. Unread(open) \ {addr} = Unread(S) \ {addr}
  BY <1>1 DEF Unread
<1>9. addr \in DOMAIN S => (Opening(open[addr]) <=> addr \in Unread(S))
  BY <1>3, <1>5 DEF Unread, Opening
<1>10. addr \notin DOMAIN S => (Opening(open[addr]) <=> role = "responder")
  BY <1>4, <1>5 DEF Fresh, Opening
<1> QED
  BY <1>1, <1>7, <1>8, <1>9, <1>10

(* A session that reads or writes a handshake message is not, afterwards,  *)
(* one that has read nothing.                                              *)
IsAdvanced(S, addr, T) ==
  /\ DOMAIN T = DOMAIN S /\ \A a \in DOMAIN S \ {addr} : T[a] = S[a]
  /\ T[addr] \in Session /\ T[addr].next = S[addr].next + 1
  /\ addr # Everyone => OfSender(T[addr])

LEMMA Advanced ==
  ASSUME NEW S, IsTable(S), NEW addr \in DOMAIN S, NEW T, IsAdvanced(S, addr, T)
  PROVE  IsTable(T) /\ Unread(T) = Unread(S) \ {addr}
<1>1. S[addr].next \in Nat \ {0}
  BY DEF IsTable, Session
<1>2. ~Opening(T[addr])
  BY <1>1 DEF Opening, IsAdvanced
<1>3. IsTable(T)
  BY DEF IsTable, IsAdvanced
<1>4. Unread(T) = Unread(S) \ {addr}
  BY <1>2 DEF Unread, IsAdvanced
<1> QED
  BY <1>3, <1>4

LEMMA AdvancedByWrap ==
  ASSUME NEW S, IsTable(S), Everyone \in DOMAIN S
  PROVE  IsAdvanced(S, Everyone, [S EXCEPT ![Everyone].next = @ + 1])
BY DEF IsTable, IsAdvanced, Session

LEMMA AdvancedByUnwrap ==
  ASSUME NEW S, IsTable(S), NEW addr \in DOMAIN S, addr # Everyone, Opening(S[addr])
  PROVE  IsAdvanced(S, addr, [S EXCEPT ![addr].next = @ + 1, ![addr].active = FALSE])
<1> DEFINE T == [S EXCEPT ![addr].next = @ + 1, ![addr].active = FALSE]
           r == S[addr]
           u == [r EXCEPT !.next = r.next + 1]
<1>1. u \in Session /\ u.next = r.next + 1 /\ u.role = "responder" /\ r.next = 1
  BY DEF IsTable, Session, Opening
<1>2. T[addr] = [u EXCEPT !.active = FALSE]
  OBVIOUS
<1>3. DOMAIN T = DOMAIN S /\ \A a \in DOMAIN S \ {addr} : T[a] = S[a]
  OBVIOUS
<1> HIDE DEF T, u
<1>4. T[addr] \in Session
  BY <1>1, <1>2 DEF Session
<1>5. T[addr].next = u.next /\ T[addr].role = u.role /\ T[addr].active = FALSE
  BY <1>1, <1>2 DEF Session
<1>6. OfSender(T[addr])
  BY <1>1, <1>5 DEF OfSender
<1> QED
  BY <1>1, <1>3, <1>4, <1>5, <1>6 DEF IsAdvanced, T

(* wrap opens no session that waits for a first message, and what it sends *)
(* of a handshake is no envelope.                                          *)
LEMMA WrapUnread ==
  ASSUME NEW S, IsTable(S), NEW me, NEW content, NEW t \in Nat,
         NEW w \in Wrap(S, Everyone, me, content, t)
  PROVE  /\ IsTable(w.sessions)
         /\ Unread(w.sessions) \subseteq Unread(S)
         /\ \A d \in w.sent : d.from = me /\ (d.kind = "handshake" => d.content = NoContent)
<1>1. PICK kept \in EvictStale(S, t) :
        w = LET open == Touched(kept, Everyone, "initiator", t)
                s == open[Everyone]
            IN  IF s.active
                THEN [sessions |-> open, sent |-> {[from |-> me, kind |-> "transport", number |-> 0,
                                                    content |-> content, fits |-> TRUE]}]
                ELSE IF MyTurn(s)
                THEN [sessions |-> [open EXCEPT ![Everyone].next = @ + 1],
                      sent |-> {[from |-> me, kind |-> "handshake", number |-> s.next,
                                 content |-> NoContent, fits |-> TRUE]}]
                ELSE [sessions |-> open, sent |-> {}]
  BY DEF Wrap
<1> DEFINE open == Touched(kept, Everyone, "initiator", t)
<1>2. IsTable(kept) /\ Unread(kept) \subseteq Unread(S)
  BY EvictedIsTable
<1>3. /\ IsTable(open) /\ Everyone \in DOMAIN open
      /\ Unread(open) \ {Everyone} = Unread(kept) \ {Everyone}
      /\ Everyone \in DOMAIN kept => (Opening(open[Everyone]) <=> Everyone \in Unread(kept))
      /\ Everyone \notin DOMAIN kept => ~Opening(open[Everyone])
  BY <1>2, TouchedSession
<1>4. w.sessions = open \/ w.sessions = [open EXCEPT ![Everyone].next = @ + 1]
  BY <1>1
<1>5. \A d \in w.sent : d.from = me /\ (d.kind = "handshake" => d.content = NoContent)
  BY <1>1
<1> HIDE DEF open
<1>6. Unread(open) \subseteq Unread(kept)
  <2>1. Everyone \notin DOMAIN kept => Everyone \notin Unread(open)
    BY <1>3 DEF Unread
  <2> QED
    BY <1>3, <2>1 DEF Unread
<1>7. IsTable(w.sessions) /\ Unread(w.sessions) \subseteq Unread(open)
  BY <1>3, <1>4, AdvancedByWrap, Advanced
<1> QED
  BY <1>2, <1>5, <1>6, <1>7

(* unwrap, of what any address but that of broadcasts sends: bytes that    *)
(* are not read may open a session, and the only ones that are read are    *)
(* the first message of a session that has read none.                      *)
Unreadable(S, d, read) ==
  /\ read.plain = {}
  /\ Unread(read.sessions) \subseteq Unread(S) \cup (IF read.opened THEN {d.from} ELSE {})

ReadFirst(S, d, read) ==
  /\ read.plain = {NoContent}
  /\ Unread(read.sessions) \subseteq Unread(S) \ {d.from}
  /\ read.opened = TRUE \/ d.from \in Unread(S)

LEMMA UnwrapUnread ==
  ASSUME NEW S, IsTable(S), NEW d, d.from # Everyone, NEW t \in Nat, NEW read \in Unwrap(S, d, t)
  PROVE  /\ IsTable(read.sessions)
         /\ read.opened \in BOOLEAN
         /\ Unreadable(S, d, read) \/ ReadFirst(S, d, read)
<1>1. PICK kept \in EvictStale(S, t) :
        read = LET open == Touched(kept, d.from, "responder", t)
                   s == open[d.from]
               IN  IF ~Readable(s, d)
                   THEN [sessions |-> open, opened |-> d.from \notin DOMAIN kept, plain |-> {}]
                   ELSE IF s.active
                   THEN [sessions |-> open, opened |-> FALSE, plain |-> {d.content}]
                   ELSE [sessions |-> [open EXCEPT ![d.from].next = @ + 1,
                                                   ![d.from].active = s.next = 3],
                         opened |-> d.from \notin DOMAIN kept, plain |-> {NoContent}]
  BY DEF Unwrap
<1> DEFINE open == Touched(kept, d.from, "responder", t)
           s == open[d.from]
<1>2. IsTable(kept) /\ Unread(kept) \subseteq Unread(S)
  BY EvictedIsTable
<1>3. /\ IsTable(open) /\ d.from \in DOMAIN open
      /\ Unread(open) \ {d.from} = Unread(kept) \ {d.from}
      /\ d.from \in DOMAIN kept => (Opening(open[d.from]) <=> d.from \in Unread(kept))
      /\ d.from \notin DOMAIN kept => Opening(open[d.from])
  BY <1>2, TouchedSession
<1>4. s \in Session /\ OfSender(s)
  BY <1>3 DEF IsTable
<1>5. CASE ~Readable(s, d)
  <2>1. /\ read.sessions = open /\ read.plain = {}
        /\ read.opened = (d.from \notin DOMAIN kept)
    BY <1>1, <1>5
  <2> HIDE DEF open
  <2>2. d.from \in DOMAIN kept => Unread(open) \subseteq Unread(kept)
    BY <1>3 DEF Unread
  <2>3. Unread(open) \subseteq Unread(kept) \cup {d.from}
    BY <1>3
  <2> QED
    BY <1>2, <1>3, <2>1, <2>2, <2>3 DEF Unreadable
<1>6. CASE Readable(s, d)
  <2>0. s.active = FALSE /\ s.next = 1 /\ Opening(s)
    <3> HIDE DEF s
    <3> QED
      BY <1>4, <1>6 DEF Readable, MyTurn, Opening, OfSender
  <2>1. /\ read.sessions = [open EXCEPT ![d.from].next = @ + 1, ![d.from].active = FALSE]
        /\ read.plain = {NoContent}
        /\ read.opened = (d.from \notin DOMAIN kept)
    <3>1. (s.next = 3) = FALSE
      BY <2>0
    <3> QED
      BY <1>1, <1>6, <2>0, <3>1
  <2> HIDE DEF open
  <2>2. IsTable(read.sessions) /\ Unread(read.sessions) = Unread(open) \ {d.from}
    <3>1. IsAdvanced(open, d.from, read.sessions)
      BY <1>3, <2>0, <2>1, AdvancedByUnwrap
    <3> QED
      BY <1>3, <3>1, Advanced
  <2>3. d.from \in DOMAIN kept => d.from \in Unread(kept)
    BY <1>3, <2>0
  <2> QED
    BY <1>2, <1>3, <2>1, <2>2, <2>3 DEF ReadFirst
<1> QED
  BY <1>5, <1>6

-----------------------------------------------------------------------------
(* Those of one ip.                                                        *)
Count(S, i) == Cardinality({a \in Unread(S) : Ip(a) = i})

LEMMA UnreadFinite ==
  ASSUME NEW S, IsTable(S), NEW i
  PROVE  IsFiniteSet({a \in Unread(S) : Ip(a) = i}) /\ Count(S, i) \in Nat
<1>1. {a \in Unread(S) : Ip(a) = i} \subseteq DOMAIN S
  BY DEF Unread
<1> QED
  BY <1>1, FS_Subset, FS_CardinalityType DEF IsTable, Count

LEMMA CountNotMore ==
  ASSUME NEW S, NEW T, IsTable(S), IsTable(T), NEW b, Unread(T) \subseteq Unread(S) \cup {b}, NEW i,
         i # Ip(b) \/ Unread(T) \subseteq Unread(S)
  PROVE  Count(T, i) <= Count(S, i)
<1> DEFINE A == {a \in Unread(S) : Ip(a) = i}
           B == {a \in Unread(T) : Ip(a) = i}
<1>1. B \subseteq A /\ Count(S, i) = Cardinality(A) /\ Count(T, i) = Cardinality(B)
  BY DEF Count
<1>2. IsFiniteSet(A)
  BY UnreadFinite
<1> HIDE DEF A, B
<1> QED
  BY <1>1, <1>2, FS_Subset

LEMMA CountOneMore ==
  ASSUME NEW S, NEW T, IsTable(S), IsTable(T), NEW b, Unread(T) \subseteq Unread(S) \cup {b}, NEW i
  PROVE  Count(T, i) <= Count(S, i) + 1
<1> DEFINE A == {a \in Unread(S) : Ip(a) = i}
           B == {a \in Unread(T) : Ip(a) = i}
<1>1. B \subseteq A \cup {b} /\ Count(S, i) = Cardinality(A) /\ Count(T, i) = Cardinality(B)
  BY DEF Count
<1>2. IsFiniteSet(A) /\ IsFiniteSet(B) /\ Cardinality(A) \in Nat
  BY UnreadFinite, FS_CardinalityType
<1> HIDE DEF A, B
<1>3. IsFiniteSet(A \cup {b}) /\ Cardinality(A \cup {b}) <= Cardinality(A) + 1
  BY <1>2, FS_AddElement
<1>4. Cardinality(B) <= Cardinality(A \cup {b}) /\ Cardinality(A \cup {b}) \in Nat
      /\ Cardinality(B) \in Nat
  BY <1>1, <1>2, <1>3, FS_Subset, FS_CardinalityType
<1> QED
  BY <1>1, <1>2, <1>3, <1>4

LEMMA CountOneLess ==
  ASSUME NEW S, NEW T, IsTable(S), IsTable(T), NEW b \in Unread(S),
         Unread(T) \subseteq Unread(S) \ {b}
  PROVE  Count(T, Ip(b)) + 1 <= Count(S, Ip(b))
<1> DEFINE A == {a \in Unread(S) : Ip(a) = Ip(b)}
           B == {a \in Unread(T) : Ip(a) = Ip(b)}
<1>1. /\ B \subseteq A \ {b} /\ b \in A
      /\ Count(S, Ip(b)) = Cardinality(A) /\ Count(T, Ip(b)) = Cardinality(B)
  BY DEF Count
<1>2. IsFiniteSet(A) /\ IsFiniteSet(B) /\ Cardinality(A) \in Nat
  BY UnreadFinite, FS_CardinalityType
<1> HIDE DEF A, B
<1>3. IsFiniteSet(A \ {b}) /\ Cardinality(A \ {b}) = Cardinality(A) - 1
  BY <1>1, <1>2, FS_RemoveElement
<1>4. Cardinality(B) <= Cardinality(A \ {b}) /\ Cardinality(B) \in Nat
  BY <1>1, <1>2, <1>3, FS_Subset, FS_CardinalityType
<1> QED
  BY <1>1, <1>2, <1>3, <1>4

-----------------------------------------------------------------------------
(* An ip is blamed for what came bad, or for a session that was opened for *)
(* it and then read its first message: the sessions that have read none    *)
(* are causes it has not been blamed for yet.                              *)
BlameInv ==
  /\ now \in Nat
  /\ DOMAIN tables = Peers
  /\ IsTable(tables[Me])
  /\ \A d \in wire : d.from \in Peers /\ (d.kind = "handshake" => d.content = NoContent)
  /\ health \in [Ips -> Nat] /\ causes \in [Ips -> Nat]
  /\ \A i \in Ips : health[i] + Count(tables[Me], i) <= causes[i]

LEMMA InitBlameInv == Init => BlameInv
<1> SUFFICES ASSUME Init PROVE BlameInv
  OBVIOUS
<1>1. DOMAIN tables = Peers /\ tables[Me] = << >>
  BY NetworkAssumption DEF Init
<1>2. IsTable(tables[Me])
  BY <1>1, FS_EmptySet DEF IsTable
<1>3. ASSUME NEW i \in Ips
      PROVE  Count(tables[Me], i) = 0
  <2>1. {a \in Unread(tables[Me]) : Ip(a) = i} = {}
    BY <1>1 DEF Unread
  <2> QED
    BY <2>1, FS_EmptySet DEF Count
<1> QED
  BY <1>1, <1>2, <1>3 DEF Init, BlameInv

(* What listen does with a datagram: the blame and the sessions that wait  *)
(* grow by no more than the causes.                                        *)
LEMMA BlamedNoMore ==
  ASSUME BlameInv, NEW i \in Ips, NEW T, IsTable(T), NEW blame \in Nat, NEW cause \in Nat,
         \A j \in Ips \ {i} : Count(T, j) <= Count(tables[Me], j),
         Count(T, i) + blame <= Count(tables[Me], i) + cause,
         tables' = [tables EXCEPT ![Me] = T],
         health' = [health EXCEPT ![i] = @ + blame],
         causes' = [causes EXCEPT ![i] = @ + cause],
         UNCHANGED <<now, wire>>
  PROVE  BlameInv'
<1>1. DOMAIN tables' = Peers /\ tables'[Me] = T
  BY NetworkAssumption DEF BlameInv
<1>2. \A j \in Ips : health[j] \in Nat /\ causes[j] \in Nat
  BY DEF BlameInv
<1>3. health' \in [Ips -> Nat] /\ causes' \in [Ips -> Nat]
  BY <1>2 DEF BlameInv
<1>4. ASSUME NEW j \in Ips
      PROVE  health'[j] + Count(T, j) <= causes'[j]
  <2>1. Count(T, j) \in Nat /\ Count(tables[Me], j) \in Nat
    BY UnreadFinite DEF BlameInv
  <2>2. health[j] + Count(tables[Me], j) <= causes[j]
    BY DEF BlameInv
  <2>3. CASE j = i
    <3>1. health'[j] = health[j] + blame /\ causes'[j] = causes[j] + cause
      BY <2>3 DEF BlameInv
    <3> QED
      BY <1>2, <2>1, <2>2, <2>3, <3>1
  <2>4. CASE j # i
    <3>1. health'[j] = health[j] /\ causes'[j] = causes[j]
      BY <2>4 DEF BlameInv
    <3>2. Count(T, j) <= Count(tables[Me], j)
      BY <2>4
    <3> QED
      BY <1>2, <2>1, <2>2, <3>1, <3>2
  <2> QED
    BY <2>3, <2>4
<1> QED
  BY <1>1, <1>3, <1>4 DEF BlameInv

LEMMA Sender ==
  ASSUME BlameInv, NEW d \in Datagrams
  PROVE  Ip(d.from) \in Ips /\ d.from # Everyone /\ (d.kind = "handshake" => d.content = NoContent)
BY NetworkAssumption DEF BlameInv, Datagrams, Ips

(* An envelope that is good or known is no cause, and nobody is blamed.    *)
LEMMA NotBlamed ==
  ASSUME BlameInv, NEW d \in Datagrams, NEW read \in Unwrap(tables[Me], d, now),
         Unreadable(tables[Me], d, read),
         tables' = [tables EXCEPT ![Me] = read.sessions],
         causes' = [causes EXCEPT ![Ip(d.from)] = @ + Cause(read, FALSE)],
         UNCHANGED <<now, wire, health>>
  PROVE  BlameInv'
<1> DEFINE i == Ip(d.from)
           S == tables[Me]
           T == read.sessions
           cause == Cause(read, FALSE)
<1>1. IsTable(S) /\ now \in Nat /\ health \in [Ips -> Nat]
  BY DEF BlameInv
<1>2. i \in Ips /\ d.from # Everyone
  BY Sender
<1>3. IsTable(T) /\ read.opened \in BOOLEAN
  BY <1>1, <1>2, UnwrapUnread
<1>4. cause = IF read.opened THEN 1 ELSE 0
  BY DEF Cause
<1>5. Unread(T) \subseteq Unread(S) \cup {d.from} /\ (read.opened \/ Unread(T) \subseteq Unread(S))
  BY DEF Unreadable
<1> HIDE DEF S, T, cause
<1>6. \A j \in Ips : Count(S, j) \in Nat /\ Count(T, j) \in Nat
  BY <1>1, <1>3, UnreadFinite
<1>7. \A j \in Ips \ {i} : Count(T, j) <= Count(S, j)
  BY <1>1, <1>3, <1>5, CountNotMore
<1>8. Count(T, i) + 0 <= Count(S, i) + cause
  <2>1. CASE read.opened
    BY <1>1, <1>2, <1>3, <1>4, <1>5, <1>6, <2>1, CountOneMore
  <2>2. CASE ~read.opened
    <3>1. Count(T, i) <= Count(S, i)
      BY <1>1, <1>3, <1>5, <2>2, CountNotMore
    <3> QED
      BY <1>2, <1>4, <1>6, <2>2, <3>1
  <2> QED
    BY <2>1, <2>2
<1>9. cause \in Nat
  BY <1>4
<1>10. health' = [health EXCEPT ![i] = @ + 0]
  BY <1>1, <1>2
<1>11. tables' = [tables EXCEPT ![Me] = T] /\ causes' = [causes EXCEPT ![i] = @ + cause]
  BY DEF T, cause
<1>12. \A j \in Ips \ {i} : Count(T, j) <= Count(tables[Me], j)
  BY <1>7 DEF S
<1>13. Count(T, i) + 0 <= Count(tables[Me], i) + cause
  BY <1>8 DEF S
<1> HIDE DEF i
<1> QED
  BY <1>2, <1>3, <1>9, <1>10, <1>11, <1>12, <1>13, BlamedNoMore

(* What counts against its sender came bad, or it is what a session left   *)
(* of its first message, and opening that session was a cause.             *)
LEMMA BlamedOnce ==
  ASSUME BlameInv, NEW d \in Datagrams, NEW read \in Unwrap(tables[Me], d, now),
         NEW content \in Plain(d, read), Suspect(content),
         tables' = [tables EXCEPT ![Me] = read.sessions],
         causes' = [causes EXCEPT ![Ip(d.from)] = @ + Cause(read, Bad(d, read))],
         health' = [health EXCEPT ![Ip(d.from)] = @ + 1],
         UNCHANGED <<now, wire>>
  PROVE  BlameInv'
<1> DEFINE i == Ip(d.from)
           S == tables[Me]
           T == read.sessions
           bad == Bad(d, read)
           opened == IF read.opened THEN 1 ELSE 0
           cause == Cause(read, bad)
<1>1. IsTable(S) /\ now \in Nat
  BY DEF BlameInv
<1>2. i \in Ips /\ d.from # Everyone
  BY Sender
<1>3. IsTable(T) /\ (Unreadable(S, d, read) \/ ReadFirst(S, d, read))
  BY <1>1, <1>2, UnwrapUnread
<1>4. /\ bad => cause = opened + 1
      /\ ~bad => cause = opened
      /\ opened \in 0..1
  BY DEF Cause
<1>5. Unreadable(S, d, read) => bad
  <2>1. SUFFICES ASSUME Unreadable(S, d, read) PROVE bad
    OBVIOUS
  <2>2. read.plain = {}
    BY <2>1 DEF Unreadable
  <2>3. content = d.content /\ ~noiseRequired
    BY <2>2 DEF Plain
  <2> QED
    BY <2>2, <2>3 DEF Bad, Suspect
<1>6. Unread(T) \subseteq Unread(S) \cup {d.from}
  BY <1>3 DEF Unreadable, ReadFirst
<1>7. Unreadable(S, d, read) /\ ~read.opened => Unread(T) \subseteq Unread(S)
  BY DEF Unreadable
<1>8. ASSUME ReadFirst(S, d, read)
      PROVE  /\ Unread(T) \subseteq Unread(S) \ {d.from}
             /\ read.opened \/ d.from \in Unread(S)
  BY <1>8 DEF ReadFirst
<1>9. read.opened => opened = 1
  OBVIOUS
<1> HIDE DEF S, T, bad, cause, opened
<1>10. \A j \in Ips : Count(S, j) \in Nat /\ Count(T, j) \in Nat
  BY <1>1, <1>3, UnreadFinite
<1>11. \A j \in Ips \ {i} : Count(T, j) <= Count(S, j)
  BY <1>1, <1>3, <1>6, CountNotMore
<1>12. Count(T, i) <= Count(S, i) + 1
  BY <1>1, <1>3, <1>6, CountOneMore
<1>13. Unread(T) \subseteq Unread(S) => Count(T, i) <= Count(S, i)
  BY <1>1, <1>3, CountNotMore
<1>14. cause \in Nat
  BY <1>4
<1>15. Count(T, i) + 1 <= Count(S, i) + cause
  <2>1. CASE Unreadable(S, d, read) /\ read.opened
    BY <1>2, <1>4, <1>5, <1>9, <1>10, <1>12, <2>1
  <2>2. CASE Unreadable(S, d, read) /\ ~read.opened
    <3>1. Count(T, i) <= Count(S, i) /\ cause = opened + 1
      BY <1>4, <1>5, <1>7, <1>13, <2>2
    <3> QED
      BY <1>2, <1>4, <1>10, <3>1
  <2>3. CASE ReadFirst(S, d, read) /\ read.opened
    <3>1. Unread(T) \subseteq Unread(S)
      BY <1>8, <2>3
    <3>2. Count(T, i) <= Count(S, i)
      BY <1>13, <3>1
    <3>3. cause >= 1
      BY <1>4, <1>9, <2>3
    <3> QED
      BY <1>2, <1>10, <1>14, <3>2, <3>3
  <2>4. CASE ReadFirst(S, d, read) /\ d.from \in Unread(S)
    <3>1. Count(T, i) + 1 <= Count(S, i)
      BY <1>1, <1>3, <1>8, <2>4, CountOneLess
    <3> QED
      BY <1>2, <1>10, <1>14, <3>1
  <2> QED
    BY <1>3, <1>8, <2>1, <2>2, <2>3, <2>4
<1>16. /\ tables' = [tables EXCEPT ![Me] = T]
       /\ health' = [health EXCEPT ![i] = @ + 1]
       /\ causes' = [causes EXCEPT ![i] = @ + cause]
  BY DEF T, cause, bad
<1>17. /\ \A j \in Ips \ {i} : Count(T, j) <= Count(tables[Me], j)
       /\ Count(T, i) + 1 <= Count(tables[Me], i) + cause
  BY <1>11, <1>15 DEF S
<1> HIDE DEF i
<1> QED
  BY <1>2, <1>3, <1>14, <1>16, <1>17, BlamedNoMore

LEMMA BroadcastBlameInv ==
  ASSUME BlameInv, NEW p \in Peers, NEW e \in Envelopes, Broadcast(p, e)
  PROVE  BlameInv'
<1> DEFINE sent == Signed(p, [e EXCEPT !.ttl = @ - 1])
<1>1. PICK w \in Wrap(tables[p], Everyone, p, sent, now) :
        tables' = [tables EXCEPT ![p] = w.sessions] /\ wire' = wire \cup w.sent
  BY DEF Broadcast
<1> HIDE DEF sent
<1>2. UNCHANGED <<now, health, causes>>
  BY DEF Broadcast, history
<1>3. now \in Nat /\ IsTable(tables[Me]) /\ DOMAIN tables = Peers /\ Me \in Peers
  BY NetworkAssumption DEF BlameInv
<1>4. DOMAIN tables' = Peers
  BY <1>1, <1>3
<1>5. \A d \in w.sent : d.from = p /\ (d.kind = "handshake" => d.content = NoContent)
  BY <1>1 DEF Wrap
<1>6. IsTable(tables'[Me]) /\ Unread(tables'[Me]) \subseteq Unread(tables[Me])
  <2>1. CASE p = Me
    <3>1. tables'[Me] = w.sessions
      BY <1>1, <1>3, <2>1
    <3> QED
      BY <1>1, <1>3, <2>1, <3>1, WrapUnread
  <2>2. CASE p # Me
    BY <1>1, <1>3, <2>2
  <2> QED
    BY <2>1, <2>2
<1>7. ASSUME NEW i \in Ips
      PROVE  health'[i] + Count(tables'[Me], i) <= causes'[i]
  <2>1. PICK T : T = tables'[Me]
    OBVIOUS
  <2>2. Count(T, i) <= Count(tables[Me], i) /\ Count(T, i) \in Nat /\ Count(tables[Me], i) \in Nat
    BY <1>3, <1>6, <2>1, CountNotMore, UnreadFinite
  <2>3. health[i] + Count(tables[Me], i) <= causes[i] /\ health[i] \in Nat /\ causes[i] \in Nat
    BY DEF BlameInv
  <2>4. health[i] + Count(T, i) <= causes[i]
    BY <2>2, <2>3
  <2> QED
    BY <1>2, <2>1, <2>4
<1> QED
  BY <1>1, <1>2, <1>4, <1>5, <1>6, <1>7 DEF BlameInv

LEMMA NextBlameInv == BlameInv /\ [Next]_vars => BlameInv'
<1> SUFFICES ASSUME BlameInv, [Next]_vars PROVE BlameInv'
  OBVIOUS
<1>1. IsTable(tables[Me]) /\ now \in Nat
  BY DEF BlameInv
<1>2. ASSUME NEW d \in Datagrams, Ignore(d) \/ Accept(d)
      PROVE  BlameInv'
  <2>1. PICK read \in Unwrap(tables[Me], d, now) :
          /\ tables' = [tables EXCEPT ![Me] = read.sessions]
          /\ causes' = [causes EXCEPT ![Ip(d.from)] = @ + Cause(read, FALSE)]
          /\ \/ \A content \in Plain(d, read) : ~Suspect(content)
             \/ \E content \in Plain(d, read) : ~Suspect(content)
    BY <1>2 DEF Ignore, Accept, Unwrapped
  <2>2. read.plain # {NoContent}
    BY <2>1 DEF Plain, Suspect, Parses
  <2>3. Unreadable(tables[Me], d, read)
    <3>1. Unreadable(tables[Me], d, read) \/ ReadFirst(tables[Me], d, read)
      BY <1>1, Sender, UnwrapUnread
    <3> QED
      BY <2>2, <3>1 DEF ReadFirst
  <2>4. UNCHANGED <<now, wire, health>>
    BY <1>2 DEF Ignore, Accept
  <2> QED
    BY <2>1, <2>3, <2>4, NotBlamed
<1>3. ASSUME NEW d \in Datagrams, Blame(d)
      PROVE  BlameInv'
  <2>1. PICK read \in Unwrap(tables[Me], d, now) :
          /\ tables' = [tables EXCEPT ![Me] = read.sessions]
          /\ \E content \in Plain(d, read) : Suspect(content)
          /\ causes' = [causes EXCEPT ![Ip(d.from)] = @ + Cause(read, Bad(d, read))]
    BY <1>3 DEF Blame, Unwrapped
  <2>2. health' = [health EXCEPT ![Ip(d.from)] = @ + 1] /\ UNCHANGED <<now, wire>>
    BY <1>3 DEF Blame
  <2> QED
    BY <2>1, <2>2, BlamedOnce
<1>4. ASSUME UNCHANGED <<now, wire, tables, health, causes>>
      PROVE  BlameInv'
  BY <1>4 DEF BlameInv, IsTable, Count, Unread
<1>5. ASSUME NEW d \in Datagrams, DropEarly(d)
      PROVE  BlameInv'
  BY <1>4, <1>5 DEF DropEarly
<1>6. CASE Acquire \/ Dispatch \/ \E k \in DOMAIN tasks : TaskSend(k)
  BY <1>4, <1>6 DEF Acquire, Dispatch, TaskSend, history
<1>7. CASE Tick
  <2>1. now' \in Nat /\ UNCHANGED <<wire, tables, health, causes>>
    BY <1>1, <1>7 DEF Tick, history
  <2> QED
    BY <2>1 DEF BlameInv, IsTable, Count, Unread
<1>8. CASE UNCHANGED vars
  BY <1>4, <1>8 DEF vars, history
<1> QED
  BY <1>2, <1>3, <1>5, <1>6, <1>7, <1>8, BroadcastBlameInv DEF Next

(* listen: the failures counted against an ip, which nothing lowers, are   *)
(* no more than the sessions opened for it, the envelopes that came bad    *)
(* and, unless Noise is required, the handshake messages that no session   *)
(* could read (a repeated one is one).  Good envelopes, repeated, late or  *)
(* reordered ones among them, add nothing but the sessions they open, for  *)
(* any table size, and whatever evict_stale drops.                         *)
THEOREM BlameHasACause == Spec => []BlamedForCause
<1>1. BlameInv => BlamedForCause
  <2> SUFFICES ASSUME BlameInv, NEW i \in Ips PROVE health[i] <= causes[i]
    BY DEF BlamedForCause
  <2>1. health[i] + Count(tables[Me], i) <= causes[i] /\ health[i] \in Nat /\ causes[i] \in Nat
    BY DEF BlameInv
  <2>2. Count(tables[Me], i) \in Nat
    BY UnreadFinite DEF BlameInv
  <2> QED
    BY <2>1, <2>2
<1> QED
  BY <1>1, InitBlameInv, NextBlameInv, PTL DEF Spec
=============================================================================
