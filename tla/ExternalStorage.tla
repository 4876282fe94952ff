--------------------------- MODULE ExternalStorage ---------------------------
(***************************************************************************)
(* external_storage/ and external_storage_redis/: the codec server's       *)
(* /encode, /decode and /download, over an external storage with the Redis *)
(* driver.  Encoding compresses the payloads, replaces the large ones by   *)
(* references to Redis, and may wrap what is left; decoding undoes it, and *)
(* a client that asks to keep the references downloads them later.         *)
(*                                                                         *)
(* A payload is a term: Plain, Gzip of a payload, Ref to a key, or Wrapped *)
(* by the codec of a proxy.  The key is the hash of the payload, that is   *)
(* the payload.  What exceeds the threshold, and the keys' expiry, are     *)
(* external.                                                               *)
(***************************************************************************)
EXTENDS Naturals, Sequences, FiniteSets, Functions, TLC

CONSTANTS
  Clients,
  Values, Large,     \* contents of payloads; those too large to stay inline
  NumPayloads,       \* payloads in a request
  TTL, MaxTime       \* the driver's ttl; bound: the clock

Plain(v) == [kind |-> "plain", of |-> v]
Gzip(p) == [kind |-> "gzip", of |-> p]
Ref(k) == [kind |-> "ref", of |-> k]
Wrapped(p) == [kind |-> "wrapped", of |-> p]

Messages == [1..NumPayloads -> {Plain(v) : v \in Values}]

StorageAssumption == TTL \in Nat

VARIABLES
  prestorage_codec, poststorage_codec,   \* whether payload_routes was given them
  redis,             \* for every key that was ever set: when it expires
  now,
  request,           \* each client's request: what the server does with it
  payloads,          \* the payloads, as far as they are transformed
  storing,           \* the positions _gather_with_cancellation still has to store
  original,          \* what the client had at first
  first_stored       \* when each payload was stored the first time

vars == <<prestorage_codec, poststorage_codec, redis, now, request, payloads, storing, original, first_stored>>

Init ==
  /\ prestorage_codec \in BOOLEAN /\ poststorage_codec \in BOOLEAN
  /\ redis = <<>> /\ now = 0
  /\ request = [c \in Clients |-> "idle"]
  /\ original \in [Clients -> Messages]
  /\ payloads = original
  /\ storing = [c \in Clients |-> {}]
  /\ first_stored = <<>>
-----------------------------------------------------------------------------
(* The codecs and the driver.                                              *)

Each(f(_), ps) == [i \in DOMAIN ps |-> f(ps[i])]

encode(p) == Gzip(p)
decode(p) == IF p.kind = "gzip" THEN p.of ELSE p

is_storage_reference(p) == p.kind = "ref"
decode_refs_too(ps) ==   \* mutant: one reference exempts the whole request
  IF ~prestorage_codec \/ \E i \in DOMAIN ps : is_storage_reference(ps[i]) THEN ps ELSE Each(decode, ps)
decode_non_refs(ps) ==
  IF ~prestorage_codec THEN ps
  ELSE [i \in DOMAIN ps |-> IF is_storage_reference(ps[i]) THEN ps[i] ELSE decode(ps[i])]

IsLarge(p) == IF p.kind = "gzip" THEN p.of.of \in Large ELSE p.of \in Large

\* The first writer's expiry stays.
With(f, k, v) == [x \in DOMAIN f \cup {k} |-> IF x = k THEN v ELSE f[x]]
Has(k) == k \in DOMAIN redis /\ redis[k] > now
SetTooShort(k) == IF Has(k) THEN redis ELSE With(redis, k, now + TTL - 1)  \* mutant: the ttl is rounded down
set_if_absent(k) == IF Has(k) THEN redis ELSE With(redis, k, now + TTL)
FirstStored(k) == IF k \in DOMAIN first_stored THEN first_stored ELSE With(first_stored, k, now)

\* All claims are retrieved, or the first error is raised.
retrieve(ps) == [i \in DOMAIN ps |-> IF is_storage_reference(ps[i]) THEN ps[i].of ELSE ps[i]]
AllFound(ps) == \A i \in DOMAIN ps : is_storage_reference(ps[i]) => Has(ps[i].of)
-----------------------------------------------------------------------------
(* The handlers.                                                           *)

Answer(c, r, ps) ==
  /\ request' = [request EXCEPT ![c] = r]
  /\ payloads' = [payloads EXCEPT ![c] = ps]

\* /encode up to the storing.
EncodeHandler(c) ==
  LET ps == IF prestorage_codec THEN Each(encode, payloads[c]) ELSE payloads[c] IN
  /\ request[c] = "idle"
  /\ Answer(c, "storing", ps)
  /\ storing' = [storing EXCEPT ![c] = {i \in DOMAIN ps : IsLarge(ps[i])}]
  /\ UNCHANGED <<prestorage_codec, poststorage_codec, redis, now, original, first_stored>>

\* One of the concurrent stores; they end in any order.
StorePayload(c) ==
  /\ request[c] = "storing"
  /\ \E i \in storing[c] :
       /\ redis' = set_if_absent(payloads[c][i])
       /\ first_stored' = FirstStored(payloads[c][i])
       /\ payloads' = [payloads EXCEPT ![c][i] = Ref(@)]
       /\ storing' = [storing EXCEPT ![c] = @ \ {i}]
  /\ UNCHANGED <<prestorage_codec, poststorage_codec, now, request, original>>

\* Redis fails one of them: the others are cancelled.  The client tries again.
StoreFails(c) ==
  /\ request[c] = "storing" /\ storing[c] # {}
  /\ Answer(c, "idle", original[c])
  /\ storing' = [storing EXCEPT ![c] = {}]
  /\ UNCHANGED <<prestorage_codec, poststorage_codec, redis, now, original, first_stored>>

Stored(c) ==
  /\ request[c] = "storing" /\ storing[c] = {}
  /\ Answer(c, "encoded", IF poststorage_codec THEN Each(Wrapped, payloads[c]) ELSE payloads[c])
  /\ UNCHANGED <<prestorage_codec, poststorage_codec, redis, now, storing, original, first_stored>>

Unwrapped(ps) == IF poststorage_codec THEN [i \in DOMAIN ps |-> ps[i].of] ELSE ps
DecodeHandler(c) ==
  LET ps == Unwrapped(payloads[c]) IN
  /\ request[c] = "encoded"
  /\ IF AllFound(ps) THEN Answer(c, "decoded", decode_non_refs(retrieve(ps)))
                     ELSE Answer(c, "not found", payloads[c])
  /\ UNCHANGED <<prestorage_codec, poststorage_codec, redis, now, storing, original, first_stored>>

\* With preserveStorageRefs.
DecodePreserving(c) ==
  /\ request[c] = "encoded"
  /\ Answer(c, "preserved", decode_non_refs(Unwrapped(payloads[c])))
  /\ UNCHANGED <<prestorage_codec, poststorage_codec, redis, now, storing, original, first_stored>>

\* The client sends the references alone, and puts the answer in their places.
DownloadHandler(c) ==
  LET refs == {i \in DOMAIN payloads[c] : is_storage_reference(payloads[c][i])}
      sent == [i \in refs |-> payloads[c][i]]
      got == decode_non_refs(retrieve(sent))
  IN
  /\ request[c] = "preserved"
  /\ IF AllFound(sent)
     THEN Answer(c, "decoded", [i \in DOMAIN payloads[c] |-> IF i \in refs THEN got[i] ELSE payloads[c][i]])
     ELSE Answer(c, "not found", payloads[c])
  /\ UNCHANGED <<prestorage_codec, poststorage_codec, redis, now, storing, original, first_stored>>

Tick ==
  /\ now < MaxTime /\ now' = now + 1
  /\ UNCHANGED <<prestorage_codec, poststorage_codec, redis, request, payloads, storing, original, first_stored>>

Ended == (\A c \in Clients : request[c] \in {"decoded", "not found"}) /\ UNCHANGED vars
Serve(c) ==
  \/ EncodeHandler(c) \/ StorePayload(c) \/ StoreFails(c) \/ Stored(c)
  \/ DecodeHandler(c) \/ DecodePreserving(c) \/ DownloadHandler(c)
Next == (\E c \in Clients : Serve(c)) \/ Tick \/ Ended
Spec == Init /\ [][Next]_vars
-----------------------------------------------------------------------------
\* Whatever the codecs, and whichever way the client takes, it has in the end what it sent
\* at first, every payload in its place.
RoundTrip == \A c \in Clients : request[c] = "decoded" => payloads[c] = original[c]

\* A client is told that a payload is gone, one that had been stored the ttl before.
NotFoundAnswered(c) == request[c] # "not found" /\ request'[c] = "not found"
Expired(c) ==
  \E p \in DOMAIN first_stored :
    /\ Ref(p) \in Range(Unwrapped(payloads[c])) \/ Ref(p) \in Range(payloads[c])
    /\ first_stored[p] + TTL <= now
LostAfterTTL == \A c \in Clients : NotFoundAnswered(c) => Expired(c)

\* A payload is not lost before its time: when a reference does not resolve, somebody had
\* stored the payload at least the ttl before.  After a failure of the storage the next
\* attempt makes references that hold.
LostOnlyByTTL == [][LostAfterTTL]_vars
=============================================================================
