------------------------------ MODULE Lookups ------------------------------
(***************************************************************************)
(* What the services ask of public APIs: public-api.service.js, the        *)
(* currency validator and the IP validator.  Every lookup reads a key of   *)
(* Redis, on a miss asks the API, stores the answer with a time to live,   *)
(* and answers; they differ in their keys, in what goes into the try block,*)
(* and in what they do with an error.                                      *)
(*                                                                         *)
(* A datum is the time at which the API gave it.  Lookups that share no key*)
(* do not meet, so a behaviour has the lookups of one family.              *)
(***************************************************************************)
EXTENDS Integers, FiniteSets

CONSTANTS
    Lookers,            \* the calls, numbered
    Families,           \* sets of names of Service that share keys
    Minutes, Hour, Day, Week, Month,    \* the times to live
    MaxLookupTime,      \* the clock stops there
    MaxLookupFaults,    \* the failing calls of Redis
    NoData

ASSUME LookupAssumption ==
    /\ Lookers \subseteq Nat
    /\ {Minutes, Hour, Day, Week, Month} \subseteq Nat \ {0}
    /\ {MaxLookupTime, MaxLookupFaults} \subseteq Nat
    /\ NoData \notin Nat

(* The settings of a lookup: its key, the time to live, whether the read of*)
(* the key is inside the try block, what an error leads to, and whether it *)
(* may answer before it looks (disabled, from = to) or refuse the datum    *)
(* after (no such coin or currency).                                       *)
Plain(k, t) == [key |-> k, ttl |-> t, guarded |-> FALSE, onError |-> "throw",
                skips |-> FALSE, refuses |-> FALSE, counts |-> FALSE]

GetExchangeRates    == Plain("rates", Hour)
ConvertCurrency     == [Plain("rates", Hour) EXCEPT !.skips = TRUE, !.refuses = TRUE]
GetHistoricalRates  == Plain("historical", Day)
GetHistoricalRange  == Plain("range", Day)
GetCountryInfo      == Plain("country", Day)
GetCountries        == Plain("countries", Day)
GetVatRates         == Plain("vat", Day)
GetCryptoPrices     == [Plain("crypto", Minutes) EXCEPT !.onError = "GetCoinCap"]
ConvertToCrypto     == [GetCryptoPrices EXCEPT !.refuses = TRUE]
GetCoinCap          == Plain("coincap", Minutes)
LookupCardBin       == Plain("bin", Week)
LookupPostcode      == Plain("postcode", Month)
ValidateCurrency    == [Plain("currency", Hour) EXCEPT !.guarded = TRUE,
                          !.onError = "fallback", !.skips = TRUE]
ValidateIp          == [Plain("ip", Day) EXCEPT !.guarded = TRUE,
                          !.onError = "open", !.skips = TRUE, !.counts = TRUE]

Service ==
    [GetExchangeRates |-> GetExchangeRates, ConvertCurrency |-> ConvertCurrency,
     GetHistoricalRates |-> GetHistoricalRates,
     GetHistoricalRange |-> GetHistoricalRange,
     GetCountryInfo |-> GetCountryInfo, GetCountries |-> GetCountries,
     GetVatRates |-> GetVatRates, GetCryptoPrices |-> GetCryptoPrices,
     ConvertToCrypto |-> ConvertToCrypto, GetCoinCap |-> GetCoinCap,
     LookupCardBin |-> LookupCardBin, LookupPostcode |-> LookupPostcode,
     ValidateCurrency |-> ValidateCurrency, ValidateIp |-> ValidateIp]

LookupKeys == {Service[s].key : s \in DOMAIN Service}

ASSUME FamiliesAssumption == Families \subseteq SUBSET DOMAIN Service

VARIABLES
    family,         \* the lookups of this behaviour
    lookup,         \* lookup[q]: a call between two awaits
    lookupCache,    \* lookupCache[k]: the datum, the end of its life and, as
                    \* history, the time it was stored and who stored it
    lookupNow,      \* the clock
    lookupFaults,   \* what Redis has failed so far
    ipCalls,        \* cache:api_count:ipapi
    newest,         \* history: the newest datum answered from a key
    crossed         \* history: <<q, k>> when q was not alone in fetching k

lookupVars == <<family, lookup, lookupCache, lookupNow, lookupFaults, ipCalls,
                newest, crossed>>

NoLookup == [pc |-> "idle", service |-> "GetCountries", data |-> NoData,
             by |-> 0, waited |-> 0, age |-> 0, floor |-> 0, refuses |-> FALSE]
NoEntry == [data |-> NoData, expires |-> 0, stored |-> 0, by |-> 0]

LookupInit ==
    /\ family \in Families
    /\ lookup = [q \in Lookers |-> NoLookup]
    /\ lookupCache = [k \in LookupKeys |-> NoEntry]
    /\ lookupNow = 0
    /\ lookupFaults = 0
    /\ ipCalls = 0
    /\ newest = [k \in LookupKeys |-> 0]
    /\ crossed = {}

Of(q) == Service[lookup[q].service]

RedisFails ==
    /\ lookupFaults < MaxLookupFaults
    /\ lookupFaults' = lookupFaults + 1

-----------------------------------------------------------------------------

Asking(s, refuses) ==
    [NoLookup EXCEPT !.pc = "read", !.service = s, !.refuses = refuses,
                     !.floor = newest[Service[s].key]]

(* Calls come in the order of their numbers, which tell nothing.           *)
StartLookup(q) ==
    /\ lookup[q].pc = "idle"
    /\ \A p \in Lookers : p < q => lookup[p].pc # "idle"
    /\ \E s \in family :
         \/ lookup' = [lookup EXCEPT ![q] = Asking(s, Service[s].refuses)]
         \/ /\ Service[s].skips
            /\ lookup' = [lookup EXCEPT ![q] =
                 [NoLookup EXCEPT !.pc = "skipped", !.service = s]]
    /\ UNCHANGED <<family, lookupCache, lookupNow, lookupFaults, ipCalls,
                   newest, crossed>>

(* The datum d that call p stored at time t goes to the caller, or is      *)
(* refused.                                                                *)
Answered(q, d, t, p) ==
    \/ /\ lookup' = [lookup EXCEPT ![q] =
            [@ EXCEPT !.pc = "answered", !.data = d, !.age = lookupNow - t,
                      !.by = p]]
       /\ newest' = [newest EXCEPT ![Of(q).key] = IF d > @ THEN d ELSE @]
    \/ /\ lookup[q].refuses
       /\ lookup' = [lookup EXCEPT ![q] = [@ EXCEPT !.pc = "refused", !.data = NoData]]
       /\ UNCHANGED newest

(* The catch block.                                                        *)
LookupFailed(q) ==
    LET how == Of(q).onError IN
    lookup' = [lookup EXCEPT ![q] =
        IF how \in DOMAIN Service
        THEN Asking(how, Of(q).refuses)
        ELSE [NoLookup EXCEPT !.pc = how, !.service = lookup[q].service]]

Fetching(q, k) == lookup[q].pc \in {"fetch", "body", "store"} /\ Of(q).key = k

(* Call q starts its fetch, beside those that are at it.                   *)
Enters(q) ==
    LET k == Of(q).key
        others == {p \in Lookers \ {q} : Fetching(p, k)}
    IN
    /\ lookup' = [lookup EXCEPT ![q].pc = "fetch"]
    /\ crossed' = crossed \cup
         IF others = {} THEN {} ELSE {<<p, k>> : p \in others \cup {q}}

(* redis.get: a hit, a miss, or an error, which the public API's lookups   *)
(* let through.  A missing API key makes the currency validator fall back. *)
ReadLookupCache(q) ==
    /\ lookup[q].pc = "read"
    /\ LET k == Of(q).key
           hit == lookupCache[k].data # NoData /\ lookupNow < lookupCache[k].expires
       IN
       \/ /\ hit
          /\ Answered(q, lookupCache[k].data, lookupCache[k].stored,
                      lookupCache[k].by)
          /\ UNCHANGED <<lookupFaults, crossed>>
       \/ /\ UNCHANGED newest
          /\ ~hit
          /\ \/ ~Of(q).counts /\ Enters(q)
             \/ /\ Of(q).counts
                /\ lookup' = [lookup EXCEPT ![q].pc = "count"]
                /\ UNCHANGED crossed
             \/ /\ Of(q).onError = "fallback"
                /\ LookupFailed(q)
                /\ UNCHANGED crossed
          /\ UNCHANGED lookupFaults
       \/ /\ RedisFails
          /\ UNCHANGED newest
          /\ IF Of(q).guarded THEN LookupFailed(q)
             ELSE lookup' = [lookup EXCEPT ![q].pc = "throw"]
          /\ UNCHANGED crossed
    /\ UNCHANGED <<family, lookupCache, lookupNow, ipCalls>>

(* _incrementCounter swallows its errors: the call it should count is made.*)
CountIpCall(q) ==
    /\ lookup[q].pc = "count"
    /\ \/ ipCalls' = ipCalls + 1 /\ UNCHANGED lookupFaults
       \/ RedisFails /\ UNCHANGED ipCalls
    /\ Enters(q)
    /\ UNCHANGED <<family, lookupCache, lookupNow, newest>>

(* The headers, or an error, or the abort.                                 *)
FetchAnswered(q) ==
    /\ lookup[q].pc = "fetch"
    /\ \/ lookup' = [lookup EXCEPT ![q] = [@ EXCEPT !.pc = "body", !.data = lookupNow]]
       \/ LookupFailed(q)
    /\ UNCHANGED <<family, lookupCache, lookupNow, lookupFaults, ipCalls,
                   newest, crossed>>

(* res.json() and the checks of the body.  The currency validator refuses  *)
(* a currency the answer lacks, and stores nothing.                        *)
BodyRead(q) ==
    /\ lookup[q].pc = "body"
    /\ \/ lookup' = [lookup EXCEPT ![q].pc = "store"]
       \/ LookupFailed(q)
       \/ /\ lookup[q].service = "ValidateCurrency"
          /\ lookup' = [lookup EXCEPT ![q] = [@ EXCEPT !.pc = "refused", !.data = NoData]]
    /\ UNCHANGED <<family, lookupCache, lookupNow, lookupFaults, ipCalls,
                   newest, crossed>>

StoreAs(q, ttl) ==
    /\ lookup[q].pc = "store"
    /\ LET k == Of(q).key  d == lookup[q].data IN
       \/ /\ lookupCache' = [lookupCache EXCEPT ![k] =
               [data |-> d, expires |-> lookupNow + ttl, stored |-> lookupNow,
                by |-> q]]
          /\ Answered(q, d, lookupNow, q)
          /\ UNCHANGED lookupFaults
       \/ /\ RedisFails
          /\ LookupFailed(q)
          /\ UNCHANGED <<lookupCache, newest>>
    /\ UNCHANGED <<family, lookupNow, ipCalls, crossed>>

(* Mutant: a set without a time to live.                                   *)
StoreLookupMutant(q) == StoreAs(q, MaxLookupTime + 1)

(* setex is inside the try block: when it fails, so does the lookup, with  *)
(* the datum in its hands.                                                 *)
StoreLookup(q) == StoreAs(q, Of(q).ttl)

(* The timer aborts a fetch that waits for its headers, in one tick.  It   *)
(* has been cleared when the body is read.                                 *)
LookupTick ==
    /\ lookupNow < MaxLookupTime
    /\ \A q \in Lookers : lookup[q].pc = "fetch" => lookup[q].waited = 0
    /\ lookupNow' = lookupNow + 1
    /\ lookup' = [q \in Lookers |->
         IF lookup[q].pc = "fetch" THEN [lookup[q] EXCEPT !.waited = 1]
         ELSE lookup[q]]
    /\ UNCHANGED <<family, lookupCache, lookupFaults, ipCalls, newest, crossed>>

LookupNext ==
    \/ \E q \in Lookers :
         \/ StartLookup(q) \/ ReadLookupCache(q) \/ CountIpCall(q)
         \/ FetchAnswered(q) \/ BodyRead(q) \/ StoreLookup(q)
    \/ LookupTick

LookupSpec == LookupInit /\ [][LookupNext]_lookupVars

-----------------------------------------------------------------------------

(* Properties.                                                             *)

(* A datum out of Redis has been there for less than its time to live, and *)
(* nobody is given an older datum than the key had given before he asked.  *)
(* One that a call stored which was not alone in fetching the key may be   *)
(* older: the slower of two writes what it read first.                     *)
LookupFresh ==
    \A q \in Lookers : lookup[q].pc = "answered" =>
        /\ lookup[q].age < Of(q).ttl
        /\ \/ lookup[q].data >= lookup[q].floor
           \/ <<lookup[q].by, Of(q).key>> \in crossed
=============================================================================
