--------------------------- MODULE ServicesProofs ---------------------------
(***************************************************************************)
(* The services beside the payouts, for any sets of users, requests,       *)
(* sockets, conversations and workers: sockets, workspaces, agents, direct *)
(* messages, channels, lookups, the sessions of an account, and the events *)
(* of a payout.  Every invariant speaks of the request in flight too: what *)
(* it has read, and what the document has become since.                    *)
(***************************************************************************)
EXTENDS Sockets, Workspaces, Agents, DirectMessages, Channels, Messages, Lookups,
        Sessions, PayoutEvents, SumProofs

(* Sockets: the rooms of the WebSocket server.                             *)

SocketRecord ==
    [state : {"new", "open", "closed"}, user : SocketUsers \cup {NoUser},
     rooms : SUBSET SocketUsers, subscribed : SUBSET SocketUsers]

FirstSocket == CHOOSE s \in SocketIds : TRUE

AuthRecord ==
    [pc : {"idle", "verifying", "refused", "verified"},
     s : SocketIds \cup {FirstSocket}, user : SocketUsers \cup {NoUser},
     late : BOOLEAN]

SocketTypeOK ==
    /\ socket \in [SocketIds -> SocketRecord]
    /\ DOMAIN clients \subseteq SocketUsers
    /\ \A u \in DOMAIN clients : clients[u] \subseteq SocketIds
    /\ clients = [u \in DOMAIN clients |-> clients[u]]
    /\ authCall \in [AuthCalls -> AuthRecord]

(* An authentication is one of a socket that has been open; one that has   *)
(* not is nowhere.                                                         *)
AuthSound(a) ==
    LET c == authCall[a] IN
    /\ c.late => c.pc = "verified"
    /\ c.pc # "idle" => /\ c.s \in SocketIds /\ c.user \in SocketUsers
                        /\ socket[c.s].state # "new"

Hears(s, u) ==
    /\ s \in Entry(u) => u \in socket[s].rooms
    /\ u \in socket[s].rooms => s \in Entry(u) \/ u \in socket[s].subscribed
    /\ s \notin Strays => (s \in Entry(u) <=> socket[s].user = u)

(* SocketsLive, for a user in place of the user of a socket.               *)
MapLive ==
    /\ \A s \in Open, u \in SocketUsers : Hears(s, u)
    /\ \A u \in SocketUsers : u \in DOMAIN clients => Entry(u) # {}
    /\ \A u \in SocketUsers : Entry(u) \subseteq Open \cup Strays
    /\ \A s \in Open, u \in SocketUsers : socket[s].user = u => s \in Entry(u)

SocketInv ==
    /\ SocketTypeOK
    /\ \A a \in AuthCalls : AuthSound(a)
    /\ \A s \in SocketIds : socket[s].state = "new" =>
         socket[s].user = NoUser /\ socket[s].rooms = {}
    /\ MapLive

LEMMA SocketInit == SocketsInit => SocketInv
<1> SUFFICES ASSUME SocketsInit
             PROVE  SocketInv
  OBVIOUS
<1>1. SocketTypeOK
  BY DEF SocketsInit, SocketTypeOK, SocketRecord, AuthRecord, FirstSocket
<1>2. \A a \in AuthCalls : AuthSound(a)
  BY DEF SocketsInit, AuthSound
<1>3. Open = {} /\ DOMAIN clients = {}
  BY DEF SocketsInit, Open
<1>4. MapLive
  BY <1>3 DEF MapLive, Entry
<1>5. QED
  BY <1>1, <1>2, <1>4 DEF SocketInv, SocketsInit

(* What a step does to one socket's entries.                               *)
LEMMA EntryType ==
    ASSUME SocketTypeOK, NEW u
    PROVE  Entry(u) \subseteq SocketIds
BY DEF SocketTypeOK, Entry

LEMMA EntrySet ==
    ASSUME NEW u, NEW S, SetEntry(u, S)
    PROVE  /\ DOMAIN clients' = DOMAIN clients \cup {u}
           /\ Entry(u)' = S
           /\ \A v : v # u => Entry(v)' = Entry(v)
           /\ clients' = [v \in DOMAIN clients' |-> clients'[v]]
BY DEF SetEntry, Entry

LEMMA LeaveEntry ==
    ASSUME NEW s, NEW u, u = socket[s].user, Leave(s), SocketTypeOK
    PROVE  /\ DOMAIN clients' \subseteq DOMAIN clients
           /\ Entry(u)' = Entry(u) \ {s}
           /\ \A v : v # u => Entry(v)' = Entry(v)
           /\ clients' = [v \in DOMAIN clients' |-> clients'[v]]
           /\ u \in DOMAIN clients' => Entry(u)' # {}
<1>0. clients = [v \in DOMAIN clients |-> clients[v]]
  BY DEF SocketTypeOK
<1>1. CASE u \notin DOMAIN clients
  BY <1>0, <1>1 DEF Leave, Entry
<1>2. CASE u \in DOMAIN clients /\ Entry(u) \ {s} = {}
  <2>1. clients' = [v \in DOMAIN clients \ {u} |-> clients[v]]
    BY <1>2 DEF Leave
  <2>2. QED
    BY <1>2, <2>1 DEF Entry
<1>3. CASE u \in DOMAIN clients /\ Entry(u) \ {s} # {}
  <2>1. SetEntry(u, Entry(u) \ {s})
    BY <1>3 DEF Leave
  <2>2. QED
    BY <1>3, <2>1, EntrySet
<1>4. QED
  BY <1>1, <1>2, <1>3

LEMMA SocketStep == SocketInv /\ [SocketsNext]_socketVars => SocketInv'
<1> SUFFICES ASSUME SocketInv, [SocketsNext]_socketVars
             PROVE  SocketInv'
  OBVIOUS
<1> USE DEF SocketInv
<1>1. ASSUME NEW s \in SocketIds, Connect(s)
      PROVE  SocketInv'
  <2>1. /\ socket[s].state = "new" /\ socket[s].user = NoUser
        /\ socket[s].rooms = {}
        /\ socket' = [socket EXCEPT ![s].state = "open"]
        /\ UNCHANGED <<clients, authCall>>
    BY <1>1 DEF Connect
  <2>2. SocketTypeOK'
    BY <2>1 DEF SocketTypeOK, SocketRecord
  <2>3. /\ socket'[s] = [socket[s] EXCEPT !.state = "open"]
        /\ \A r \in SocketIds \ {s} : socket'[r] = socket[r]
    BY <2>1 DEF SocketTypeOK, SocketRecord
  <2>4. /\ socket'[s].state = "open" /\ socket'[s].user = NoUser
        /\ socket'[s].rooms = {}
    BY <2>1, <2>3 DEF SocketTypeOK, SocketRecord
  <2>5. \A a \in AuthCalls : AuthSound(a)'
    BY <2>1, <2>3, <2>4 DEF AuthSound
  <2>6. Strays' = Strays /\ s \notin Strays /\ s \notin Open
    BY <2>1 DEF Strays, AuthSound, Open
  <2>7. Open' = Open \cup {s}
    BY <2>3, <2>4 DEF Open
  <2>8. \A u : Entry(u)' = Entry(u)
    BY <2>1 DEF Entry
  <2>9. \A u : s \notin Entry(u)
    BY <2>6 DEF MapLive, SocketTypeOK, Entry
  <2>10. MapLive'
    <3>1. \A r \in Open', u \in SocketUsers : Hears(r, u)'
      <4>1. \A r \in Open, u \in SocketUsers : r \in SocketIds /\ Hears(r, u)
        BY DEF MapLive, Open
      <4>2. \A u \in SocketUsers : s \notin Entry(u)' /\ u # NoUser
        BY <2>8, <2>9, SocketAssumption
      <4>3. \A r \in Open' : r # s => r \in Open /\ socket'[r] = socket[r]
        BY <2>3, <2>7, <4>1 DEF Open
      <4>4. QED
        BY <2>4, <2>6, <2>8, <4>1, <4>2, <4>3 DEF Hears
    <3>2. \A u \in SocketUsers : u \in DOMAIN clients' => Entry(u)' # {}
      BY <2>1, <2>8 DEF MapLive
    <3>3. \A u \in SocketUsers : Entry(u)' \subseteq Open' \cup Strays'
      BY <2>6, <2>7, <2>8 DEF MapLive
    <3>4. \A r \in Open', u \in SocketUsers :
            socket'[r].user = u => r \in Entry(u)'
      <4>1. TAKE r \in Open', u \in SocketUsers
      <4>2. CASE r = s
        BY <2>4, <4>2, SocketAssumption
      <4>3. CASE r # s
        <5>1. r \in Open /\ socket'[r] = socket[r]
          BY <2>3, <2>7, <4>3 DEF Open
        <5>2. QED
          BY <2>8, <5>1 DEF MapLive
      <4>4. QED
        BY <4>2, <4>3
    <3>5. QED
      BY <3>1, <3>2, <3>3, <3>4 DEF MapLive
  <2>11. QED
    BY <2>2, <2>3, <2>4, <2>5, <2>10
<1>2. ASSUME NEW a \in AuthCalls, NEW s \in SocketIds, NEW u \in SocketUsers,
             Authenticate(a, s, u)
      PROVE  SocketInv'
  <2>1. /\ s \in Open /\ authCall[a].pc = "idle"
        /\ authCall' = [authCall EXCEPT ![a] =
                          [@ EXCEPT !.pc = "verifying", !.s = s, !.user = u]]
        /\ UNCHANGED <<socket, clients>>
    BY <1>2 DEF Authenticate
  <2>2. /\ SocketTypeOK'
        /\ \A b \in AuthCalls \ {a} : authCall'[b] = authCall[b]
        /\ authCall'[a] = [authCall[a] EXCEPT !.pc = "verifying", !.s = s, !.user = u]
    <3>1. PICK c : c = [authCall[a] EXCEPT !.pc = "verifying", !.s = s, !.user = u]
      OBVIOUS
    <3>2. authCall[a] \in AuthRecord /\ s \in SocketIds
      BY <2>1 DEF SocketTypeOK, Open
    <3>3. c \in AuthRecord
      BY <3>1, <3>2 DEF AuthRecord
    <3>4. authCall' = [authCall EXCEPT ![a] = c]
      BY <2>1, <3>1
    <3>5. QED
      BY <2>1, <3>1, <3>3, <3>4 DEF SocketTypeOK
  <2>3. /\ authCall'[a].pc = "verifying" /\ authCall'[a].s = s
        /\ authCall'[a].user = u
        /\ authCall'[a].late <=> authCall[a].late
    BY <2>2 DEF SocketTypeOK, AuthRecord
  <2>4. \A b \in AuthCalls : AuthSound(b)'
    BY <2>1, <2>2, <2>3 DEF AuthSound, Open
  <2>5. \A b \in AuthCalls : ~authCall[a].late
          /\ (authCall'[b].late <=> authCall[b].late)
    BY <2>1, <2>2, <2>3 DEF AuthSound
  <2>6. Strays' = Strays
    BY <2>2, <2>5 DEF Strays
  <2>7. MapLive'
    BY <2>1, <2>6 DEF MapLive, Hears, Open, Entry
  <2>8. QED
    BY <2>1, <2>2, <2>4, <2>7
<1>3. ASSUME NEW a \in AuthCalls, AuthRefused(a)
      PROVE  SocketInv'
  <2>1. /\ authCall[a].pc = "verifying"
        /\ authCall' = [authCall EXCEPT ![a].pc = "refused"]
        /\ UNCHANGED <<socket, clients>>
    BY <1>3 DEF AuthRefused
  <2>2. /\ SocketTypeOK'
        /\ \A b \in AuthCalls \ {a} : authCall'[b] = authCall[b]
        /\ authCall'[a] = [authCall[a] EXCEPT !.pc = "refused"]
    BY <2>1 DEF SocketTypeOK, AuthRecord
  <2>3. /\ authCall'[a].pc = "refused" /\ authCall'[a].s = authCall[a].s
        /\ authCall'[a].user = authCall[a].user
        /\ authCall'[a].late <=> authCall[a].late
        /\ ~authCall[a].late
    BY <2>1, <2>2 DEF SocketTypeOK, AuthRecord, AuthSound
  <2>4. \A b \in AuthCalls : AuthSound(b)'
    BY <2>1, <2>2, <2>3 DEF AuthSound
  <2>5. \A b \in AuthCalls : (authCall'[b].late <=> authCall[b].late)
          /\ authCall'[b].s = authCall[b].s
    BY <2>2, <2>3
  <2>6. Strays' = Strays
    BY <2>5 DEF Strays
  <2>7. MapLive'
    BY <2>1, <2>6 DEF MapLive, Hears, Open, Entry
  <2>8. QED
    BY <2>1, <2>2, <2>4, <2>7
<1>4. ASSUME NEW a \in AuthCalls, AuthVerified(a)
      PROVE  SocketInv'
  <2>1. PICK s, u :
          /\ s = authCall[a].s /\ u = authCall[a].user
          /\ authCall[a].pc = "verifying"
          /\ socket' = [socket EXCEPT ![s] =
               [@ EXCEPT !.user = u, !.rooms = socket[s].rooms \cup {u}]]
          /\ SetEntry(u, Entry(u) \cup {s})
          /\ authCall' = [authCall EXCEPT ![a] =
               [@ EXCEPT !.pc = "verified",
                         !.late = s \notin Open \/ socket[s].user \notin {NoUser, u}]]
    BY <1>4 DEF AuthVerified
  <2>2. s \in SocketIds /\ u \in SocketUsers /\ socket[s].state # "new"
        /\ ~authCall[a].late
    BY <2>1 DEF AuthSound
  <2>3. PICK late \in BOOLEAN :
          late = (s \notin Open \/ socket[s].user \notin {NoUser, u})
    OBVIOUS
  <2>4. /\ authCall'[a].pc = "verified" /\ authCall'[a].s = s
        /\ authCall'[a].user = u /\ authCall'[a].late = late
        /\ \A b \in AuthCalls \ {a} : authCall'[b] = authCall[b]
        /\ authCall' \in [AuthCalls -> AuthRecord]
    <3>1. PICK r : r = [authCall[a] EXCEPT !.pc = "verified", !.late = late]
      OBVIOUS
    <3>2. authCall' = [authCall EXCEPT ![a] = r]
      BY <2>1, <2>3, <3>1
    <3>3. /\ r \in AuthRecord /\ r.pc = "verified" /\ r.s = s /\ r.user = u
          /\ r.late = late
      BY <2>1, <3>1 DEF SocketTypeOK, AuthRecord
    <3>4. QED
      BY <3>2, <3>3 DEF SocketTypeOK
  <2>5. PICK r : r = [socket[s] EXCEPT !.user = u, !.rooms = socket[s].rooms \cup {u}]
    OBVIOUS
  <2>6. /\ r \in SocketRecord
        /\ r.state = socket[s].state /\ r.user = u
        /\ r.rooms = socket[s].rooms \cup {u}
        /\ r.subscribed = socket[s].subscribed
    <3>1. socket[s] \in SocketRecord
      BY <2>2 DEF SocketTypeOK
    <3>2. QED
      BY <2>2, <2>5, <3>1 DEF SocketRecord
  <2>7. /\ socket'[s] = r
        /\ \A q \in SocketIds \ {s} : socket'[q] = socket[q]
        /\ socket' \in [SocketIds -> SocketRecord]
    <3>1. socket' = [socket EXCEPT ![s] = r]
      BY <2>1, <2>5
    <3>2. QED
      BY <2>2, <2>6, <3>1 DEF SocketTypeOK
  <2>8. /\ DOMAIN clients' = DOMAIN clients \cup {u}
        /\ Entry(u)' = Entry(u) \cup {s}
        /\ \A v : v # u => Entry(v)' = Entry(v)
        /\ clients' = [v \in DOMAIN clients' |-> clients'[v]]
    BY <2>1, EntrySet
  <2>9. SocketTypeOK'
    <3>1. \A v \in DOMAIN clients' : clients'[v] = Entry(v)'
      BY DEF Entry
    <3>2. \A v : Entry(v)' \subseteq SocketIds
      BY <2>2, <2>8, EntryType
    <3>3. QED
      BY <2>2, <2>4, <2>7, <2>8, <3>1, <3>2 DEF SocketTypeOK
  <2>10. \A q \in SocketIds : socket'[q].state = socket[q].state
    BY <2>6, <2>7
  <2>11. \A b \in AuthCalls : AuthSound(b)'
    <3>1. AuthSound(a)'
      BY <2>2, <2>4, <2>10 DEF AuthSound
    <3>2. \A b \in AuthCalls \ {a} : AuthSound(b)'
      BY <2>4, <2>10 DEF AuthSound
    <3>3. QED
      BY <3>1, <3>2
  <2>12. Open' = Open
    BY <2>10 DEF Open
  <2>13. /\ late => Strays' = Strays \cup {s}
         /\ ~late => Strays' = Strays
    BY <2>2, <2>4 DEF Strays
  <2>14. \A q \in Open', v \in SocketUsers : Hears(q, v)'
    <3> SUFFICES ASSUME NEW q \in Open', NEW v \in SocketUsers
                 PROVE  Hears(q, v)'
      OBVIOUS
    <3>1. q \in Open /\ q \in SocketIds /\ Hears(q, v)
      BY <2>12 DEF MapLive, Open
    <3>2. q \notin Strays' => q \notin Strays
      BY <2>13
    <3>3. CASE q # s
      BY <2>7, <2>8, <3>1, <3>2, <3>3 DEF Hears
    <3>4. CASE q = s /\ v = u
      BY <2>6, <2>7, <2>8, <3>4 DEF Hears
    <3>5. CASE q = s /\ v # u
      <4>1. q \notin Strays' => socket[s].user \in {NoUser, u}
        BY <2>3, <2>13, <3>5
      <4>2. q \notin Strays' => ~(s \in Entry(v)) /\ socket'[s].user # v
        BY <2>6, <2>7, <3>1, <3>2, <3>5, <4>1, SocketAssumption DEF Hears
      <4>3. QED
        BY <2>6, <2>7, <2>8, <3>1, <3>5, <4>2 DEF Hears
    <3>6. QED
      BY <3>3, <3>4, <3>5
  <2>15. \A v \in SocketUsers : v \in DOMAIN clients' => Entry(v)' # {}
    BY <2>8 DEF MapLive
  <2>16. \A v \in SocketUsers : Entry(v)' \subseteq Open' \cup Strays'
    <3>1. s \in Open' \cup Strays'
      BY <2>3, <2>12, <2>13
    <3>2. \A v \in SocketUsers : Entry(v) \subseteq Open' \cup Strays'
      BY <2>12, <2>13 DEF MapLive
    <3>3. QED
      BY <2>8, <3>1, <3>2
  <2>17. \A q \in Open', v \in SocketUsers :
           socket'[q].user = v => q \in Entry(v)'
    <3>1. \A q \in Open, v \in SocketUsers :
            q \in SocketIds /\ (socket[q].user = v => q \in Entry(v))
      BY DEF MapLive, Open
    <3>2. QED
      BY <2>6, <2>7, <2>8, <2>12, <3>1
  <2>18. QED
    BY <2>2, <2>7, <2>9, <2>10, <2>11, <2>14, <2>15, <2>16, <2>17 DEF MapLive
<1>5. ASSUME NEW s \in SocketIds, Disconnect(s)
      PROVE  SocketInv'
  <2>1. /\ s \in Open /\ Leave(s)
        /\ socket' = [socket EXCEPT ![s] =
                        [@ EXCEPT !.state = "closed", !.rooms = {}, !.subscribed = {}]]
        /\ UNCHANGED authCall
    BY <1>5 DEF Disconnect
  <2>2. PICK u : u = socket[s].user
    OBVIOUS
  <2>3. /\ DOMAIN clients' \subseteq DOMAIN clients
        /\ Entry(u)' = Entry(u) \ {s}
        /\ \A v : v # u => Entry(v)' = Entry(v)
        /\ clients' = [v \in DOMAIN clients' |-> clients'[v]]
        /\ u \in DOMAIN clients' => Entry(u)' # {}
    BY <2>1, <2>2, LeaveEntry
  <2>4. PICK r : r = [socket[s] EXCEPT !.state = "closed", !.rooms = {}, !.subscribed = {}]
    OBVIOUS
  <2>5. r \in SocketRecord /\ r.state = "closed"
    <3>1. socket[s] \in SocketRecord
      BY DEF SocketTypeOK
    <3>2. QED
      BY <2>4, <3>1 DEF SocketRecord
  <2>6. /\ socket'[s] = r
        /\ \A q \in SocketIds \ {s} : socket'[q] = socket[q]
        /\ socket' \in [SocketIds -> SocketRecord]
    BY <2>1, <2>4, <2>5 DEF SocketTypeOK
  <2>7. SocketTypeOK'
    <3>1. \A v \in DOMAIN clients' : clients'[v] = Entry(v)'
      BY DEF Entry
    <3>2. \A v : Entry(v)' \subseteq SocketIds
      BY <2>3, EntryType
    <3>3. QED
      BY <2>1, <2>3, <2>6, <3>1, <3>2 DEF SocketTypeOK
  <2>8. \A b \in AuthCalls : AuthSound(b)'
    BY <2>1, <2>5, <2>6 DEF AuthSound
  <2>9. Open' = Open \ {s} /\ Strays' = Strays
    BY <2>1, <2>5, <2>6 DEF Open, Strays
  <2>10. \A q \in Open', v \in SocketUsers :
           /\ q \in Open /\ q # s /\ socket'[q] = socket[q]
           /\ q \in Entry(v)' <=> q \in Entry(v)
    BY <2>3, <2>6, <2>9 DEF Open
  <2>11. \A v \in SocketUsers : v \in DOMAIN clients' => Entry(v)' # {}
    BY <2>3 DEF MapLive
  <2>12. \A v \in SocketUsers : Entry(v)' \subseteq Open' \cup Strays'
    <3>1. \A v \in SocketUsers : s \in Entry(v) => s \in Strays \/ v = u
      BY <2>1, <2>2 DEF MapLive, Hears
    <3>2. \A v \in SocketUsers : Entry(v) \subseteq Open \cup Strays
      BY DEF MapLive
    <3>3. QED
      BY <2>3, <2>9, <3>1, <3>2
  <2>13. \A q \in Open', v \in SocketUsers : Hears(q, v)'
    BY <2>9, <2>10 DEF MapLive, Hears
  <2>14. \A q \in Open', v \in SocketUsers :
           socket'[q].user = v => q \in Entry(v)'
    BY <2>10 DEF MapLive
  <2>15. QED
    BY <2>5, <2>6, <2>7, <2>8, <2>11, <2>12, <2>13, <2>14 DEF MapLive
<1>6. ASSUME NEW s \in SocketIds, Subscribe(s)
      PROVE  SocketInv'
  <2>1. PICK channels \in SUBSET SocketUsers :
          /\ s \in Open
          /\ socket' = [socket EXCEPT ![s] =
               [@ EXCEPT !.rooms = socket[s].rooms \cup channels,
                         !.subscribed = socket[s].subscribed \cup channels]]
          /\ UNCHANGED <<clients, authCall>>
    BY <1>6 DEF Subscribe
  <2>2. PICK r : r = [socket[s] EXCEPT !.rooms = socket[s].rooms \cup channels,
                                       !.subscribed = socket[s].subscribed \cup channels]
    OBVIOUS
  <2>3. /\ r \in SocketRecord
        /\ r.state = socket[s].state /\ r.user = socket[s].user
        /\ r.rooms = socket[s].rooms \cup channels
        /\ r.subscribed = socket[s].subscribed \cup channels
    <3>1. socket[s] \in SocketRecord
      BY DEF SocketTypeOK
    <3>2. QED
      BY <2>2, <3>1 DEF SocketRecord
  <2>4. /\ socket'[s] = r
        /\ \A q \in SocketIds \ {s} : socket'[q] = socket[q]
        /\ socket' \in [SocketIds -> SocketRecord]
    <3>1. socket' = [socket EXCEPT ![s] = r]
      BY <2>1, <2>2
    <3>2. QED
      BY <2>3, <3>1 DEF SocketTypeOK
  <2>5. SocketTypeOK'
    BY <2>1, <2>4 DEF SocketTypeOK
  <2>6. \A q \in SocketIds : /\ socket'[q].state = socket[q].state
                            /\ socket'[q].user = socket[q].user
    BY <2>3, <2>4
  <2>7. /\ Open' = Open /\ Strays' = Strays
        /\ \A u : Entry(u)' = Entry(u)
    BY <2>1, <2>6 DEF Open, Strays, Entry
  <2>8. \A a \in AuthCalls : AuthSound(a)'
    BY <2>1, <2>6 DEF AuthSound
  <2>9. \A q \in Open, u \in SocketUsers :
          q \in SocketIds /\ Hears(q, u) /\ (socket[q].user = u => q \in Entry(u))
    BY DEF MapLive, Open
  <2>10. \A q \in Open', u \in SocketUsers :
           Hears(q, u)' /\ (socket'[q].user = u => q \in Entry(u)')
    BY <2>3, <2>4, <2>6, <2>7, <2>9 DEF Hears
  <2>11. /\ \A u \in SocketUsers : u \in DOMAIN clients' => Entry(u)' # {}
         /\ \A u \in SocketUsers : Entry(u)' \subseteq Open' \cup Strays'
    BY <2>1, <2>7 DEF MapLive
  <2>12. s \in Open
    BY <2>1
  <2>13. \A q \in SocketIds : socket'[q].state = "new" =>
           socket'[q].user = NoUser /\ socket'[q].rooms = {}
    BY <2>3, <2>4, <2>12 DEF Open
  <2>14. QED
    BY <2>5, <2>8, <2>10, <2>11, <2>13 DEF MapLive
<1>7. CASE UNCHANGED socketVars
  BY <1>7 DEF socketVars, SocketTypeOK, AuthSound, MapLive, Hears, Open, Strays, Entry
<1>8. QED
  BY <1>1, <1>2, <1>3, <1>4, <1>5, <1>6, <1>7 DEF SocketsNext

LEMMA MapIsLive == SocketInv => SocketsLive
<1> SUFFICES ASSUME SocketInv
             PROVE  SocketsLive
  OBVIOUS
<1>1. \A u \in DOMAIN clients : u \in SocketUsers /\ clients[u] = Entry(u)
  BY DEF SocketInv, SocketTypeOK, Entry
<1>2. \A s \in Open : socket[s].user \in SocketUsers \cup {NoUser}
  BY DEF SocketInv, SocketTypeOK, SocketRecord, Open
<1>3. QED
  BY <1>1, <1>2 DEF SocketInv, MapLive, Hears, SocketsLive

(* However many users, sockets and authentications there are: every open   *)
(* socket is in the entry of the user it is, no closed one is, but for the *)
(* sockets an authentication came too late for; and an open socket is in a *)
(* user's room if it is in his entry, and else only if it subscribed.      *)
THEOREM SocketsAreLive == SocketsSpec => []SocketsLive
<1>1. QED
  BY SocketInit, SocketStep, MapIsLive, PTL DEF SocketsSpec

-----------------------------------------------------------------------------
(* Workspaces: members, names and the cached copy.                         *)

WsPc == {"idle", "get", "read", "fill", "find", "write", "bust", "count",
         "refused", "cut", "done"}

WsRecord ==
    [op : {"none", "invite", "role", "remove", "update", "delete", "view"},
     pc : WsPc, by : WorkspaceUsers, who : WorkspaceUsers, role : Roles,
     seen : {"none", "active", "inactive"},
     copy : [name : WorkspaceNames \cup {0}, isActive : BOOLEAN],
     changed : BOOLEAN, overtaken : BOOLEAN]

MemberRecord == [state : {"none", "active", "inactive"}, role : Roles]

WorkspaceTypeOK ==
    /\ workspace \in [name : WorkspaceNames, isActive : BOOLEAN,
                      memberCount : Int, step : 1 .. 5]
    /\ memberOf \in [WorkspaceUsers -> MemberRecord]
    /\ wsCall \in [WorkspaceCalls -> WsRecord]

(* What a request means to do, and has found.                              *)
WsCallSound(c) ==
    /\ c.pc = "count" => c.op \in {"invite", "remove"}
    /\ c.pc = "bust" => c.op \in {"update", "delete"}
    /\ c.pc = "find" => c.op = "invite"
    /\ c.pc = "write" /\ c.op = "invite" => c.seen # "active"
    /\ c.pc = "count" /\ c.op = "invite" => c.changed \/ c.seen = "inactive"
    /\ c.pc = "fill" /\ ~c.overtaken => c.copy = Copy

(* Until createWorkspace has written the owner's document nobody can do    *)
(* anything; the copy was stored by a call that stores no other.           *)
WorkspaceInv ==
    /\ WorkspaceTypeOK
    /\ \A r \in WorkspaceCalls : WsCallSound(wsCall[r])
    /\ workspace.step <= 2 =>
         /\ workspace.memberCount = 1
         /\ \A u \in WorkspaceUsers : ~Active(u)
         /\ \A r \in WorkspaceCalls : wsCall[r].pc = "idle"
    /\ workspaceCache # Uncached =>
         /\ workspaceCache.by \in WorkspaceCalls
         /\ wsCall[workspaceCache.by].pc \notin {"idle", "get", "read", "fill"}
    /\ WorkspaceSound

(* The sets that MemberCountExact counts.                                  *)
Members == {u \in WorkspaceUsers : Active(u)}
Entering == {r \in Calls("invite", {"count", "cut"}) : wsCall[r].changed}
Leaving == {r \in Calls("remove", {"count", "cut"}) : wsCall[r].changed}
Twice == {r \in Calls("invite", {"done"}) :
            wsCall[r].seen = "inactive" /\ ~wsCall[r].changed}
Nobody == {r \in Calls("remove", {"done"}) : ~wsCall[r].changed}

CountMatches ==
    workspace.memberCount =
        Cardinality(Members) - Cardinality(Entering) + Cardinality(Leaving)
        + Cardinality(Twice) - Cardinality(Nobody)

LEMMA CountDef == MemberCountExact <=> (workspace.step > 2 => CountMatches)
BY DEF MemberCountExact, CountMatches, Members, Entering, Leaving, Twice, Nobody,
       Uncounted, BroughtBackTwice, RemovedNobody

LEMMA CountNext == CountMatches' => MemberCountExact'
BY DEF MemberCountExact, CountMatches, Members, Entering, Leaving, Twice, Nobody,
       Uncounted, BroughtBackTwice, RemovedNobody

LEMMA FiniteCalls ==
    /\ IsFiniteSet(Members) /\ Cardinality(Members) \in Nat
    /\ \A S \in SUBSET WorkspaceCalls :
         IsFiniteSet(S) /\ Cardinality(S) \in Nat
    /\ Entering \in SUBSET WorkspaceCalls /\ Leaving \in SUBSET WorkspaceCalls
    /\ Twice \in SUBSET WorkspaceCalls /\ Nobody \in SUBSET WorkspaceCalls
<1>1. IsFiniteSet(WorkspaceUsers) /\ IsFiniteSet(WorkspaceCalls)
  BY WorkspaceAssumption, FS_AddElement DEF WorkspaceUsers
<1>2. Members \subseteq WorkspaceUsers
  BY DEF Members
<1>3. /\ Entering \in SUBSET WorkspaceCalls /\ Leaving \in SUBSET WorkspaceCalls
      /\ Twice \in SUBSET WorkspaceCalls /\ Nobody \in SUBSET WorkspaceCalls
  BY DEF Entering, Leaving, Twice, Nobody, Calls
<1>4. IsFiniteSet(Members) /\ \A S \in SUBSET WorkspaceCalls : IsFiniteSet(S)
  BY <1>1, <1>2, FS_Subset
<1>5. Cardinality(Members) \in Nat
      /\ \A S \in SUBSET WorkspaceCalls : Cardinality(S) \in Nat
  BY <1>4, FS_CardinalityType
<1>6. QED
  BY <1>3, <1>4, <1>5

LEMMA WorkspaceInitial == WorkspacesInit => WorkspaceInv
<1> SUFFICES ASSUME WorkspacesInit
             PROVE  WorkspaceInv
  OBVIOUS
<1>0. WorkspaceOwner \in WorkspaceUsers /\ Invitees \subseteq WorkspaceUsers
  BY DEF WorkspaceUsers
<1>1. /\ wsCall = [r \in WorkspaceCalls |-> NoCall] /\ workspaceCache = Uncached
  BY DEF WorkspacesInit
<1>2. NoCall \in WsRecord /\ WsCallSound(NoCall) /\ NoCall.pc = "idle"
  BY <1>0 DEF NoCall, WsRecord, WsPc, WsCallSound, Roles
<1>3. /\ wsCall \in [WorkspaceCalls -> WsRecord]
      /\ \A r \in WorkspaceCalls : wsCall[r].pc = "idle" /\ WsCallSound(wsCall[r])
  BY <1>1, <1>2
<1>4. Entering = {} /\ Leaving = {} /\ Twice = {} /\ Nobody = {}
  BY <1>3 DEF Entering, Leaving, Twice, Nobody, Calls
<1>5. Len(CreationSteps) = 5
  BY DEF CreationSteps
<1>6. CASE /\ workspace = [name |-> 1, isActive |-> TRUE, memberCount |-> 1, step |-> 1]
           /\ memberOf = [u \in WorkspaceUsers |-> NoMember]
  <2>1. WorkspaceTypeOK
    BY <1>3, <1>6, WorkspaceAssumption
       DEF WorkspaceTypeOK, MemberRecord, NoMember, Roles
  <2>2. \A u \in WorkspaceUsers : ~Active(u)
    BY <1>6 DEF Active, NoMember
  <2>3. WorkspaceSound
    BY <1>1, <1>6 DEF WorkspaceSound, MemberCountExact, WorkspaceCopyFresh
  <2>4. QED
    BY <1>1, <1>3, <1>6, <2>1, <2>2, <2>3 DEF WorkspaceInv
<1>7. ASSUME NEW states \in [Invitees -> {"none", "active", "inactive"}],
             workspace = [name |-> 1, isActive |-> TRUE, step |-> Len(CreationSteps),
                          memberCount |-> 1 + Cardinality({u \in Invitees :
                                                            states[u] = "active"})],
             memberOf = [u \in WorkspaceUsers |->
                           IF u = WorkspaceOwner
                           THEN [state |-> "active", role |-> "owner"]
                           ELSE [state |-> states[u], role |-> "member"]]
      PROVE  WorkspaceInv
  <2>1. PICK A : A = {u \in Invitees : states[u] = "active"}
    OBVIOUS
  <2>2. IsFiniteSet(A) /\ Cardinality(A) \in Nat /\ WorkspaceOwner \notin A
    BY <2>1, WorkspaceAssumption, FS_Subset, FS_CardinalityType
  <2>3. Members = A \cup {WorkspaceOwner}
    BY <1>7, <2>1, WorkspaceAssumption DEF Members, Active, WorkspaceUsers
  <2>4. Cardinality(Members) = Cardinality(A) + 1
    BY <2>2, <2>3, FS_AddElement
  <2>5. workspace.step = 5 /\ workspace.memberCount = 1 + Cardinality(A)
    BY <1>5, <1>7, <2>1
  <2>6. WorkspaceTypeOK
    <3>1. memberOf \in [WorkspaceUsers -> MemberRecord]
      BY <1>7 DEF MemberRecord, Roles, WorkspaceUsers
    <3>2. QED
      BY <1>3, <1>5, <1>7, <2>1, <2>2, <3>1, WorkspaceAssumption
         DEF WorkspaceTypeOK
  <2>7. MemberCountExact
    BY <1>4, <2>2, <2>4, <2>5, CountDef, FS_EmptySet DEF CountMatches
  <2>8. QED
    BY <1>1, <1>3, <2>5, <2>6, <2>7
       DEF WorkspaceInv, WorkspaceSound, WorkspaceCopyFresh
<1>8. QED
  BY <1>6, <1>7 DEF WorkspacesInit

(* The steps that change one call.                                         *)
LEMMA WsUpdate ==
    ASSUME WorkspaceTypeOK, NEW r \in WorkspaceCalls, NEW c \in WsRecord,
           wsCall' = [wsCall EXCEPT ![r] = c]
    PROVE  /\ wsCall' \in [WorkspaceCalls -> WsRecord]
           /\ wsCall'[r] = c
           /\ \A s \in WorkspaceCalls \ {r} : wsCall'[s] = wsCall[s]
BY DEF WorkspaceTypeOK

LEMMA WsAdvance ==
    ASSUME WorkspaceTypeOK, NEW r \in WorkspaceCalls, NEW pc \in WsPc,
           Advance(r, pc)
    PROVE  \E c \in WsRecord :
             /\ wsCall' = [wsCall EXCEPT ![r] = c]
             /\ c.pc = pc /\ c.op = wsCall[r].op /\ c.seen = wsCall[r].seen
             /\ c.changed = wsCall[r].changed /\ c.copy = wsCall[r].copy
             /\ c.overtaken = wsCall[r].overtaken
<1>1. PICK c : c = [wsCall[r] EXCEPT !.pc = pc]
  OBVIOUS
<1>2. wsCall' = [wsCall EXCEPT ![r] = c]
  BY <1>1 DEF Advance
<1>3. wsCall[r] \in WsRecord
  BY DEF WorkspaceTypeOK
<1>4. /\ c \in WsRecord /\ c.pc = pc /\ c.op = wsCall[r].op
      /\ c.seen = wsCall[r].seen /\ c.changed = wsCall[r].changed
      /\ c.copy = wsCall[r].copy /\ c.overtaken = wsCall[r].overtaken
  BY <1>1, <1>3 DEF WsRecord
<1>5. QED
  BY <1>2, <1>4

(* A request that is under way runs in a workspace with its owner.         *)
LEMMA Underway ==
    ASSUME WorkspaceInv, NEW r \in WorkspaceCalls, wsCall[r].pc # "idle"
    PROVE  workspace.step > 2
<1>1. workspace.step \in 1 .. 5
  BY DEF WorkspaceInv, WorkspaceTypeOK
<1>2. QED
  BY <1>1 DEF WorkspaceInv

(* What the counted sets make of a change of one call.                     *)
LEMMA CountedOthers ==
    ASSUME NEW r \in WorkspaceCalls,
           \A s \in WorkspaceCalls \ {r} :
             /\ wsCall'[s].op = wsCall[s].op /\ wsCall'[s].pc = wsCall[s].pc
             /\ wsCall'[s].seen = wsCall[s].seen
             /\ wsCall'[s].changed = wsCall[s].changed
    PROVE  \A s : s # r =>
             /\ s \in Entering' <=> s \in Entering
             /\ s \in Leaving' <=> s \in Leaving
             /\ s \in Twice' <=> s \in Twice
             /\ s \in Nobody' <=> s \in Nobody
BY DEF Entering, Leaving, Twice, Nobody, Calls

LEMMA CountFrame ==
    ASSUME NEW r \in WorkspaceCalls,
           \A s \in WorkspaceCalls \ {r} :
             /\ wsCall'[s].op = wsCall[s].op /\ wsCall'[s].pc = wsCall[s].pc
             /\ wsCall'[s].seen = wsCall[s].seen
             /\ wsCall'[s].changed = wsCall[s].changed,
           r \in Entering' <=> r \in Entering,
           r \in Leaving' <=> r \in Leaving,
           r \in Twice' <=> r \in Twice,
           r \in Nobody' <=> r \in Nobody,
           \A u \in WorkspaceUsers : Active(u)' <=> Active(u),
           workspace'.memberCount = workspace.memberCount,
           CountMatches
    PROVE  CountMatches'
<1>1. /\ Entering' = Entering /\ Leaving' = Leaving /\ Twice' = Twice
      /\ Nobody' = Nobody
  <2>1. \A s : s # r =>
          /\ s \in Entering' <=> s \in Entering
          /\ s \in Leaving' <=> s \in Leaving
          /\ s \in Twice' <=> s \in Twice
          /\ s \in Nobody' <=> s \in Nobody
    BY CountedOthers
  <2>2. Entering' = Entering
    <3>1. \A s : s \in Entering' <=> s \in Entering
      BY <2>1
    <3>2. QED
      BY <3>1
  <2>3. Leaving' = Leaving
    <3>1. \A s : s \in Leaving' <=> s \in Leaving
      BY <2>1
    <3>2. QED
      BY <3>1
  <2>4. Twice' = Twice
    <3>1. \A s : s \in Twice' <=> s \in Twice
      BY <2>1
    <3>2. QED
      BY <3>1
  <2>5. Nobody' = Nobody
    <3>1. \A s : s \in Nobody' <=> s \in Nobody
      BY <2>1
    <3>2. QED
      BY <3>1
  <2>6. QED
    BY <2>2, <2>3, <2>4, <2>5
<1>2. Members' = Members
  <2>1. Members \subseteq WorkspaceUsers /\ Members' \subseteq WorkspaceUsers
    BY DEF Members
  <2>2. \A u \in WorkspaceUsers : (u \in Members <=> Active(u))
                                /\ (u \in Members' <=> Active(u)')
    BY DEF Members
  <2>3. QED
    BY <2>1, <2>2
<1>3. QED
  BY <1>1, <1>2 DEF CountMatches

Early == {"idle", "get", "read", "fill"}

LEMMA CopyFrame ==
    ASSUME WorkspaceInv, NEW r \in WorkspaceCalls,
           \A s \in WorkspaceCalls \ {r} :
             /\ wsCall'[s].op = wsCall[s].op /\ wsCall'[s].pc = wsCall[s].pc
             /\ wsCall[s].overtaken => wsCall'[s].overtaken,
           UNCHANGED workspaceCache,
           workspace'.name = workspace.name,
           workspace'.isActive = workspace.isActive,
           wsCall[r].pc \notin {"bust", "cut"}
             \/ (wsCall'[r].pc \in {"bust", "cut"} /\ wsCall'[r].op = wsCall[r].op),
           wsCall[r].pc \in Early
             \/ (wsCall'[r].pc \notin Early
                  /\ (wsCall[r].overtaken => wsCall'[r].overtaken))
    PROVE  /\ WorkspaceCopyFresh'
           /\ workspaceCache' # Uncached =>
                 /\ workspaceCache'.by \in WorkspaceCalls
                 /\ wsCall'[workspaceCache'.by].pc \notin Early
<1>1. workspaceCache # Uncached =>
        /\ workspaceCache.by \in WorkspaceCalls
        /\ wsCall[workspaceCache.by].pc \notin Early
  BY DEF WorkspaceInv, Early
<1>2. workspaceCache' # Uncached =>
        /\ workspaceCache'.by \in WorkspaceCalls
        /\ wsCall'[workspaceCache'.by].pc \notin Early
        /\ wsCall[workspaceCache.by].overtaken
              => wsCall'[workspaceCache'.by].overtaken
  BY <1>1
<1>3. /\ Calls("update", {"bust", "cut"}) \subseteq Calls("update", {"bust", "cut"})'
      /\ Calls("delete", {"bust", "cut"}) \subseteq Calls("delete", {"bust", "cut"})'
  BY DEF Calls
<1>4. WorkspaceCopyFresh
  BY DEF WorkspaceInv, WorkspaceSound
<1>5. WorkspaceCopyFresh'
  BY <1>2, <1>3, <1>4 DEF WorkspaceCopyFresh
<1>6. QED
  BY <1>2, <1>5

(* A call goes on without touching what is counted or copied.              *)
LEMMA WsQuiet ==
    ASSUME WorkspaceInv, NEW r \in WorkspaceCalls, NEW c \in WsRecord,
           wsCall' = [wsCall EXCEPT ![r] = c],
           UNCHANGED <<workspace, workspaceCache>>, workspace.step > 2,
           memberOf' \in [WorkspaceUsers -> MemberRecord],
           \A u \in WorkspaceUsers : Active(u)' <=> Active(u),
           WsCallSound(c),
           wsCall[r].pc \notin {"count", "cut", "done", "bust"},
           c.op \in {"invite", "remove"} => c.pc \notin {"count", "cut", "done"},
           wsCall[r].pc \in Early
             \/ (c.pc \notin Early /\ (wsCall[r].overtaken => c.overtaken))
    PROVE  WorkspaceInv'
<1>1. /\ wsCall' \in [WorkspaceCalls -> WsRecord]
      /\ wsCall'[r] = c
      /\ \A s \in WorkspaceCalls \ {r} : wsCall'[s] = wsCall[s]
  BY WsUpdate DEF WorkspaceInv
<1>2. WorkspaceTypeOK'
  BY <1>1 DEF WorkspaceInv, WorkspaceTypeOK
<1>3. Copy' = Copy
  BY DEF Copy
<1>4. \A s \in WorkspaceCalls : WsCallSound(wsCall[s])'
  BY <1>1, <1>3 DEF WorkspaceInv, WsCallSound
<1>5. /\ r \notin Entering /\ r \notin Leaving /\ r \notin Twice /\ r \notin Nobody
      /\ r \notin Entering' /\ r \notin Leaving' /\ r \notin Twice'
      /\ r \notin Nobody'
  BY <1>1 DEF Entering, Leaving, Twice, Nobody, Calls
<1>6. CountMatches
  BY CountDef DEF WorkspaceInv, WorkspaceSound
<1>7. CountMatches'
  BY <1>1, <1>5, <1>6, CountFrame
<1>8. /\ WorkspaceCopyFresh'
      /\ workspaceCache' # Uncached =>
            /\ workspaceCache'.by \in WorkspaceCalls
            /\ wsCall'[workspaceCache'.by].pc \notin Early
  BY <1>1, CopyFrame
<1>9. MemberCountExact'
  BY <1>7, CountNext
<1>10. ~(workspace'.step <= 2)
  BY DEF WorkspaceInv, WorkspaceTypeOK
<1>11. QED
  BY <1>2, <1>4, <1>8, <1>9, <1>10 DEF WorkspaceInv, WorkspaceSound, Early

LEMMA QuietCall ==
    ASSUME WorkspaceInv, NEW r \in WorkspaceCalls,
           BeginCall(r) \/ CacheHit(r) \/ CacheMiss(r) \/ ReadWorkspace(r)
             \/ FindMember(r) \/ ChangeRole(r)
    PROVE  WorkspaceInv'
<1>0. /\ wsCall[r] \in WsRecord /\ WsCallSound(wsCall[r])
      /\ memberOf \in [WorkspaceUsers -> MemberRecord] /\ WorkspaceTypeOK
      /\ workspace.name \in WorkspaceNames /\ workspace.isActive \in BOOLEAN
      /\ WorkspaceOwner \in WorkspaceUsers /\ Invitees \subseteq WorkspaceUsers
      /\ wsCall[r].pc # "idle" => workspace.step > 2
  BY Underway DEF WorkspaceInv, WorkspaceTypeOK, WorkspaceUsers
<1>1. CASE BeginCall(r)
  <2>1. wsCall[r].pc = "idle" /\ UNCHANGED <<workspace, memberOf, workspaceCache>>
    BY <1>1 DEF BeginCall
  <2>2. PICK by \in WorkspaceUsers, who \in Invitees, role \in Roles \ {"owner"} :
          \/ /\ Authorized(by, Managers)
             /\ \E op \in {"invite", "role", "remove"} :
                  /\ op = "remove" => role = "member"
                  /\ wsCall' = [wsCall EXCEPT ![r] =
                         [@ EXCEPT !.op = op, !.pc = "get", !.by = by,
                                   !.who = who, !.role = role]]
          \/ /\ Authorized(by, Managers)
             /\ wsCall' = [wsCall EXCEPT ![r] =
                     [@ EXCEPT !.op = "update", !.pc = "write", !.by = by]]
          \/ /\ Authorized(by, {"owner"})
             /\ wsCall' = [wsCall EXCEPT ![r] =
                     [@ EXCEPT !.op = "delete", !.pc = "write", !.by = by]]
          \/ /\ Authorized(by, Roles)
             /\ wsCall' = [wsCall EXCEPT ![r] =
                     [@ EXCEPT !.op = "view", !.pc = "get", !.by = by]]
    BY <1>1 DEF BeginCall
  <2>3. workspace.step > 2
    <3>1. workspace.step \in 1 .. 5
      BY <1>0 DEF WorkspaceTypeOK
    <3>2. Active(by)
      BY <2>2 DEF Authorized
    <3>3. QED
      BY <3>1, <3>2 DEF WorkspaceInv
  <2>4. PICK c : /\ wsCall' = [wsCall EXCEPT ![r] = c]
                 /\ c \in WsRecord /\ c.pc \in {"get", "write"}
                 /\ c.pc = "write" => c.op \in {"update", "delete"}
    <3>1. ASSUME NEW op \in {"invite", "role", "remove"},
                 wsCall' = [wsCall EXCEPT ![r] =
                         [@ EXCEPT !.op = op, !.pc = "get", !.by = by,
                                   !.who = who, !.role = role]]
          PROVE  \E c : /\ wsCall' = [wsCall EXCEPT ![r] = c]
                        /\ c \in WsRecord /\ c.pc = "get"
      <4>1. PICK c : c = [wsCall[r] EXCEPT !.op = op, !.pc = "get", !.by = by,
                                           !.who = who, !.role = role]
        OBVIOUS
      <4>2. c \in WsRecord /\ c.pc = "get"
        BY <1>0, <4>1 DEF WsRecord, WsPc
      <4>3. QED
        BY <3>1, <4>1, <4>2
    <3>2. ASSUME NEW op \in {"update", "delete", "view"},
                 NEW pc \in {"get", "write"},
                 wsCall' = [wsCall EXCEPT ![r] =
                         [@ EXCEPT !.op = op, !.pc = pc, !.by = by]]
          PROVE  \E c : /\ wsCall' = [wsCall EXCEPT ![r] = c]
                        /\ c \in WsRecord /\ c.pc = pc /\ c.op = op
      <4>1. PICK c : c = [wsCall[r] EXCEPT !.op = op, !.pc = pc, !.by = by]
        OBVIOUS
      <4>2. c \in WsRecord /\ c.pc = pc /\ c.op = op
        BY <1>0, <4>1 DEF WsRecord, WsPc
      <4>3. QED
        BY <3>2, <4>1, <4>2
    <3>3. QED
      BY <2>2, <3>1, <3>2
  <2>5. WsCallSound(c)
    BY <2>2, <2>4 DEF WsCallSound
  <2>6. \A u \in WorkspaceUsers : Active(u)' <=> Active(u)
    BY <2>1 DEF Active
  <2>7. QED
    BY <1>0, <2>1, <2>2, <2>3, <2>4, <2>5, <2>6, WsQuiet DEF Early
<1>2. ASSUME NEW pc \in WsPc, Advance(r, pc), UNCHANGED <<workspace, workspaceCache>>,
             memberOf' \in [WorkspaceUsers -> MemberRecord],
             \A u \in WorkspaceUsers : Active(u)' <=> Active(u),
             wsCall[r].pc \notin {"idle", "count", "cut", "done", "bust"},
             pc \notin {"idle", "fill", "count", "bust"},
             pc = "find" => wsCall[r].op = "invite",
             pc = "write" => wsCall[r].op # "invite",
             wsCall[r].op = "invite" => pc \notin {"cut", "done"},
             wsCall[r].op = "remove" => pc \notin {"cut", "done"},
             wsCall[r].pc \in {"get", "read"} \/ pc \notin {"get", "read"}
      PROVE  WorkspaceInv'
  <2>1. PICK c \in WsRecord :
             /\ wsCall' = [wsCall EXCEPT ![r] = c]
             /\ c.pc = pc /\ c.op = wsCall[r].op /\ c.seen = wsCall[r].seen
             /\ c.changed = wsCall[r].changed /\ c.copy = wsCall[r].copy
             /\ c.overtaken = wsCall[r].overtaken
    BY <1>0, <1>2, WsAdvance
  <2>2. WsCallSound(c)
    BY <1>2, <2>1 DEF WsCallSound
  <2>3. QED
    BY <1>0, <1>2, <2>1, <2>2, WsQuiet DEF Early
<1>3. CASE CacheHit(r)
  <2>1. /\ Advance(r, AfterGet(r)) /\ wsCall[r].pc = "get"
        /\ UNCHANGED <<workspace, memberOf, workspaceCache>>
    BY <1>3 DEF CacheHit
  <2>2. /\ AfterGet(r) \in {"done", "find", "write"}
        /\ AfterGet(r) = "find" => wsCall[r].op = "invite"
        /\ AfterGet(r) = "write" => wsCall[r].op # "invite"
        /\ AfterGet(r) = "done" => wsCall[r].op = "view"
    BY DEF AfterGet
  <2>3. PICK pc : pc = AfterGet(r)
    OBVIOUS
  <2>4. QED
    BY <1>0, <1>2, <2>1, <2>2, <2>3 DEF Active, WsPc
<1>4. CASE CacheMiss(r)
  BY <1>0, <1>2, <1>4 DEF CacheMiss, Active, WsPc
<1>5. CASE ReadWorkspace(r)
  <2>1. PICK c : c = [wsCall[r] EXCEPT !.pc = "fill", !.copy = Copy, !.overtaken = FALSE]
    OBVIOUS
  <2>2. /\ wsCall' = [wsCall EXCEPT ![r] = c] /\ wsCall[r].pc = "read"
        /\ UNCHANGED <<workspace, memberOf, workspaceCache>>
    BY <1>5, <2>1 DEF ReadWorkspace
  <2>3. Copy \in [name : WorkspaceNames \cup {0}, isActive : BOOLEAN]
    BY <1>0 DEF Copy
  <2>4. c \in WsRecord /\ c.pc = "fill" /\ c.copy = Copy /\ c.op = wsCall[r].op
    BY <1>0, <2>1, <2>3 DEF WsRecord, WsPc
  <2>5. WsCallSound(c)
    BY <2>4 DEF WsCallSound
  <2>6. QED
    BY <1>0, <2>2, <2>4, <2>5, WsQuiet DEF Early, Active
<1>6. CASE FindMember(r)
  <2>1. PICK state : state = memberOf[wsCall[r].who].state
    OBVIOUS
  <2>2. state \in {"none", "active", "inactive"}
    BY <1>0, <2>1 DEF WsRecord, MemberRecord
  <2>3. PICK pc \in {"refused", "write"} : pc = IF state = "active" THEN "refused" ELSE "write"
    OBVIOUS
  <2>4. PICK c : c = [wsCall[r] EXCEPT !.seen = state, !.pc = pc]
    OBVIOUS
  <2>5. /\ wsCall' = [wsCall EXCEPT ![r] = c] /\ wsCall[r].pc = "find"
        /\ UNCHANGED <<workspace, memberOf, workspaceCache>>
    BY <1>6, <2>1, <2>3, <2>4 DEF FindMember
  <2>6. /\ c \in WsRecord /\ c.pc = pc /\ c.seen = state /\ c.op = wsCall[r].op
        /\ c.overtaken = wsCall[r].overtaken
    BY <1>0, <2>2, <2>4 DEF WsRecord, WsPc
  <2>7. WsCallSound(c)
    BY <2>3, <2>6 DEF WsCallSound
  <2>8. QED
    BY <1>0, <2>5, <2>6, <2>7, WsQuiet DEF Early, Active
<1>7. CASE ChangeRole(r)
  <2>1. PICK c : c = wsCall[r]
    OBVIOUS
  <2>2. /\ c.pc = "write" /\ c.op = "role" /\ Advance(r, "done")
        /\ memberOf' = IF Active(c.who) THEN [memberOf EXCEPT ![c.who].role = c.role]
                       ELSE memberOf
        /\ UNCHANGED <<workspace, workspaceCache>>
    BY <1>7, <2>1 DEF ChangeRole
  <2>3. c.who \in WorkspaceUsers /\ c.role \in Roles
    BY <1>0, <2>1 DEF WsRecord
  <2>4. /\ memberOf' \in [WorkspaceUsers -> MemberRecord]
        /\ \A u \in WorkspaceUsers : memberOf'[u].state = memberOf[u].state
    BY <1>0, <2>2, <2>3 DEF MemberRecord
  <2>5. QED
    BY <1>2, <2>1, <2>2, <2>4 DEF Active, WsPc
<1>8. QED
  BY <1>1, <1>3, <1>4, <1>5, <1>6, <1>7

(* The writes of the members, between the check and the count.             *)
LEMMA MemberWrite ==
    ASSUME WorkspaceInv, NEW r \in WorkspaceCalls,
           WriteInvitation(r) \/ RemoveMember(r)
    PROVE  WorkspaceInv'
<1>0. /\ wsCall[r] \in WsRecord /\ WsCallSound(wsCall[r]) /\ WorkspaceTypeOK
      /\ wsCall[r].who \in WorkspaceUsers /\ wsCall[r].role \in Roles
      /\ memberOf[wsCall[r].who] \in MemberRecord
  BY DEF WorkspaceInv, WorkspaceTypeOK, WsRecord
<1>1. CASE Advance(r, "refused") /\ UNCHANGED <<workspace, memberOf, workspaceCache>>
           /\ wsCall[r].pc = "write"
  <2>1. PICK c \in WsRecord :
             /\ wsCall' = [wsCall EXCEPT ![r] = c]
             /\ c.pc = "refused" /\ c.op = wsCall[r].op
             /\ c.overtaken = wsCall[r].overtaken
    BY <1>0, <1>1, WsAdvance DEF WsPc
  <2>2. QED
    BY <1>0, <1>1, <2>1, Underway, WsQuiet
       DEF Early, Active, WsCallSound, WorkspaceTypeOK
<1>2. ASSUME NEW who, who = wsCall[r].who,
             NEW op \in {"invite", "remove"}, op = wsCall[r].op,
             wsCall[r].pc = "write",
             NEW state \in {"active", "inactive"},
             state = "active" <=> op = "invite",
             NEW m \in MemberRecord, memberOf' = [memberOf EXCEPT ![who] = m],
             m.state = state \/ (~Active(who) /\ m = memberOf[who]
                                 /\ op = "remove"),
             NEW changed \in BOOLEAN,
             changed <=> (Active(who) <=> op = "remove"),
             op = "invite" => changed \/ wsCall[r].seen = "inactive",
             wsCall' = [wsCall EXCEPT ![r] =
                          [@ EXCEPT !.pc = "count", !.changed = changed]],
             UNCHANGED <<workspace, workspaceCache>>
      PROVE  WorkspaceInv'
  <2>1. PICK c : c = [wsCall[r] EXCEPT !.pc = "count", !.changed = changed]
    OBVIOUS
  <2>2. wsCall' = [wsCall EXCEPT ![r] = c]
    BY <1>2, <2>1
  <2>3. /\ c \in WsRecord /\ c.pc = "count" /\ c.op = op /\ c.changed = changed
        /\ c.seen = wsCall[r].seen /\ c.overtaken = wsCall[r].overtaken
    BY <1>0, <1>2, <2>1 DEF WsRecord, WsPc
  <2>4. /\ wsCall' \in [WorkspaceCalls -> WsRecord]
        /\ wsCall'[r] = c
        /\ \A s \in WorkspaceCalls \ {r} : wsCall'[s] = wsCall[s]
    BY <1>0, <2>2, <2>3, WsUpdate
  <2>5. /\ memberOf' \in [WorkspaceUsers -> MemberRecord]
        /\ memberOf'[who] = m
        /\ \A u \in WorkspaceUsers \ {who} : memberOf'[u] = memberOf[u]
    BY <1>0, <1>2 DEF WorkspaceTypeOK
  <2>6. WorkspaceTypeOK'
    BY <1>0, <1>2, <2>4, <2>5 DEF WorkspaceTypeOK
  <2>7. \A s \in WorkspaceCalls : WsCallSound(wsCall[s])'
    <3>1. Copy' = Copy
      BY <1>2 DEF Copy
    <3>2. WsCallSound(c)'
      BY <1>2, <2>3 DEF WsCallSound
    <3>3. QED
      BY <2>4, <3>1, <3>2 DEF WorkspaceInv, WsCallSound
  <2>8. workspace.step > 2 /\ workspace.step \in 1 .. 5
        /\ workspace.memberCount \in Int
    BY <1>0, <1>2, Underway DEF WorkspaceTypeOK
  <2>9. CountMatches
    BY <2>8, CountDef DEF WorkspaceInv, WorkspaceSound
  <2>10. /\ r \notin Entering /\ r \notin Leaving /\ r \notin Twice
         /\ r \notin Nobody /\ r \notin Twice' /\ r \notin Nobody'
         /\ r \in Entering' <=> op = "invite" /\ changed
         /\ r \in Leaving' <=> op = "remove" /\ changed
    BY <1>2, <2>3, <2>4 DEF Entering, Leaving, Twice, Nobody, Calls
  <2>11. /\ \A u : u # who => (u \in Members' <=> u \in Members)
         /\ who \in Members <=> Active(who)
         /\ who \in Members' <=> op = "invite"
    <3>1. \A u : u # who => (u \in Members' <=> u \in Members)
      BY <2>5 DEF Members, Active
    <3>2. who \in Members <=> Active(who)
      BY <1>0, <1>2 DEF Members
    <3>3. m.state = "active" <=> op = "invite"
      BY <1>0, <1>2 DEF Active
    <3>4. who \in Members' <=> op = "invite"
      BY <1>0, <1>2, <2>5, <3>3 DEF Members, Active
    <3>5. QED
      BY <3>1, <3>2, <3>4
  <2>12. \A s : s # r =>
             /\ s \in Entering' <=> s \in Entering
             /\ s \in Leaving' <=> s \in Leaving
             /\ s \in Twice' <=> s \in Twice
             /\ s \in Nobody' <=> s \in Nobody
    BY <2>4, CountedOthers
  <2>13. /\ Cardinality(Twice') = Cardinality(Twice)
         /\ Cardinality(Nobody') = Cardinality(Nobody)
         /\ r \in Entering' => Cardinality(Entering') = Cardinality(Entering) + 1
         /\ r \notin Entering' => Cardinality(Entering') = Cardinality(Entering)
         /\ r \in Leaving' => Cardinality(Leaving') = Cardinality(Leaving) + 1
         /\ r \notin Leaving' => Cardinality(Leaving') = Cardinality(Leaving)
    <3>1. /\ IsFiniteSet(Entering) /\ IsFiniteSet(Leaving) /\ IsFiniteSet(Twice)
          /\ IsFiniteSet(Nobody)
      BY FiniteCalls
    <3>2. Cardinality(Twice') = Cardinality(Twice)
      BY <2>10, <2>12, <3>1, Recount
    <3>3. Cardinality(Nobody') = Cardinality(Nobody)
      BY <2>10, <2>12, <3>1, Recount
    <3>4. /\ r \in Entering' => Cardinality(Entering') = Cardinality(Entering) + 1
          /\ r \notin Entering' => Cardinality(Entering') = Cardinality(Entering)
      BY <2>10, <2>12, <3>1, Recount
    <3>5. /\ r \in Leaving' => Cardinality(Leaving') = Cardinality(Leaving) + 1
          /\ r \notin Leaving' => Cardinality(Leaving') = Cardinality(Leaving)
      BY <2>10, <2>12, <3>1, Recount
    <3>6. QED
      BY <3>2, <3>3, <3>4, <3>5
  <2>14. /\ op = "invite" /\ changed
              => Cardinality(Members') = Cardinality(Members) + 1
         /\ op = "remove" /\ changed
              => Cardinality(Members') = Cardinality(Members) - 1
         /\ ~changed => Cardinality(Members') = Cardinality(Members)
    <3>1. IsFiniteSet(Members)
      BY FiniteCalls
    <3>2. who \in Members <=> (op = "remove" <=> changed)
      BY <1>2, <2>11
    <3>3. /\ who \in Members' /\ who \notin Members
               => Cardinality(Members') = Cardinality(Members) + 1
          /\ who \notin Members' /\ who \in Members
               => Cardinality(Members') = Cardinality(Members) - 1
          /\ (who \in Members' <=> who \in Members)
               => Cardinality(Members') = Cardinality(Members)
      BY <2>11, <3>1, Recount
    <3>4. CASE op = "invite"
      BY <2>11, <3>2, <3>3, <3>4
    <3>5. CASE op = "remove"
      BY <2>11, <3>2, <3>3, <3>5
    <3>6. QED
      BY <1>2, <3>4, <3>5
  <2>15. CountMatches'
    <3>1. /\ Cardinality(Members) \in Nat /\ Cardinality(Entering) \in Nat
          /\ Cardinality(Leaving) \in Nat /\ Cardinality(Twice) \in Nat
          /\ Cardinality(Nobody) \in Nat
      BY FiniteCalls
    <3>2. workspace'.memberCount = workspace.memberCount
      BY <1>2
    <3>3. CASE op = "invite"
      BY <2>8, <2>9, <2>10, <2>13, <2>14, <3>1, <3>2, <3>3 DEF CountMatches
    <3>4. CASE op = "remove"
      BY <2>8, <2>9, <2>10, <2>13, <2>14, <3>1, <3>2, <3>4 DEF CountMatches
    <3>5. QED
      BY <1>2, <3>3, <3>4
  <2>16. /\ WorkspaceCopyFresh'
         /\ workspaceCache' # Uncached =>
              /\ workspaceCache'.by \in WorkspaceCalls
              /\ wsCall'[workspaceCache'.by].pc \notin Early
    BY <1>2, <2>3, <2>4, CopyFrame DEF Early
  <2>17. QED
    BY <1>2, <2>6, <2>7, <2>8, <2>15, <2>16, CountNext
       DEF WorkspaceInv, WorkspaceSound, Early
<1>3. CASE WriteInvitation(r)
  <2>1. PICK c : c = wsCall[r]
    OBVIOUS
  <2>2. /\ c.pc = "write" /\ c.op = "invite"
        /\ IF c.seen = "none" /\ memberOf[c.who].state # "none"
           THEN Advance(r, "refused") /\ UNCHANGED memberOf
           ELSE Enter(r)
        /\ UNCHANGED <<workspace, workspaceCache>>
    BY <1>3, <2>1 DEF WriteInvitation
  <2>3. CASE c.seen = "none" /\ memberOf[c.who].state # "none"
    BY <1>1, <2>1, <2>2, <2>3
  <2>4. CASE ~(c.seen = "none" /\ memberOf[c.who].state # "none")
    <3>1. PICK m : m = [state |-> "active", role |-> c.role]
      OBVIOUS
    <3>2. PICK changed \in BOOLEAN : changed = ~Active(c.who)
      BY DEF Active
    <3>3. /\ memberOf' = [memberOf EXCEPT ![c.who] = m]
          /\ wsCall' = [wsCall EXCEPT ![r] =
                          [@ EXCEPT !.pc = "count", !.changed = changed]]
      BY <2>1, <2>2, <2>4, <3>1, <3>2 DEF Enter
    <3>4. m \in MemberRecord /\ m.state = "active"
      BY <1>0, <2>1, <3>1 DEF MemberRecord
    <3>5. changed \/ c.seen = "inactive"
      <4>1. c.seen \in {"none", "inactive"}
        BY <1>0, <2>1, <2>2 DEF WsRecord, WsCallSound
      <4>2. c.seen = "none" => changed = TRUE
        BY <2>4, <3>2 DEF Active
      <4>3. QED
        BY <4>1, <4>2
    <3>6. QED
      BY <1>2, <2>1, <2>2, <3>2, <3>3, <3>4, <3>5
  <2>5. QED
    BY <2>3, <2>4
<1>4. CASE RemoveMember(r)
  <2>1. PICK c : c = wsCall[r]
    OBVIOUS
  <2>2. PICK changed \in BOOLEAN : changed = Active(c.who)
    BY DEF Active
  <2>3. /\ c.pc = "write" /\ c.op = "remove"
        /\ memberOf' = IF memberOf[c.who].state = "none" THEN memberOf
                       ELSE [memberOf EXCEPT ![c.who].state = "inactive"]
        /\ wsCall' = [wsCall EXCEPT ![r] =
                        [@ EXCEPT !.pc = "count", !.changed = changed]]
        /\ UNCHANGED <<workspace, workspaceCache>>
    BY <1>4, <2>1, <2>2 DEF RemoveMember
  <2>4. PICK m : m = IF memberOf[c.who].state = "none" THEN memberOf[c.who]
                     ELSE [memberOf[c.who] EXCEPT !.state = "inactive"]
    OBVIOUS
  <2>5. memberOf' = [memberOf EXCEPT ![c.who] = m]
    BY <1>0, <2>1, <2>3, <2>4 DEF WorkspaceTypeOK
  <2>6. m \in MemberRecord
    BY <1>0, <2>1, <2>4 DEF MemberRecord
  <2>7. m.state = "inactive" \/ (~Active(c.who) /\ m = memberOf[c.who])
    BY <1>0, <2>1, <2>4 DEF MemberRecord, Active
  <2>8. QED
    BY <1>2, <2>1, <2>2, <2>3, <2>5, <2>6, <2>7
<1>5. QED
  BY <1>3, <1>4

(* The count that follows, or does not.                                    *)
LEMMA CountOrCut ==
    ASSUME WorkspaceInv, NEW r \in WorkspaceCalls, CountMember(r) \/ CutCall(r)
    PROVE  WorkspaceInv'
<1>1. PICK pc \in {"done", "cut"} :
        /\ Advance(r, pc)
        /\ pc = "done" => CountMember(r) /\ wsCall[r].pc = "count"
        /\ pc = "cut" => CutCall(r) /\ wsCall[r].pc \in {"count", "bust"}
  BY DEF CountMember, CutCall
<1>2. WorkspaceTypeOK /\ WsCallSound(wsCall[r])
  BY DEF WorkspaceInv
<1>3. PICK c \in WsRecord :
             /\ wsCall' = [wsCall EXCEPT ![r] = c]
             /\ c.pc = pc /\ c.op = wsCall[r].op /\ c.seen = wsCall[r].seen
             /\ c.changed = wsCall[r].changed
             /\ c.overtaken = wsCall[r].overtaken
  BY <1>1, <1>2, WsAdvance DEF WsPc
<1>4. /\ wsCall' \in [WorkspaceCalls -> WsRecord]
      /\ wsCall'[r] = c
      /\ \A s \in WorkspaceCalls \ {r} : wsCall'[s] = wsCall[s]
  BY <1>2, <1>3, WsUpdate
<1>5. PICK n \in Int :
        /\ workspace' = [workspace EXCEPT !.memberCount = n]
        /\ pc = "cut" => n = workspace.memberCount
        /\ pc = "done" /\ c.op = "invite" => n = workspace.memberCount + 1
        /\ pc = "done" /\ c.op = "remove" => n = workspace.memberCount - 1
        /\ UNCHANGED <<memberOf, workspaceCache>>
  <2>1. workspace.memberCount \in Int
        /\ workspace = [workspace EXCEPT !.memberCount = workspace.memberCount]
    BY <1>2 DEF WorkspaceTypeOK
  <2>2. CASE pc = "cut"
    BY <1>1, <2>1, <2>2 DEF CutCall
  <2>3. CASE pc = "done" /\ c.op = "invite"
    <3>1. workspace' = [workspace EXCEPT !.memberCount = workspace.memberCount + 1]
          /\ UNCHANGED <<memberOf, workspaceCache>>
      BY <1>1, <1>3, <2>3 DEF CountMember
    <3>2. QED
      BY <2>1, <2>3, <3>1
  <2>4. CASE pc = "done" /\ c.op # "invite"
    <3>1. workspace' = [workspace EXCEPT !.memberCount = workspace.memberCount - 1]
          /\ UNCHANGED <<memberOf, workspaceCache>>
      BY <1>1, <1>3, <2>4 DEF CountMember
    <3>2. QED
      BY <2>1, <2>4, <3>1
  <2>5. QED
    BY <1>1, <2>2, <2>3, <2>4
<1>6. /\ workspace'.name = workspace.name /\ workspace'.isActive = workspace.isActive
      /\ workspace'.step = workspace.step /\ workspace'.memberCount = n
      /\ WorkspaceTypeOK'
  BY <1>2, <1>4, <1>5 DEF WorkspaceTypeOK
<1>7. \A s \in WorkspaceCalls : WsCallSound(wsCall[s])'
  <2>1. Copy' = Copy
    BY <1>6 DEF Copy
  <2>2. WsCallSound(c)'
    BY <1>3 DEF WsCallSound
  <2>3. QED
    BY <1>4, <2>1, <2>2 DEF WorkspaceInv, WsCallSound
<1>8. workspace.step > 2 /\ workspace.step \in 1 .. 5
      /\ workspace.memberCount \in Int
  BY <1>1, <1>2, Underway DEF WorkspaceTypeOK
<1>9. CountMatches
  BY <1>8, CountDef DEF WorkspaceInv, WorkspaceSound
<1>10. \A s : s # r =>
             /\ s \in Entering' <=> s \in Entering
             /\ s \in Leaving' <=> s \in Leaving
             /\ s \in Twice' <=> s \in Twice
             /\ s \in Nobody' <=> s \in Nobody
  BY <1>4, CountedOthers
<1>11. Members' = Members
  BY <1>5 DEF Members, Active
<1>12. /\ IsFiniteSet(Entering) /\ IsFiniteSet(Leaving) /\ IsFiniteSet(Twice)
       /\ IsFiniteSet(Nobody)
       /\ Cardinality(Members) \in Nat /\ Cardinality(Entering) \in Nat
       /\ Cardinality(Leaving) \in Nat /\ Cardinality(Twice) \in Nat
       /\ Cardinality(Nobody) \in Nat
  BY FiniteCalls
<1>13. CountMatches'
  <2>1. CASE pc = "cut"
    <3>1. /\ r \in Entering' <=> r \in Entering
          /\ r \in Leaving' <=> r \in Leaving
          /\ r \in Twice' <=> r \in Twice
          /\ r \in Nobody' <=> r \in Nobody
      BY <1>1, <1>2, <1>3, <1>4, <2>1
         DEF Entering, Leaving, Twice, Nobody, Calls, WsCallSound
    <3>2. \A u \in WorkspaceUsers : Active(u)' <=> Active(u)
      BY <1>5 DEF Active
    <3>3. workspace'.memberCount = workspace.memberCount
      BY <1>5, <1>6, <2>1
    <3>4. QED
      BY <1>4, <1>9, <3>1, <3>2, <3>3, CountFrame
  <2>2. CASE pc = "done" /\ c.op = "invite"
    <3>1. /\ r \in Entering <=> c.changed
          /\ r \in Twice' <=> ~c.changed
          /\ r \notin Entering' /\ r \notin Twice
          /\ r \notin Leaving /\ r \notin Leaving'
          /\ r \notin Nobody /\ r \notin Nobody'
      BY <1>1, <1>2, <1>3, <1>4, <2>2
         DEF Entering, Leaving, Twice, Nobody, Calls, WsCallSound
    <3>2. /\ c.changed => Cardinality(Entering') = Cardinality(Entering) - 1
          /\ ~c.changed => Cardinality(Entering') = Cardinality(Entering)
      BY <1>10, <1>12, <3>1, Recount
    <3>3. /\ ~c.changed => Cardinality(Twice') = Cardinality(Twice) + 1
          /\ c.changed => Cardinality(Twice') = Cardinality(Twice)
      <4>1. CASE c.changed
        BY <1>10, <1>12, <3>1, <4>1, Recount
      <4>2. CASE ~c.changed
        BY <1>10, <1>12, <3>1, <4>2, Recount
      <4>3. QED
        BY <4>1, <4>2
    <3>4. Cardinality(Leaving') = Cardinality(Leaving)
      BY <1>10, <1>12, <3>1, Recount
    <3>5. Cardinality(Nobody') = Cardinality(Nobody)
      BY <1>10, <1>12, <3>1, Recount
    <3>6. workspace'.memberCount = workspace.memberCount + 1
      BY <1>5, <1>6, <2>2
    <3>7. QED
      BY <1>8, <1>9, <1>11, <1>12, <3>2, <3>3, <3>4, <3>5, <3>6 DEF CountMatches
  <2>3. CASE pc = "done" /\ c.op = "remove"
    <3>1. /\ r \in Leaving <=> c.changed
          /\ r \in Nobody' <=> ~c.changed
          /\ r \notin Leaving' /\ r \notin Nobody
          /\ r \notin Entering /\ r \notin Entering'
          /\ r \notin Twice /\ r \notin Twice'
      BY <1>1, <1>2, <1>3, <1>4, <2>3
         DEF Entering, Leaving, Twice, Nobody, Calls, WsCallSound
    <3>2. /\ c.changed => Cardinality(Leaving') = Cardinality(Leaving) - 1
          /\ ~c.changed => Cardinality(Leaving') = Cardinality(Leaving)
      BY <1>10, <1>12, <3>1, Recount
    <3>3. /\ ~c.changed => Cardinality(Nobody') = Cardinality(Nobody) + 1
          /\ c.changed => Cardinality(Nobody') = Cardinality(Nobody)
      <4>1. CASE c.changed
        BY <1>10, <1>12, <3>1, <4>1, Recount
      <4>2. CASE ~c.changed
        BY <1>10, <1>12, <3>1, <4>2, Recount
      <4>3. QED
        BY <4>1, <4>2
    <3>4. Cardinality(Entering') = Cardinality(Entering)
      BY <1>10, <1>12, <3>1, Recount
    <3>5. Cardinality(Twice') = Cardinality(Twice)
      BY <1>10, <1>12, <3>1, Recount
    <3>6. workspace'.memberCount = workspace.memberCount - 1
      BY <1>5, <1>6, <2>3
    <3>7. QED
      BY <1>8, <1>9, <1>11, <1>12, <3>2, <3>3, <3>4, <3>5, <3>6 DEF CountMatches
  <2>4. QED
    BY <1>1, <1>2, <1>3, <2>1, <2>2, <2>3 DEF WsCallSound
<1>14. /\ WorkspaceCopyFresh'
       /\ workspaceCache' # Uncached =>
            /\ workspaceCache'.by \in WorkspaceCalls
            /\ wsCall'[workspaceCache'.by].pc \notin Early
  <2>1. CASE pc = "cut"
    BY <1>1, <1>3, <1>4, <1>5, <1>6, <2>1, CopyFrame DEF Early
  <2>2. CASE pc = "done"
    BY <1>1, <1>3, <1>4, <1>5, <1>6, <2>2, CopyFrame DEF Early
  <2>3. QED
    BY <2>1, <2>2
<1>15. QED
  BY <1>5, <1>6, <1>7, <1>8, <1>13, <1>14, CountNext
     DEF WorkspaceInv, WorkspaceSound, Early

(* The copy is stored, or cleared: the counted sets are left alone.        *)
LEMMA CopyWrite ==
    ASSUME WorkspaceInv, NEW r \in WorkspaceCalls, FillCache(r) \/ Bust(r)
    PROVE  WorkspaceInv'
<1>1. /\ wsCall[r] \in WsRecord /\ WsCallSound(wsCall[r]) /\ WorkspaceTypeOK
      /\ wsCall[r].pc \in {"fill", "bust"}
      /\ UNCHANGED <<workspace, memberOf>>
  BY DEF WorkspaceInv, WorkspaceTypeOK, FillCache, Bust
<1>2. PICK pc \in {"done", "find", "write"} :
        /\ Advance(r, pc)
        /\ pc = "find" => wsCall[r].op = "invite"
        /\ pc = "write" => wsCall[r].op # "invite"
        /\ pc = "done" => wsCall[r].op \notin {"invite", "remove"}
  <2>1. CASE FillCache(r)
    BY <2>1 DEF FillCache, AfterGet
  <2>2. CASE Bust(r)
    BY <1>1, <2>2 DEF Bust, WsCallSound
  <2>3. QED
    BY <2>1, <2>2
<1>3. PICK c \in WsRecord :
        /\ wsCall' = [wsCall EXCEPT ![r] = c]
        /\ c.pc = pc /\ c.op = wsCall[r].op /\ c.seen = wsCall[r].seen
        /\ c.overtaken = wsCall[r].overtaken
  BY <1>1, <1>2, WsAdvance DEF WsPc
<1>4. /\ wsCall' \in [WorkspaceCalls -> WsRecord]
      /\ wsCall'[r] = c
      /\ \A s \in WorkspaceCalls \ {r} : wsCall'[s] = wsCall[s]
  BY <1>1, <1>3, WsUpdate
<1>5. WorkspaceTypeOK'
  BY <1>1, <1>4 DEF WorkspaceTypeOK
<1>6. \A s \in WorkspaceCalls : WsCallSound(wsCall[s])'
  <2>1. Copy' = Copy
    BY <1>1 DEF Copy
  <2>2. WsCallSound(c)'
    BY <1>2, <1>3 DEF WsCallSound
  <2>3. QED
    BY <1>4, <2>1, <2>2 DEF WorkspaceInv, WsCallSound
<1>7. workspace.step > 2 /\ workspace.step \in 1 .. 5
  BY <1>1, Underway DEF WorkspaceTypeOK
<1>8. CountMatches'
  <2>1. CountMatches
    BY <1>7, CountDef DEF WorkspaceInv, WorkspaceSound
  <2>2. /\ r \notin Entering /\ r \notin Leaving /\ r \notin Twice
        /\ r \notin Nobody /\ r \notin Entering' /\ r \notin Leaving'
        /\ r \notin Twice' /\ r \notin Nobody'
    BY <1>1, <1>2, <1>3, <1>4 DEF Entering, Leaving, Twice, Nobody, Calls
  <2>3. \A u \in WorkspaceUsers : Active(u)' <=> Active(u)
    BY <1>1 DEF Active
  <2>4. QED
    BY <1>1, <1>4, <2>1, <2>2, <2>3, CountFrame
<1>9. /\ WorkspaceCopyFresh'
      /\ workspaceCache' # Uncached =>
           /\ workspaceCache'.by \in WorkspaceCalls
           /\ wsCall'[workspaceCache'.by].pc \notin Early
  <2>1. CASE FillCache(r)
    <3>1. /\ workspaceCache'.by = r
          /\ workspaceCache'.name = wsCall[r].copy.name
          /\ workspaceCache'.isActive = wsCall[r].copy.isActive
          /\ wsCall[r].pc = "fill"
      BY <2>1 DEF FillCache
    <3>2. ~wsCall[r].overtaken =>
             /\ wsCall[r].copy.name = workspace.name
             /\ wsCall[r].copy.isActive = workspace.isActive
      BY <1>1, <3>1 DEF WsCallSound, Copy
    <3>3. c.pc \notin Early
      BY <1>3 DEF Early
    <3>4. QED
      BY <1>1, <1>3, <1>4, <3>1, <3>2, <3>3 DEF WorkspaceCopyFresh
  <2>2. CASE Bust(r)
    <3>1. workspaceCache' = Uncached
      BY <2>2 DEF Bust
    <3>2. QED
      BY <3>1 DEF WorkspaceCopyFresh
  <2>3. QED
    BY <2>1, <2>2
<1>10. QED
  BY <1>1, <1>5, <1>6, <1>7, <1>8, <1>9, CountNext
     DEF WorkspaceInv, WorkspaceSound, Early

(* The document is written: whoever is about to store a copy is late.      *)
LEMMA DocumentWrite ==
    ASSUME WorkspaceInv, NEW r \in WorkspaceCalls, WriteWorkspace(r)
    PROVE  WorkspaceInv'
<1>1. /\ wsCall[r] \in WsRecord /\ WsCallSound(wsCall[r]) /\ WorkspaceTypeOK
      /\ wsCall[r].pc = "write" /\ wsCall[r].op \in {"update", "delete"}
      /\ UNCHANGED <<memberOf, workspaceCache>>
  BY DEF WorkspaceInv, WorkspaceTypeOK, WriteWorkspace
<1>2. /\ workspace' \in [name : WorkspaceNames, isActive : BOOLEAN,
                         memberCount : Int, step : 1 .. 5]
      /\ workspace'.memberCount = workspace.memberCount
      /\ workspace'.step = workspace.step
  BY <1>1 DEF WorkspaceTypeOK, WriteWorkspace
<1>3. PICK calls : calls = [wsCall EXCEPT ![r].pc = "bust"]
  OBVIOUS
<1>4. /\ \A s \in WorkspaceCalls \ {r} : calls[s] = wsCall[s]
      /\ calls[r] \in WsRecord /\ calls[r].pc = "bust"
      /\ calls[r].op = wsCall[r].op
  BY <1>1, <1>3 DEF WorkspaceTypeOK, WsRecord, WsPc
<1>5. wsCall' = [s \in WorkspaceCalls |->
                   IF calls[s].pc = "fill" THEN [calls[s] EXCEPT !.overtaken = TRUE]
                   ELSE calls[s]]
  BY <1>3 DEF WriteWorkspace, Overtake
<1>6. wsCall'[r] = calls[r]
  BY <1>4, <1>5
<1>7. \A s \in WorkspaceCalls \ {r} :
         /\ wsCall'[s] \in WsRecord
         /\ wsCall'[s].op = wsCall[s].op /\ wsCall'[s].pc = wsCall[s].pc
         /\ wsCall'[s].seen = wsCall[s].seen
         /\ wsCall'[s].changed = wsCall[s].changed
         /\ wsCall'[s].pc = "fill" => wsCall'[s].overtaken
  <2>1. TAKE s \in WorkspaceCalls \ {r}
  <2>2. wsCall[s] \in WsRecord
    BY <1>1 DEF WorkspaceTypeOK
  <2>3. wsCall'[s] = IF wsCall[s].pc = "fill"
                     THEN [wsCall[s] EXCEPT !.overtaken = TRUE] ELSE wsCall[s]
    BY <1>4, <1>5
  <2>4. CASE wsCall[s].pc = "fill"
    <3>1. wsCall'[s] = [wsCall[s] EXCEPT !.overtaken = TRUE]
      BY <2>3, <2>4
    <3>2. QED
      BY <2>2, <3>1 DEF WsRecord
  <2>5. CASE wsCall[s].pc # "fill"
    BY <2>2, <2>3, <2>5
  <2>6. QED
    BY <2>4, <2>5
<1>8. wsCall' \in [WorkspaceCalls -> WsRecord]
  <2>1. \A s \in WorkspaceCalls : wsCall'[s] \in WsRecord
    BY <1>4, <1>6, <1>7
  <2>2. QED
    BY <1>5, <2>1
<1>9. WorkspaceTypeOK'
  BY <1>1, <1>2, <1>8 DEF WorkspaceTypeOK
<1>10. \A s \in WorkspaceCalls : WsCallSound(wsCall[s])'
  <2>1. WsCallSound(wsCall[r])'
    BY <1>1, <1>4, <1>6 DEF WsCallSound
  <2>2. ASSUME NEW s \in WorkspaceCalls \ {r}
        PROVE  WsCallSound(wsCall[s])'
    <3>1. WsCallSound(wsCall[s])
      BY DEF WorkspaceInv
    <3>2. QED
      BY <1>7, <3>1 DEF WsCallSound
  <2>3. QED
    BY <2>1, <2>2
<1>11. workspace.step > 2 /\ workspace.step \in 1 .. 5
  BY <1>1, Underway DEF WorkspaceTypeOK
<1>12. CountMatches'
  <2>1. CountMatches
    BY <1>11, CountDef DEF WorkspaceInv, WorkspaceSound
  <2>2. /\ r \notin Entering /\ r \notin Leaving /\ r \notin Twice
        /\ r \notin Nobody /\ r \notin Entering' /\ r \notin Leaving'
        /\ r \notin Twice' /\ r \notin Nobody'
    BY <1>1, <1>4, <1>6 DEF Entering, Leaving, Twice, Nobody, Calls
  <2>3. \A u \in WorkspaceUsers : Active(u)' <=> Active(u)
    BY <1>1 DEF Active
  <2>4. QED
    BY <1>2, <1>7, <2>1, <2>2, <2>3, CountFrame
<1>13. WorkspaceCopyFresh'
  <2>1. r \in Calls(wsCall[r].op, {"bust", "cut"})'
    BY <1>4, <1>6 DEF Calls
  <2>2. \/ Calls("update", {"bust", "cut"})' # {}
        \/ Calls("delete", {"bust", "cut"})' # {}
    BY <1>1, <1>4, <1>6 DEF Calls
  <2>3. QED
    BY <2>2 DEF WorkspaceCopyFresh
<1>14. workspaceCache' # Uncached =>
         /\ workspaceCache'.by \in WorkspaceCalls
         /\ wsCall'[workspaceCache'.by].pc \notin Early
  BY <1>1, <1>4, <1>6, <1>7 DEF WorkspaceInv, Early
<1>15. QED
  BY <1>2, <1>9, <1>10, <1>11, <1>12, <1>13, <1>14, CountNext
     DEF WorkspaceInv, WorkspaceSound, Early

(* The steps of createWorkspace: the third makes the owner a member.       *)
LEMMA Creation ==
    ASSUME WorkspaceInv, CreateWorkspace
    PROVE  WorkspaceInv'
<1>1. /\ WorkspaceTypeOK /\ workspace.step < 5
      /\ workspace' = [workspace EXCEPT !.step = workspace.step + 1]
      /\ UNCHANGED <<workspaceCache, wsCall>>
  BY DEF WorkspaceInv, CreateWorkspace, CreationSteps
<1>2. /\ workspace' \in [name : WorkspaceNames, isActive : BOOLEAN,
                         memberCount : Int, step : 1 .. 5]
      /\ workspace'.memberCount = workspace.memberCount
      /\ workspace'.step = workspace.step + 1 /\ workspace.step \in 1 .. 4
      /\ workspace'.name = workspace.name
      /\ workspace'.isActive = workspace.isActive
  BY <1>1 DEF WorkspaceTypeOK
<1>3. PICK owner : owner = [state |-> "active", role |-> "owner"]
  OBVIOUS
<1>4. memberOf' = IF workspace.step = 2
                  THEN [memberOf EXCEPT ![WorkspaceOwner] = owner]
                  ELSE memberOf
  <2>1. \A n \in 1 .. 4 : CreationSteps[n + 1] = "member" <=> n = 2
    BY DEF CreationSteps
  <2>2. QED
    BY <1>2, <1>3, <2>1 DEF CreateWorkspace
<1>5. owner \in MemberRecord /\ WorkspaceOwner \in WorkspaceUsers
  BY <1>3 DEF MemberRecord, Roles, WorkspaceUsers
<1>6. WorkspaceTypeOK'
  BY <1>1, <1>2, <1>4, <1>5 DEF WorkspaceTypeOK
<1>7. \A s \in WorkspaceCalls : WsCallSound(wsCall[s])'
  BY <1>1, <1>2 DEF WorkspaceInv, WsCallSound, Copy
<1>8. /\ WorkspaceCopyFresh'
      /\ workspaceCache' # Uncached =>
           /\ workspaceCache'.by \in WorkspaceCalls
           /\ wsCall'[workspaceCache'.by].pc \notin Early
  <2>1. WorkspaceCopyFresh
    BY DEF WorkspaceInv, WorkspaceSound
  <2>2. QED
    BY <1>1, <1>2, <2>1 DEF WorkspaceInv, WorkspaceCopyFresh, Calls, Early
<1>9. CASE workspace.step = 1
  <2>1. /\ workspace'.step = 2 /\ workspace'.memberCount = 1
        /\ \A u \in WorkspaceUsers : Active(u)' <=> Active(u)
        /\ workspace.step <= 2
    BY <1>2, <1>4, <1>9 DEF Active, WorkspaceInv
  <2>2. \A u \in WorkspaceUsers : ~Active(u)'
    BY <2>1 DEF WorkspaceInv
  <2>3. \A r \in WorkspaceCalls : wsCall'[r].pc = "idle"
    BY <1>1, <2>1 DEF WorkspaceInv
  <2>4. MemberCountExact'
    BY <2>1 DEF MemberCountExact
  <2>5. QED
    BY <1>6, <1>7, <1>8, <2>1, <2>2, <2>3, <2>4
       DEF WorkspaceInv, WorkspaceSound, Early
<1>10. CASE workspace.step = 2
  <2>1. /\ workspace'.memberCount = 1 /\ workspace'.step = 3
        /\ \A u \in WorkspaceUsers : ~Active(u)
        /\ \A r \in WorkspaceCalls : wsCall[r].pc = "idle"
    BY <1>2, <1>10 DEF WorkspaceInv
  <2>2. Entering' = {} /\ Leaving' = {} /\ Twice' = {} /\ Nobody' = {}
    BY <1>1, <2>1 DEF Entering, Leaving, Twice, Nobody, Calls
  <2>3. /\ memberOf'[WorkspaceOwner] = owner
        /\ \A u \in WorkspaceUsers \ {WorkspaceOwner} : memberOf'[u] = memberOf[u]
    BY <1>1, <1>4, <1>5, <1>10 DEF WorkspaceTypeOK
  <2>4. \A u \in WorkspaceUsers : Active(u)' <=> u = WorkspaceOwner
    BY <1>3, <2>1, <2>3 DEF Active
  <2>5. Members' = {WorkspaceOwner}
    BY <1>5, <2>4 DEF Members
  <2>6. Cardinality(Members') = 1
    BY <2>5, FS_Singleton
  <2>7. CountMatches'
    BY <2>1, <2>2, <2>6, FS_EmptySet DEF CountMatches
  <2>8. QED
    BY <1>6, <1>7, <1>8, <2>1, <2>7, CountNext
       DEF WorkspaceInv, WorkspaceSound, Early
<1>11. CASE workspace.step > 2
  <2>1. UNCHANGED memberOf /\ workspace'.step > 2
    BY <1>2, <1>4, <1>11
  <2>2. CountMatches
    BY <1>11, CountDef DEF WorkspaceInv, WorkspaceSound
  <2>3. CountMatches'
    BY <1>1, <1>2, <2>1, <2>2
       DEF CountMatches, Members, Active, Entering, Leaving, Twice, Nobody, Calls
  <2>4. QED
    BY <1>2, <1>6, <1>7, <1>8, <2>1, <2>3, CountNext
       DEF WorkspaceInv, WorkspaceSound, Early
<1>12. QED
  BY <1>2, <1>9, <1>10, <1>11

LEMMA WorkspaceLast ==
    ASSUME WorkspaceInv, ExpireWorkspace \/ UNCHANGED workspaceVars
    PROVE  WorkspaceInv'
<1>1. UNCHANGED <<workspace, memberOf, wsCall>>
      /\ (workspaceCache' = Uncached \/ UNCHANGED workspaceCache)
  BY DEF ExpireWorkspace, workspaceVars
<1>2. WorkspaceTypeOK'
  BY <1>1 DEF WorkspaceInv, WorkspaceTypeOK
<1>3. MemberCountExact'
  BY <1>1 DEF WorkspaceInv, WorkspaceSound, MemberCountExact, Uncounted,
              BroughtBackTwice, RemovedNobody, Calls, Active
<1>4. WorkspaceCopyFresh'
  BY <1>1 DEF WorkspaceInv, WorkspaceSound, WorkspaceCopyFresh, Calls
<1>5. /\ \A r \in WorkspaceCalls : WsCallSound(wsCall[r])'
      /\ workspace'.step <= 2 =>
            /\ workspace'.memberCount = 1
            /\ \A u \in WorkspaceUsers : ~Active(u)'
            /\ \A r \in WorkspaceCalls : wsCall'[r].pc = "idle"
  BY <1>1 DEF WorkspaceInv, WsCallSound, Copy, Active
<1>6. workspaceCache' # Uncached =>
        /\ workspaceCache'.by \in WorkspaceCalls
        /\ wsCall'[workspaceCache'.by].pc \notin {"idle", "get", "read", "fill"}
  BY <1>1 DEF WorkspaceInv
<1>7. QED
  BY <1>2, <1>3, <1>4, <1>5, <1>6 DEF WorkspaceInv, WorkspaceSound

(* The count of a workspace's members is out by the calls between their    *)
(* two writes or cut there, by invitations at once of a former member and  *)
(* by removals of nobody, and by nothing else, and the copy in Redis is    *)
(* current but for writers that have not cleared it and readers overtaken, *)
(* whatever the number of users and of requests and the names.             *)
THEOREM WorkspaceIsSound == WorkspacesSpec => []WorkspaceSound
<1>1. WorkspacesInit => WorkspaceInv
  BY WorkspaceInitial
<1>2. WorkspaceInv /\ [WorkspacesNext]_workspaceVars => WorkspaceInv'
  <2>1. SUFFICES ASSUME WorkspaceInv, [WorkspacesNext]_workspaceVars
                 PROVE  WorkspaceInv'
    OBVIOUS
  <2>2. CASE CreateWorkspace
    BY <2>1, <2>2, Creation
  <2>3. CASE ExpireWorkspace \/ UNCHANGED workspaceVars
    BY <2>1, <2>3, WorkspaceLast
  <2>4. ASSUME NEW r \in WorkspaceCalls, BeginCall(r) \/ WorkspaceStep(r)
        PROVE  WorkspaceInv'
    <3>1. CASE FillCache(r) \/ Bust(r)
      BY <2>1, <3>1, CopyWrite
    <3>2. CASE WriteWorkspace(r)
      BY <2>1, <3>2, DocumentWrite
    <3>3. CASE WriteInvitation(r) \/ RemoveMember(r)
      BY <2>1, <3>3, MemberWrite
    <3>4. CASE CountMember(r) \/ CutCall(r)
      BY <2>1, <3>4, CountOrCut
    <3>5. CASE BeginCall(r) \/ CacheHit(r) \/ CacheMiss(r) \/ ReadWorkspace(r)
                 \/ FindMember(r) \/ ChangeRole(r)
      BY <2>1, <3>5, QuietCall
    <3>6. QED
      BY <2>4, <3>1, <3>2, <3>3, <3>4, <3>5 DEF WorkspaceStep
  <2>5. QED
    BY <2>1, <2>2, <2>3, <2>4 DEF WorkspacesNext
<1>3. WorkspaceInv => WorkspaceSound
  BY DEF WorkspaceInv
<1>4. QED
  BY <1>1, <1>2, <1>3, PTL DEF WorkspacesSpec

-----------------------------------------------------------------------------
(* Agents: the conversation histories and the assessments.                 *)

(* A record of a history; a call of investigateTransaction.                *)
AgentMessage == [role : {"system", "user", "assistant"}, turn : Turns]

AssessmentRecord ==
    [fraud : {"asked", "unavailable", "answered"},
     anomaly : {"asked", "unavailable", "answered"},
     pc : {"agents", "done"}, verdict : Verdicts \cup {NoVerdict},
     approvals : SUBSET {"fraud", "supervisor"}]

AgentsTypeOK ==
    /\ session \in Conversations \cup {0}
    /\ history \in [Conversations -> Seq(AgentMessage)]
    /\ turn \in [Turns -> [pc : {"idle", "asked", "done"},
                           g : Conversations \cup {0}]]
    /\ widest \in [Conversations -> Nat]
    /\ assessment \in AssessmentRecord

(* Every answer that is still to come has room in the bound, and the       *)
(* question of a turn that is alone is the last of the history.            *)
HistoryInv(g) ==
    /\ IsFiniteSet(Asked(g))
    /\ Cardinality(Asked(g)) <= widest[g]
    /\ history[g] = <<>> => Asked(g) = {} /\ session # g
    /\ history[g] # <<>> =>
         /\ Len(history[g]) + Cardinality(Asked(g)) <= HistoryLimit + widest[g]
         /\ history[g][1].role = "system"
         /\ widest[g] <= 1 =>
              /\ \A t \in Asked(g) :
                    /\ Len(history[g]) >= 2
                    /\ history[g][Len(history[g])] = Message("user", t)
              /\ \A i \in 3 .. Len(history[g]) :
                    history[g][i].role = "assistant" =>
                        history[g][i - 1] = Message("user", history[g][i].turn)

AgentsInv ==
    /\ AgentsTypeOK
    /\ \A g \in Conversations : HistoryInv(g)

LEMMA AgentsInitial == AgentsInit => AgentsInv /\ NoSilentApproval
<1> SUFFICES ASSUME AgentsInit
             PROVE  AgentsInv /\ NoSilentApproval
  OBVIOUS
<1>1. AgentsTypeOK
  BY DEF AgentsInit, AgentsTypeOK, AssessmentRecord
<1>2. \A g \in Conversations : Asked(g) = {}
  BY DEF AgentsInit, Asked
<1>3. \A g \in Conversations : HistoryInv(g)
  <2>1. TAKE g \in Conversations
  <2>2. history[g] = <<>> /\ widest[g] = 0 /\ session # g
    BY AgentAssumption DEF AgentsInit
  <2>3. IsFiniteSet(Asked(g)) /\ Cardinality(Asked(g)) = 0
    BY <1>2, FS_EmptySet
  <2>4. QED
    BY <1>2, <2>2, <2>3 DEF HistoryInv
<1>4. NoSilentApproval
  BY AgentAssumption DEF AgentsInit, NoSilentApproval
<1>5. QED
  BY <1>1, <1>3, <1>4 DEF AgentsInv

(* What the trimming leaves.                                               *)
LEMMA Trimmed ==
    ASSUME NEW h \in Seq(AgentMessage), Len(h) >= 1
    PROVE  /\ Trim(h) \in Seq(AgentMessage)
           /\ Trim(h) # <<>> /\ Trim(h)[1] = h[1]
           /\ Len(h) <= HistoryLimit => Trim(h) = h
           /\ Len(h) > HistoryLimit =>
                /\ Len(Trim(h)) = Len(h) - 2
                /\ Len(h) >= 4
                /\ \A i \in 2 .. Len(Trim(h)) : Trim(h)[i] = h[i + 2]
<1>1. CASE Len(h) <= HistoryLimit
  BY <1>1, AgentAssumption DEF Trim
<1>2. CASE Len(h) > HistoryLimit
  <2>1. Len(h) >= 4 /\ Len(h) \in Nat /\ h[1] \in AgentMessage
    BY <1>2, AgentAssumption
  <2>2. PICK k : k = SubSeq(h, 4, Len(h))
    OBVIOUS
  <2>3. /\ k \in Seq(AgentMessage) /\ Len(k) = Len(h) - 3
        /\ \A i \in 1 .. Len(k) : k[i] = h[i + 3]
    BY <2>1, <2>2
  <2>4. Trim(h) = <<h[1]>> \o k
    BY <1>2, <2>2 DEF Trim
  <2>5. /\ Trim(h) \in Seq(AgentMessage) /\ Len(Trim(h)) = 1 + Len(k)
        /\ Trim(h)[1] = h[1]
        /\ \A i \in 2 .. Len(Trim(h)) : Trim(h)[i] = k[i - 1]
    BY <2>1, <2>3, <2>4
  <2>6. \A i \in 2 .. Len(Trim(h)) : Trim(h)[i] = h[i + 2]
    <3>1. TAKE i \in 2 .. Len(Trim(h))
    <3>2. i - 1 \in 1 .. Len(k) /\ (i - 1) + 3 = i + 2
      BY <2>3, <2>5
    <3>3. QED
      BY <2>3, <2>5, <3>2
  <2>7. Trim(h) # <<>> /\ Len(Trim(h)) = Len(h) - 2
    BY <2>1, <2>3, <2>5
  <2>8. QED
    BY <1>2, <2>1, <2>5, <2>6, <2>7, AgentAssumption
<1>3. QED
  BY <1>1, <1>2, AgentAssumption

LEMMA InvestigateKeeps ==
    ASSUME AgentsInv, NEW t \in Turns, Investigate(t)
    PROVE  AgentsInv'
<1>1. PICK g \in Conversations :
         /\ IF session = 0
            THEN history[g] = <<>> /\ \A f \in Conversations : f < g => history[f] # <<>>
            ELSE g = session
         /\ LET h == IF session = 0 THEN <<Message("system", t)>> ELSE history[g] IN
            history' = [history EXCEPT ![g] = Trim(Append(h, Message("user", t)))]
         /\ session' = g
         /\ turn' = [turn EXCEPT ![t] = [pc |-> "asked", g |-> g]]
         /\ widest' = [widest EXCEPT ![g] =
                         IF @ > Cardinality(Asked(g)) THEN @
                         ELSE Cardinality(Asked(g)) + 1]
  BY DEF Investigate
<1>2. PICK h : h = IF session = 0 THEN <<Message("system", t)>> ELSE history[g]
  OBVIOUS
<1>3. AgentsTypeOK /\ HistoryInv(g) /\ turn[t].pc = "idle" /\ g # 0
  BY AgentAssumption DEF AgentsInv, Investigate
<1>4. Message("system", t) \in AgentMessage /\ Message("user", t) \in AgentMessage
  BY DEF Message, AgentMessage
<1>5. /\ h \in Seq(AgentMessage) /\ Len(h) >= 1 /\ h # <<>>
      /\ h[1].role = "system"
  <2>1. CASE session = 0
    BY <1>2, <1>4, <2>1 DEF Message
  <2>2. CASE session # 0
    <3>1. h = history[g] /\ h \in Seq(AgentMessage) /\ h # <<>>
      BY <1>1, <1>2, <1>3, <2>2 DEF AgentsTypeOK, HistoryInv
    <3>2. QED
      BY <1>3, <3>1 DEF HistoryInv
  <2>3. QED
    BY <2>1, <2>2
<1>6. PICK k : k = Append(h, Message("user", t))
  OBVIOUS
<1>7. /\ k \in Seq(AgentMessage) /\ Len(k) = Len(h) + 1
      /\ k[1] = h[1] /\ k[Len(k)] = Message("user", t)
      /\ \A i \in 1 .. Len(h) : k[i] = h[i]
  BY <1>4, <1>5, <1>6
<1>8. PICK l : l = Trim(k)
  OBVIOUS
<1>9. /\ l \in Seq(AgentMessage) /\ l # <<>> /\ l[1] = h[1]
      /\ Len(k) <= HistoryLimit => l = k
      /\ Len(k) > HistoryLimit =>
            /\ Len(l) = Len(k) - 2 /\ Len(k) >= 4
            /\ \A i \in 2 .. Len(l) : l[i] = k[i + 2]
  BY <1>5, <1>7, <1>8, Trimmed
<1>10. history' = [history EXCEPT ![g] = l]
  BY <1>1, <1>2, <1>6, <1>8
<1>11. PICK n : n = Cardinality(Asked(g))
  OBVIOUS
<1>12. n \in Nat /\ n <= widest[g] /\ widest[g] \in Nat
  BY <1>3, <1>11, FS_CardinalityType DEF HistoryInv, AgentsTypeOK
<1>13. PICK w : w = IF widest[g] > n THEN widest[g] ELSE n + 1
  OBVIOUS
<1>14. w \in Nat /\ w >= n + 1 /\ w >= widest[g]
  BY <1>12, <1>13
<1>15. widest' = [widest EXCEPT ![g] = w]
  BY <1>1, <1>3, <1>11, <1>13 DEF AgentsTypeOK
<1>16. AgentsTypeOK'
  BY <1>1, <1>3, <1>9, <1>10, <1>14, <1>15 DEF AgentsTypeOK, Investigate
<1>17. Asked(g)' = Asked(g) \cup {t} /\ t \notin Asked(g)
  BY <1>1, <1>3 DEF Asked, AgentsTypeOK
<1>18. \A f \in Conversations \ {g} : Asked(f)' = Asked(f)
  BY <1>1, <1>3 DEF Asked, AgentsTypeOK
<1>19. IsFiniteSet(Asked(g)') /\ Cardinality(Asked(g)') = n + 1
  BY <1>3, <1>11, <1>17, FS_AddElement DEF HistoryInv
<1>20. history'[g] = l /\ widest'[g] = w
  BY <1>3, <1>10, <1>15 DEF AgentsTypeOK
<1>21. Len(l) + (n + 1) <= HistoryLimit + w
  <2>1. CASE Len(k) <= HistoryLimit
    BY <1>7, <1>9, <1>12, <1>14, <2>1, AgentAssumption
  <2>2. CASE Len(k) > HistoryLimit
    <3>1. h = history[g]
      BY <1>2, <1>7, <2>2, AgentAssumption
    <3>2. Len(h) + n <= HistoryLimit + widest[g]
      BY <1>3, <1>5, <1>11, <3>1 DEF HistoryInv
    <3>3. Len(l) = Len(h) - 1 /\ Len(h) \in Nat
      BY <1>5, <1>7, <1>9, <2>2
    <3>4. QED
      BY <1>12, <1>14, <3>2, <3>3, AgentAssumption
  <2>3. QED
    BY <1>7, <2>1, <2>2, AgentAssumption
<1>22. Len(l) >= 2 /\ l[Len(l)] = Message("user", t)
  <2>1. CASE Len(k) <= HistoryLimit
    BY <1>5, <1>7, <1>9, <2>1
  <2>2. CASE Len(k) > HistoryLimit
    <3>1. Len(l) \in 2 .. Len(l) /\ Len(l) + 2 = Len(k)
      BY <1>7, <1>9, <2>2
    <3>2. QED
      BY <1>7, <1>9, <2>2, <3>1
  <2>3. QED
    BY <1>7, <2>1, <2>2, AgentAssumption
<1>23. ASSUME w <= 1
       PROVE  /\ Asked(g)' = {t}
              /\ \A i \in 3 .. Len(l) : l[i].role = "assistant" =>
                     l[i - 1] = Message("user", l[i].turn)
  <2>1. Asked(g)' = {t}
    <3>1. n = 0
      BY <1>12, <1>14, <1>23
    <3>2. Asked(g) = {}
      BY <1>3, <1>11, <3>1, FS_EmptySet DEF HistoryInv
    <3>3. QED
      BY <1>17, <3>2
  <2>2. \A i \in 3 .. Len(h) : h[i].role = "assistant" =>
            h[i - 1] = Message("user", h[i].turn)
    <3>1. CASE session = 0
      BY <1>2, <3>1
    <3>2. CASE session # 0
      <4>1. h = history[g] /\ widest[g] <= 1
        BY <1>2, <1>12, <1>14, <1>23, <3>2
      <4>2. QED
        BY <1>3, <1>5, <4>1 DEF HistoryInv
    <3>3. QED
      BY <3>1, <3>2
  <2>3. \A i \in 3 .. Len(k) : k[i].role = "assistant" =>
            k[i - 1] = Message("user", k[i].turn)
    <3>1. TAKE i \in 3 .. Len(k)
    <3>2. CASE i = Len(k)
      BY <1>7, <3>2 DEF Message
    <3>3. CASE i # Len(k)
      <4>1. i \in 3 .. Len(h) /\ i - 1 \in 1 .. Len(h) /\ i \in 1 .. Len(h)
        BY <1>5, <1>7, <3>3
      <4>2. QED
        BY <1>7, <2>2, <4>1
    <3>4. QED
      BY <3>2, <3>3
  <2>4. \A i \in 3 .. Len(l) : l[i].role = "assistant" =>
            l[i - 1] = Message("user", l[i].turn)
    <3>1. CASE Len(k) <= HistoryLimit
      BY <1>9, <2>3, <3>1
    <3>2. CASE Len(k) > HistoryLimit
      <4>1. TAKE i \in 3 .. Len(l)
      <4>2. /\ i \in 2 .. Len(l) /\ i - 1 \in 2 .. Len(l)
            /\ i + 2 \in 3 .. Len(k) /\ (i - 1) + 2 = (i + 2) - 1
        BY <1>7, <1>9, <3>2
      <4>3. l[i] = k[i + 2] /\ l[i - 1] = k[(i + 2) - 1]
        BY <1>9, <3>2, <4>2
      <4>4. QED
        BY <2>3, <4>2, <4>3
    <3>3. QED
      BY <1>7, <3>1, <3>2, AgentAssumption
  <2>5. QED
    BY <2>1, <2>4
<1>24. HistoryInv(g)'
  BY <1>5, <1>9, <1>14, <1>19, <1>20, <1>21, <1>22, <1>23 DEF HistoryInv
<1>25. ASSUME NEW f \in Conversations \ {g}
       PROVE  HistoryInv(f)'
  <2>1. HistoryInv(f) /\ history'[f] = history[f] /\ widest'[f] = widest[f]
    BY <1>3, <1>10, <1>15 DEF AgentsInv, AgentsTypeOK
  <2>2. Asked(f)' = Asked(f) /\ session' # f
    BY <1>1, <1>18
  <2>3. QED
    BY <2>1, <2>2 DEF HistoryInv
<1>26. QED
  BY <1>16, <1>24, <1>25 DEF AgentsInv

LEMMA AnsweredKeeps ==
    ASSUME AgentsInv, NEW t \in Turns, InvestigationAnswered(t)
    PROVE  AgentsInv'
<1>1. PICK g : g = turn[t].g
  OBVIOUS
<1>2. /\ turn[t].pc = "asked" /\ UNCHANGED <<session, widest>>
      /\ \/ history' = [history EXCEPT ![g] =
                          Append(history[g], Message("assistant", t))]
         \/ UNCHANGED history
      /\ turn' = [turn EXCEPT ![t].pc = "done"]
      /\ UNCHANGED assessment
  BY <1>1 DEF InvestigationAnswered
<1>3. AgentsTypeOK /\ g \in Conversations \cup {0} /\ turn[t].g = g
  BY <1>1 DEF AgentsInv, AgentsTypeOK
<1>4. turn'[t].pc = "done" /\ \A s \in Turns \ {t} : turn'[s] = turn[s]
  BY <1>2, <1>3 DEF AgentsTypeOK
<1>5. Message("assistant", t) \in AgentMessage
  BY DEF Message, AgentMessage
<1>6. AgentsTypeOK'
  <2>1. history' \in [Conversations -> Seq(AgentMessage)]
    <3>1. CASE UNCHANGED history
      BY <1>3, <3>1 DEF AgentsTypeOK
    <3>2. CASE g \in Conversations
               /\ history' = [history EXCEPT ![g] =
                              Append(history[g], Message("assistant", t))]
      <4>1. Append(history[g], Message("assistant", t)) \in Seq(AgentMessage)
        BY <1>3, <1>5, <3>2 DEF AgentsTypeOK
      <4>2. QED
        BY <1>3, <3>2, <4>1 DEF AgentsTypeOK
    <3>3. CASE g \notin Conversations
               /\ history' = [history EXCEPT ![g] =
                              Append(history[g], Message("assistant", t))]
      BY <1>3, <3>3 DEF AgentsTypeOK
    <3>4. QED
      BY <1>2, <3>1, <3>2, <3>3
  <2>2. turn' \in [Turns -> [pc : {"idle", "asked", "done"},
                            g : Conversations \cup {0}]]
    BY <1>2, <1>3 DEF AgentsTypeOK
  <2>3. QED
    BY <1>2, <1>3, <2>1, <2>2 DEF AgentsTypeOK
<1>7. ASSUME NEW f \in Conversations, f # g
      PROVE  HistoryInv(f)'
  <2>1. Asked(f)' = Asked(f)
    <3>1. \A s \in Turns : s \in Asked(f)' <=> s \in Asked(f)
      BY <1>3, <1>4, <1>7 DEF Asked
    <3>2. QED
      BY <3>1 DEF Asked
  <2>2. HistoryInv(f) /\ history'[f] = history[f] /\ widest'[f] = widest[f]
    BY <1>2, <1>3, <1>7 DEF AgentsInv, AgentsTypeOK
  <2>3. QED
    BY <1>2, <2>1, <2>2 DEF HistoryInv
<1>8. ASSUME g \in Conversations
      PROVE  HistoryInv(g)'
  <2>1. Asked(g)' = Asked(g) \ {t} /\ t \in Asked(g)
    BY <1>2, <1>3, <1>4 DEF Asked
  <2>2. HistoryInv(g) /\ widest'[g] = widest[g] /\ widest[g] \in Nat
    BY <1>2, <1>3, <1>8 DEF AgentsInv, AgentsTypeOK
  <2>3. PICK n : n = Cardinality(Asked(g))
    OBVIOUS
  <2>4. /\ IsFiniteSet(Asked(g)') /\ Cardinality(Asked(g)') = n - 1
        /\ n \in Nat /\ n <= widest[g]
    BY <2>1, <2>2, <2>3, FS_RemoveElement, FS_CardinalityType DEF HistoryInv
  <2>5. PICK h : h = history[g]
    OBVIOUS
  <2>6. /\ h \in Seq(AgentMessage) /\ h # <<>> /\ Len(h) \in Nat
        /\ Len(h) + n <= HistoryLimit + widest[g]
        /\ h[1].role = "system"
    BY <1>3, <1>8, <2>1, <2>2, <2>3, <2>5 DEF HistoryInv, AgentsTypeOK
  <2>7. ASSUME widest[g] <= 1
        PROVE  Asked(g)' = {}
    <3>1. Cardinality(Asked(g)') = 0
      BY <2>2, <2>4, <2>7, FS_CardinalityType
    <3>2. QED
      BY <2>4, <3>1, FS_EmptySet
  <2>8. CASE UNCHANGED history
    BY <1>2, <2>2, <2>4, <2>5, <2>6, <2>7, <2>8, AgentAssumption DEF HistoryInv
  <2>9. CASE history' = [history EXCEPT ![g] =
                           Append(history[g], Message("assistant", t))]
    <3>1. PICK k : k = Append(h, Message("assistant", t))
      OBVIOUS
    <3>2. history'[g] = k
      BY <1>3, <1>8, <2>5, <2>9, <3>1 DEF AgentsTypeOK
    <3>3. /\ k # <<>> /\ Len(k) = Len(h) + 1 /\ k[1] = h[1]
          /\ k[Len(k)] = Message("assistant", t)
          /\ \A i \in 1 .. Len(h) : k[i] = h[i]
      BY <1>5, <2>6, <3>1
    <3>4. ASSUME widest[g] <= 1
          PROVE  \A i \in 3 .. Len(k) : k[i].role = "assistant" =>
                     k[i - 1] = Message("user", k[i].turn)
      <4>1. TAKE i \in 3 .. Len(k)
      <4>2. /\ h[Len(h)] = Message("user", t)
            /\ \A j \in 3 .. Len(h) : h[j].role = "assistant" =>
                  h[j - 1] = Message("user", h[j].turn)
        BY <2>1, <2>2, <2>5, <2>6, <3>4 DEF HistoryInv
      <4>3. CASE i = Len(k)
        <5>1. i - 1 = Len(h) /\ i - 1 \in 1 .. Len(h)
          BY <2>6, <3>3, <4>3
        <5>2. k[i - 1] = Message("user", t) /\ k[i].turn = t
          BY <3>3, <4>2, <4>3, <5>1 DEF Message
        <5>3. QED
          BY <5>2
      <4>4. CASE i # Len(k)
        <5>1. i \in 3 .. Len(h) /\ i - 1 \in 1 .. Len(h) /\ i \in 1 .. Len(h)
          BY <2>6, <3>3, <4>4
        <5>2. QED
          BY <3>3, <4>2, <5>1
      <4>5. QED
        BY <4>3, <4>4
    <3>5. Len(k) + (n - 1) <= HistoryLimit + widest[g]
      BY <2>2, <2>4, <2>6, <3>3, AgentAssumption
    <3>6. QED
      BY <2>2, <2>4, <2>6, <2>7, <3>2, <3>3, <3>4, <3>5 DEF HistoryInv
  <2>10. QED
    BY <1>2, <2>8, <2>9
<1>9. QED
  BY <1>6, <1>7, <1>8 DEF AgentsInv

(* What the histories do not notice.                                       *)
LEMMA HistoryFrame ==
    ASSUME NEW g \in Conversations, HistoryInv(g),
           UNCHANGED <<history, turn, widest>>, session' = session \/ session' = 0
    PROVE  HistoryInv(g)'
<1>1. Asked(g)' = Asked(g)
  BY DEF Asked
<1>2. session' # g \/ session' = session
  BY AgentAssumption
<1>3. QED
  BY <1>1, <1>2 DEF HistoryInv

LEMMA AssessmentStep ==
    ASSUME AgentsInv, NoSilentApproval, AssessmentNext
    PROVE  AgentsInv' /\ NoSilentApproval'
<1>1. UNCHANGED <<session, history, turn, widest>>
  BY DEF AssessmentNext, ScoreFraudRisk, DetectAnomaly, Supervise
<1>2. \A g \in Conversations : HistoryInv(g)'
  BY <1>1, HistoryFrame DEF AgentsInv
<1>3. PICK a \in AssessmentRecord : a = assessment
  BY DEF AgentsInv, AgentsTypeOK
<1>4. a.verdict = "approve" => a.approvals # {}
  BY <1>3 DEF NoSilentApproval
<1>5. PICK b \in AssessmentRecord :
        /\ assessment' = b
        /\ b.verdict = "approve" => b.approvals # {}
  <2>1. CASE ScoreFraudRisk
    <3>1. CASE assessment' = [a EXCEPT !.fraud = "unavailable",
                                       !.verdict = "review"]
      <4>1. PICK b : b = [a EXCEPT !.fraud = "unavailable", !.verdict = "review"]
        OBVIOUS
      <4>2. b \in AssessmentRecord /\ b.verdict = "review"
        BY <1>3, <4>1, AgentAssumption DEF AssessmentRecord
      <4>3. QED
        BY <3>1, <4>1, <4>2
    <3>2. ASSUME NEW v \in Verdicts,
                 assessment' =
                   [a EXCEPT !.fraud = "answered", !.verdict = v,
                             !.approvals = IF v = "approve"
                                           THEN a.approvals \cup {"fraud"}
                                           ELSE a.approvals]
          PROVE  \E b \in AssessmentRecord :
                    /\ assessment' = b
                    /\ b.verdict = "approve" => b.approvals # {}
      <4>1. PICK said : said = IF v = "approve" THEN a.approvals \cup {"fraud"}
                               ELSE a.approvals
        OBVIOUS
      <4>2. PICK b : b = [a EXCEPT !.fraud = "answered", !.verdict = v,
                                   !.approvals = said]
        OBVIOUS
      <4>3. a.approvals \in SUBSET {"fraud", "supervisor"}
        BY <1>3 DEF AssessmentRecord
      <4>4. /\ said \in SUBSET {"fraud", "supervisor"}
            /\ v = "approve" => said # {}
        BY <4>1, <4>3
      <4>5. b \in AssessmentRecord /\ b.verdict = v /\ b.approvals = said
        BY <1>3, <4>2, <4>4 DEF AssessmentRecord
      <4>6. QED
        BY <3>2, <4>1, <4>2, <4>4, <4>5
    <3>3. QED
      BY <1>3, <2>1, <3>1, <3>2 DEF ScoreFraudRisk
  <2>2. CASE DetectAnomaly
    <3>1. PICK how \in {"unavailable", "answered"} :
            assessment' = [a EXCEPT !.anomaly = how]
      BY <1>3, <2>2 DEF DetectAnomaly
    <3>2. PICK b : b = [a EXCEPT !.anomaly = how]
      OBVIOUS
    <3>3. /\ b \in AssessmentRecord /\ b.verdict = a.verdict
          /\ b.approvals = a.approvals
      BY <1>3, <3>2 DEF AssessmentRecord
    <3>4. QED
      BY <1>4, <3>1, <3>2, <3>3
  <2>3. CASE Supervise
    <3>1. CASE assessment' = [a EXCEPT !.pc = "done"]
      BY <1>3, <1>4, <3>1 DEF AssessmentRecord
    <3>2. ASSUME NEW v \in Verdicts,
                 assessment' =
                   [a EXCEPT !.pc = "done", !.verdict = v,
                             !.approvals = IF v = "approve"
                                           THEN a.approvals \cup {"supervisor"}
                                           ELSE a.approvals]
          PROVE  \E b \in AssessmentRecord :
                    /\ assessment' = b
                    /\ b.verdict = "approve" => b.approvals # {}
      <4>1. PICK said : said = IF v = "approve" THEN a.approvals \cup {"supervisor"}
                               ELSE a.approvals
        OBVIOUS
      <4>2. PICK b : b = [a EXCEPT !.pc = "done", !.verdict = v,
                                   !.approvals = said]
        OBVIOUS
      <4>3. a.approvals \in SUBSET {"fraud", "supervisor"}
        BY <1>3 DEF AssessmentRecord
      <4>4. /\ said \in SUBSET {"fraud", "supervisor"}
            /\ v = "approve" => said # {}
        BY <4>1, <4>3
      <4>5. b \in AssessmentRecord /\ b.verdict = v /\ b.approvals = said
        BY <1>3, <4>2, <4>4 DEF AssessmentRecord
      <4>6. QED
        BY <3>2, <4>1, <4>2, <4>4, <4>5
    <3>3. QED
      BY <1>3, <2>3, <3>1, <3>2 DEF Supervise
  <2>4. QED
    BY <2>1, <2>2, <2>3 DEF AssessmentNext
<1>6. QED
  BY <1>1, <1>2, <1>5 DEF AgentsInv, AgentsTypeOK, NoSilentApproval

LEMMA AgentsStep ==
    ASSUME AgentsInv, NoSilentApproval, [AgentsNext]_agentVars
    PROVE  AgentsInv' /\ NoSilentApproval'
<1>1. CASE AssessmentNext
  BY <1>1, AssessmentStep
<1>2. CASE ClearSession \/ UNCHANGED agentVars
  <2>1. /\ UNCHANGED <<history, turn, widest, assessment>>
        /\ session' = session \/ session' = 0
    BY <1>2 DEF ClearSession, agentVars
  <2>2. \A g \in Conversations : HistoryInv(g)'
    BY <2>1, HistoryFrame DEF AgentsInv
  <2>3. QED
    BY <2>1, <2>2 DEF AgentsInv, AgentsTypeOK, NoSilentApproval
<1>3. ASSUME NEW t \in Turns, Investigate(t) \/ InvestigationAnswered(t)
      PROVE  AgentsInv' /\ NoSilentApproval'
  <2>1. AgentsInv'
    BY <1>3, InvestigateKeeps, AnsweredKeeps
  <2>2. UNCHANGED assessment
    BY <1>3 DEF Investigate, InvestigationAnswered
  <2>3. QED
    BY <2>1, <2>2 DEF NoSilentApproval
<1>4. QED
  BY <1>1, <1>2, <1>3 DEF AgentsNext, ConversationNext

(* A history is longer than HistoryLimit, which is 22, by no more than the *)
(* turns it had at once, whichever of them failed or outlived their session*)
(* (the 20 of groq.service.js:37 is no bound of it); an answer of a turn   *)
(* that was alone follows its question; and no verdict approves that no    *)
(* agent has given.                                                        *)
THEOREM AgentsAreSound == AgentsSpec => []AgentsSound
<1>1. AgentsInit => AgentsInv /\ NoSilentApproval
  BY AgentsInitial
<1>2. AgentsInv /\ NoSilentApproval /\ [AgentsNext]_agentVars
        => (AgentsInv /\ NoSilentApproval)'
  BY AgentsStep
<1>3. AgentsInv /\ NoSilentApproval => AgentsSound
  <2> SUFFICES ASSUME AgentsInv, NEW g \in Conversations, history[g] # <<>>
               PROVE  /\ Len(history[g]) <= HistoryLimit + widest[g]
                      /\ history[g][1].role = "system"
                      /\ widest[g] <= 1 =>
                           \A i \in 3 .. Len(history[g]) :
                             history[g][i].role = "assistant" =>
                               history[g][i - 1] = Message("user", history[g][i].turn)
    BY DEF AgentsSound, ConversationSound
  <2>3. HistoryInv(g) /\ widest[g] \in Nat /\ history[g] \in Seq(AgentMessage)
    BY DEF AgentsInv, AgentsTypeOK
  <2>4. Cardinality(Asked(g)) \in Nat /\ Len(history[g]) \in Nat
    BY <2>3, FS_CardinalityType DEF HistoryInv
  <2>5. QED
    BY <2>3, <2>4, AgentAssumption DEF HistoryInv
<1>4. QED
  BY <1>1, <1>2, <1>3, PTL DEF AgentsSpec

-----------------------------------------------------------------------------
(* Direct messages: one conversation of each pair, its counts.             *)

DmPc == {"idle", "create", "save", "message", "update", "notify", "failed",
         "unnotified", "cut", "done"}

DmRecord ==
    [op : {"none", "open", "send", "close"}, pc : DmPc,
     by : Participants \cup {IdleDmCall.by}, among : SUBSET Participants,
     id : Nat, closed : SUBSET Participants, version : Nat, read : Nat,
     late : BOOLEAN]

Conversation ==
    [participants : SUBSET Participants, closedBy : SUBSET Participants,
     version : Nat, messageCount : Nat, messages : Nat]

(* What a call holds of its conversation: the members it asked for, and of *)
(* closedBy what is there still if neither the version nor the count moved.*)
DmCallSound(c) ==
    /\ c.pc # "idle" => c.by \in Participants
    /\ c.pc = "create" => c.op = "open"
    /\ c.pc = "save" => c.op \in {"open", "close"}
    /\ c.pc \in {"message", "update", "notify"} => c.op = "send"
    /\ c.pc \notin {"idle", "create"} => c.id \in Ids
    /\ c.pc \in {"save", "done"} /\ c.op = "open" =>
         conversations[c.id].participants = c.among
    /\ c.pc = "save" =>
         /\ c.read <= conversations[c.id].messageCount
         /\ c.version <= conversations[c.id].version
         /\ c.read = conversations[c.id].messageCount
              /\ c.version = conversations[c.id].version
              => c.closed = conversations[c.id].closedBy

Theirs(among) == {j \in Ids : OfThem(j, among)}
LateOpens(among) ==
    {r \in DmDone("open") : dmCall[r].late /\ dmCall[r].among = among}

DmTypeOK ==
    /\ conversations \in Seq(Conversation)
    /\ dmCall \in [DmCalls -> DmRecord]

DmInv ==
    /\ DmTypeOK
    /\ \A r \in DmCalls : DmCallSound(dmCall[r])
    /\ \A among \in SUBSET Participants :
         Cardinality(Theirs(among)) <= 1 + Cardinality(LateOpens(among))
    /\ NothingHidden

LEMMA DmCounts ==
    ASSUME DmTypeOK, NEW among
    PROVE  /\ IsFiniteSet(Theirs(among)) /\ Cardinality(Theirs(among)) \in Nat
           /\ IsFiniteSet(LateOpens(among)) /\ Cardinality(LateOpens(among)) \in Nat
<1>1. Ids = 1 .. Len(conversations) /\ Len(conversations) \in Nat
  BY DEF DmTypeOK, Ids
<1>2. IsFiniteSet(Ids) /\ Theirs(among) \subseteq Ids
  BY <1>1, FS_Interval DEF Theirs
<1>3. IsFiniteSet(DmCalls) /\ LateOpens(among) \subseteq DmCalls
  BY DmAssumption DEF LateOpens, DmDone
<1>4. QED
  BY <1>2, <1>3, FS_Subset, FS_CardinalityType

LEMMA DmInitial == DmInit => DmInv
<1> SUFFICES ASSUME DmInit
             PROVE  DmInv
  OBVIOUS
<1>1. PICK among \in SUBSET Participants :
        conversations \in
          {<<>>, <<[NewConversation(among) EXCEPT !.closedBy = among]>>}
  BY DEF DmInit
<1>2. PICK v : v = [NewConversation(among) EXCEPT !.closedBy = among]
  OBVIOUS
<1>3. v \in Conversation /\ v.messageCount = 0 /\ v.participants = among
  BY <1>2 DEF NewConversation, Conversation
<1>4. /\ conversations \in Seq(Conversation) /\ Len(conversations) <= 1
      /\ \A id \in Ids : conversations[id].messageCount = 0
      /\ Ids \subseteq {1}
  <2>1. CASE conversations = <<>>
    BY <2>1 DEF Ids
  <2>2. CASE conversations = <<v>>
    BY <1>3, <2>2 DEF Ids
  <2>3. QED
    BY <1>1, <1>2, <2>1, <2>2
<1>5. IdleDmCall \in DmRecord /\ IdleDmCall.pc = "idle"
  <2>1. PICK u : u = CHOOSE w \in Participants : TRUE
    OBVIOUS
  <2>2. IdleDmCall = [op |-> "none", pc |-> "idle", by |-> u, among |-> {},
                      id |-> 0, closed |-> {}, version |-> 0, read |-> 0,
                      late |-> FALSE]
    BY <2>1 DEF IdleDmCall
  <2>3. QED
    BY <2>2 DEF DmRecord, DmPc
<1>6. DmTypeOK /\ \A r \in DmCalls : DmCallSound(dmCall[r])
  BY <1>4, <1>5 DEF DmInit, DmTypeOK, DmCallSound
<1>7. ASSUME NEW them \in SUBSET Participants
      PROVE  Cardinality(Theirs(them)) <= 1 + Cardinality(LateOpens(them))
  <2>1. Theirs(them) \subseteq {1}
    BY <1>4 DEF Theirs
  <2>2. Cardinality(Theirs(them)) <= 1
    <3>1. Cardinality({}) = 0
      BY FS_EmptySet
    <3>2. Cardinality({1}) = 1
      BY FS_Singleton
    <3>3. Theirs(them) = {} \/ Theirs(them) = {1}
      BY <2>1
    <3>4. QED
      BY <3>1, <3>2, <3>3
  <2>3. QED
    BY <1>6, <2>2, DmCounts
<1>8. QED
  BY <1>4, <1>6, <1>7 DEF DmInv, NothingHidden

(* Every step is one of these: a conversation is created, or those there   *)
(* are change as the version and the count say, and what is closed by the  *)
(* call that ends with it.                                                 *)
LEMMA DmKeeps ==
    ASSUME DmInv, NEW r \in DmCalls, NEW c \in DmRecord,
           dmCall' = [dmCall EXCEPT ![r] = c], dmCall[r].pc # "done",
           DmCallSound(c)',
           conversations' \in Seq(Conversation), Ids \subseteq Ids',
           \A id \in Ids :
             /\ conversations'[id].participants = conversations[id].participants
             /\ conversations'[id].version >= conversations[id].version
             /\ conversations'[id].messageCount >= conversations[id].messageCount
             /\ conversations'[id].version = conversations[id].version
                  /\ conversations'[id].messageCount = conversations[id].messageCount
                  => conversations'[id].closedBy = conversations[id].closedBy
             /\ \/ conversations'[id].closedBy = {}
                \/ c.pc = "done" /\ c.op \in {"open", "close"} /\ c.id = id
                   /\ c.late
                \/ /\ conversations'[id].messageCount = conversations[id].messageCount
                   /\ \A u \in conversations'[id].closedBy :
                        \/ u \in conversations[id].closedBy
                        \/ c.pc = "done" /\ c.op = "close" /\ c.id = id /\ c.by = u
                           /\ c.read = conversations'[id].messageCount,
           \A id \in Ids' \ Ids : conversations'[id].messageCount = 0,
           Ids' = Ids
             \/ \E k : /\ Ids' = Ids \cup {k} /\ k \notin Ids
                       /\ c.pc = "done" /\ c.op = "open"
                       /\ conversations'[k].participants = c.among
                       /\ (\E id \in Ids : OfThem(id, c.among)) => c.late
    PROVE  DmInv'
<1>1. /\ dmCall' \in [DmCalls -> DmRecord] /\ dmCall'[r] = c
      /\ \A s \in DmCalls \ {r} : dmCall'[s] = dmCall[s]
      /\ DmTypeOK /\ DmTypeOK'
  BY DEF DmInv, DmTypeOK
<1>2. \A id \in Ids : /\ conversations[id] \in Conversation
                      /\ conversations'[id] \in Conversation
  BY <1>1 DEF DmTypeOK, Ids
<1>3. \A s \in DmCalls : DmCallSound(dmCall[s])'
  <2>1. ASSUME NEW s \in DmCalls \ {r}
        PROVE  DmCallSound(dmCall[s])'
    <3>1. PICK d \in DmRecord : d = dmCall[s] /\ d = dmCall'[s]
      BY <1>1 DEF DmTypeOK
    <3>2. DmCallSound(d)
      BY <3>1 DEF DmInv
    <3>3. CASE d.id \in Ids
      <4>1. /\ conversations[d.id] \in Conversation
            /\ conversations'[d.id] \in Conversation
            /\ conversations'[d.id].participants = conversations[d.id].participants
            /\ conversations'[d.id].version >= conversations[d.id].version
            /\ conversations'[d.id].messageCount >= conversations[d.id].messageCount
            /\ conversations'[d.id].version = conversations[d.id].version
                 /\ conversations'[d.id].messageCount
                      = conversations[d.id].messageCount
                 => conversations'[d.id].closedBy = conversations[d.id].closedBy
        BY <1>2, <3>3
      <4>2. /\ d.read \in Nat /\ d.version \in Nat
            /\ conversations[d.id].version \in Nat
            /\ conversations[d.id].messageCount \in Nat
            /\ conversations'[d.id].version \in Nat
            /\ conversations'[d.id].messageCount \in Nat
        BY <3>1, <4>1 DEF Conversation, DmRecord
      <4>3. d.id \in Ids'
        BY <3>3
      <4>4. DmCallSound(d)'
        BY <3>2, <4>1, <4>2, <4>3 DEF DmCallSound
      <4>5. QED
        BY <3>1, <4>4 DEF DmCallSound
    <3>4. CASE d.id \notin Ids
      <4>1. d.pc \in {"idle", "create"}
        BY <3>2, <3>4 DEF DmCallSound
      <4>2. QED
        BY <3>1, <3>2, <4>1 DEF DmCallSound
    <3>5. QED
      BY <3>3, <3>4
  <2>2. DmCallSound(dmCall[r])'
    BY <1>1 DEF DmCallSound
  <2>3. QED
    BY <2>1, <2>2
<1>4. ASSUME NEW them \in SUBSET Participants
      PROVE  (Cardinality(Theirs(them)) <= 1 + Cardinality(LateOpens(them)))'
  <2>1. /\ \A s : s # r => (s \in LateOpens(them)' <=> s \in LateOpens(them))
        /\ r \notin LateOpens(them)
        /\ r \in LateOpens(them)' <=> /\ c.op = "open" /\ c.pc = "done"
                                     /\ c.late /\ c.among = them
    BY <1>1 DEF LateOpens, DmDone
  <2>2. /\ IsFiniteSet(Theirs(them)) /\ Cardinality(Theirs(them)) \in Nat
        /\ IsFiniteSet(LateOpens(them)) /\ Cardinality(LateOpens(them)) \in Nat
    BY <1>1, DmCounts
  <2>3. /\ Cardinality(LateOpens(them)') \in Nat
        /\ r \in LateOpens(them)' =>
             Cardinality(LateOpens(them)') = Cardinality(LateOpens(them)) + 1
        /\ r \notin LateOpens(them)' =>
             Cardinality(LateOpens(them)') = Cardinality(LateOpens(them))
    BY <2>1, <2>2, Recount
  <2>4. Cardinality(Theirs(them)) <= 1 + Cardinality(LateOpens(them))
    BY DEF DmInv
  <2>5. \A j \in Ids : j \in Theirs(them)' <=> j \in Theirs(them)
    BY DEF Theirs, OfThem
  <2>6. CASE Ids' = Ids
    <3>1. Theirs(them)' = Theirs(them)
      <4>1. \A j : j \in Theirs(them)' <=> j \in Theirs(them)
        BY <2>5, <2>6 DEF Theirs
      <4>2. QED
        BY <4>1
    <3>2. QED
      BY <2>1, <2>2, <2>3, <2>4, <3>1
  <2>7. ASSUME NEW k, Ids' = Ids \cup {k}, k \notin Ids,
               c.pc = "done", c.op = "open",
               conversations'[k].participants = c.among,
               (\E id \in Ids : OfThem(id, c.among)) => c.late
        PROVE  Cardinality(Theirs(them)') <= 1 + Cardinality(LateOpens(them)')
    <3>1. /\ \A j : j # k => (j \in Theirs(them)' <=> j \in Theirs(them))
          /\ k \notin Theirs(them)
          /\ k \in Theirs(them)' <=> c.among = them
      <4>1. \A j : j # k => (j \in Theirs(them)' <=> j \in Theirs(them))
        BY <2>5, <2>7 DEF Theirs
      <4>2. k \notin Theirs(them) /\ (k \in Theirs(them)' <=> c.among = them)
        BY <2>7 DEF Theirs, OfThem
      <4>3. QED
        BY <4>1, <4>2
    <3>2. /\ k \in Theirs(them)' =>
               Cardinality(Theirs(them)') = Cardinality(Theirs(them)) + 1
          /\ k \notin Theirs(them)' =>
               Cardinality(Theirs(them)') = Cardinality(Theirs(them))
      BY <2>2, <3>1, Recount
    <3>3. CASE c.among # them
      BY <2>1, <2>2, <2>3, <2>4, <3>1, <3>2, <3>3
    <3>4. CASE c.among = them /\ Theirs(them) = {}
      BY <2>2, <2>3, <3>1, <3>2, <3>4, FS_EmptySet
    <3>5. CASE c.among = them /\ Theirs(them) # {}
      <4>1. c.late
        BY <2>7, <3>5 DEF Theirs
      <4>2. QED
        BY <2>1, <2>2, <2>3, <2>4, <2>7, <3>1, <3>2, <3>5, <4>1
    <3>6. QED
      BY <3>3, <3>4, <3>5
  <2>8. QED
    BY <2>6, <2>7
<1>5. NothingHidden'
  <2>1. ASSUME NEW id \in Ids', NEW u \in conversations'[id].closedBy,
               conversations'[id].messageCount # 0
        PROVE  \E s \in (DmDone("close") \cup DmDone("open"))' :
                 /\ dmCall'[s].id = id
                 /\ \/ dmCall'[s].late
                    \/ dmCall'[s].op = "close" /\ dmCall'[s].by = u
                       /\ dmCall'[s].read = conversations'[id].messageCount
    <3>1. id \in Ids
      BY <2>1
    <3>2. c.pc = "done" /\ c.op \in {"open", "close"}
             => r \in (DmDone("close") \cup DmDone("open"))'
      BY <1>1 DEF DmDone
    <3>3. CASE c.pc = "done" /\ c.op \in {"open", "close"} /\ c.id = id /\ c.late
      BY <1>1, <3>2, <3>3
    <3>4. CASE c.pc = "done" /\ c.op = "close" /\ c.id = id /\ c.by = u
               /\ c.read = conversations'[id].messageCount
      BY <1>1, <3>2, <3>4
    <3>5. CASE /\ conversations'[id].messageCount = conversations[id].messageCount
               /\ u \in conversations[id].closedBy
      <4>1. PICK s \in DmDone("close") \cup DmDone("open") :
              /\ dmCall[s].id = id
              /\ \/ dmCall[s].late
                 \/ dmCall[s].op = "close" /\ dmCall[s].by = u
                    /\ dmCall[s].read = conversations[id].messageCount
        BY <2>1, <3>1, <3>5 DEF DmInv, NothingHidden
      <4>2. s \in DmCalls /\ s # r /\ dmCall'[s] = dmCall[s]
        BY <1>1, <4>1 DEF DmDone
      <4>3. s \in (DmDone("close") \cup DmDone("open"))'
        BY <4>1, <4>2 DEF DmDone
      <4>4. QED
        BY <3>5, <4>1, <4>2, <4>3
    <3>6. QED
      BY <2>1, <3>1, <3>3, <3>4, <3>5
  <2>2. QED
    BY <2>1 DEF NothingHidden
<1>6. QED
  BY <1>1, <1>3, <1>4, <1>5 DEF DmInv

LEMMA DmTyped ==
    ASSUME DmTypeOK, NEW id \in Ids
    PROVE  /\ conversations[id] \in Conversation
           /\ conversations[id].participants \in SUBSET Participants
           /\ conversations[id].closedBy \in SUBSET Participants
           /\ conversations[id].version \in Nat
           /\ conversations[id].messageCount \in Nat
           /\ conversations[id].messages \in Nat
<1>1. conversations[id] \in Conversation
  BY DEF DmTypeOK, Ids
<1>2. QED
  BY <1>1 DEF Conversation

LEMMA DmQuiet ==
    ASSUME DmInv, NEW r \in DmCalls, NEW c \in DmRecord,
           dmCall' = [dmCall EXCEPT ![r] = c], dmCall[r].pc # "done",
           DmCallSound(c), UNCHANGED conversations
    PROVE  DmInv'
<1>1. DmCallSound(c)' /\ Ids' = Ids
  BY DEF DmCallSound, Ids
<1>2. conversations' \in Seq(Conversation)
  BY DEF DmInv, DmTypeOK
<1>3. \A id \in Ids : /\ conversations'[id] = conversations[id]
                      /\ conversations[id].version \in Nat
                      /\ conversations[id].messageCount \in Nat
  BY DmTyped DEF DmInv
<1>4. ASSUME NEW j \in Ids
      PROVE  /\ conversations'[j].participants = conversations[j].participants
             /\ conversations'[j].version >= conversations[j].version
             /\ conversations'[j].messageCount >= conversations[j].messageCount
             /\ conversations'[j].version = conversations[j].version
                  /\ conversations'[j].messageCount = conversations[j].messageCount
                  => conversations'[j].closedBy = conversations[j].closedBy
             /\ \/ conversations'[j].closedBy = {}
                \/ c.pc = "done" /\ c.op \in {"open", "close"} /\ c.id = j
                   /\ c.late
                \/ /\ conversations'[j].messageCount = conversations[j].messageCount
                   /\ \A u \in conversations'[j].closedBy :
                        \/ u \in conversations[j].closedBy
                        \/ c.pc = "done" /\ c.op = "close" /\ c.id = j /\ c.by = u
                           /\ c.read = conversations'[j].messageCount
  BY <1>3
<1>5. \A j \in Ids' \ Ids : conversations'[j].messageCount = 0
  BY <1>1
<1>6. QED
  BY <1>1, <1>2, <1>4, <1>5, DmKeeps

(* The first of the conversations found.                                   *)
LEMMA FirstFound ==
    ASSUME DmTypeOK, NEW found, found \subseteq Ids, found # {}
    PROVE  (CHOOSE i \in found : \A j \in found : i <= j) \in found
<1>1. Len(conversations) \in Nat /\ found \subseteq 1 .. Len(conversations)
  BY DEF DmTypeOK, Ids
<1>2. \E i \in found : \A j \in found : i <= j
  BY <1>1, LeastIndex
<1>3. QED
  BY <1>2

LEMMA DmHolding ==
    ASSUME DmTypeOK, NEW c \in DmRecord, NEW id \in Ids
    PROVE  \E h \in DmRecord :
             /\ h = Holding(c, id) /\ h.op = c.op /\ h.pc = c.pc /\ h.by = c.by
             /\ h.among = c.among /\ h.id = id
             /\ h.closed = conversations[id].closedBy
             /\ h.version = conversations[id].version
             /\ h.read = conversations[id].messageCount
<1>1. PICK closed, version, read :
        /\ closed = conversations[id].closedBy
        /\ version = conversations[id].version
        /\ read = conversations[id].messageCount
  OBVIOUS
<1>2. /\ closed \in SUBSET Participants /\ version \in Nat /\ read \in Nat
      /\ id \in Nat
  BY <1>1, DmTyped DEF DmTypeOK, Ids
<1>3. PICK h : h = [c EXCEPT !.id = id, !.closed = closed, !.version = version,
                             !.read = read]
  OBVIOUS
<1>4. h = Holding(c, id)
  BY <1>1, <1>3 DEF Holding
<1>5. /\ h \in DmRecord /\ h.op = c.op /\ h.pc = c.pc /\ h.by = c.by
      /\ h.among = c.among /\ h.id = id /\ h.closed = closed
      /\ h.version = version /\ h.read = read
  BY <1>2, <1>3 DEF DmRecord
<1>6. QED
  BY <1>1, <1>4, <1>5

LEMMA DmBegins ==
    ASSUME DmInv, NEW r \in DmCalls, BeginDmCall(r)
    PROVE  DmInv'
<1>1. /\ dmCall[r].pc = "idle" /\ UNCHANGED conversations
      /\ dmCall[r] \in DmRecord /\ DmTypeOK
  BY DEF BeginDmCall, DmInv, DmTypeOK
<1>2. \A id \in Ids : conversations[id] \in Conversation
  BY <1>1 DEF DmTypeOK, Ids
<1>3. PICK u \in Participants : OpenConversation(r, u) \/ UseConversation(r, u)
  BY DEF BeginDmCall
<1>4. CASE OpenConversation(r, u)
  <2>1. PICK among \in SUBSET Participants :
          LET found == {id \in Ids : OfThem(id, among)}
              c == [dmCall[r] EXCEPT !.op = "open", !.by = u, !.among = among]
          IN
          /\ u \in among /\ Cardinality(among) \in 2..ParticipantLimit
          /\ dmCall' = [dmCall EXCEPT ![r] =
                IF found = {} THEN [c EXCEPT !.pc = "create"]
                ELSE LET id == CHOOSE i \in found : \A j \in found : i <= j IN
                     [Holding(c, id) EXCEPT !.pc =
                         IF u \in conversations[id].closedBy THEN "save" ELSE "done"]]
    BY <1>4 DEF OpenConversation
  <2>2. PICK found : found = {id \in Ids : OfThem(id, among)}
    OBVIOUS
  <2>3. PICK c : c = [dmCall[r] EXCEPT !.op = "open", !.by = u, !.among = among]
    OBVIOUS
  <2>4. c \in DmRecord /\ c.op = "open" /\ c.among = among /\ c.by = u
    BY <1>1, <2>3 DEF DmRecord
  <2>5. CASE found = {}
    <3>1. PICK d : d = [c EXCEPT !.pc = "create"]
      OBVIOUS
    <3>2. d \in DmRecord /\ d.pc = "create" /\ d.op = "open" /\ d.by = u
      BY <2>4, <3>1 DEF DmRecord, DmPc
    <3>3. DmCallSound(d)
      BY <3>2 DEF DmCallSound
    <3>4. dmCall' = [dmCall EXCEPT ![r] = d]
      BY <2>1, <2>2, <2>3, <2>5, <3>1
    <3>5. QED
      BY <1>1, <3>2, <3>3, <3>4, DmQuiet
  <2>6. CASE found # {}
    <3>1. PICK id : id = CHOOSE i \in found : \A j \in found : i <= j
      OBVIOUS
    <3>2. id \in Ids /\ conversations[id].participants = among
      BY <1>1, <2>2, <2>6, <3>1, FirstFound DEF OfThem
    <3>3. PICK pc \in DmPc :
            pc = IF u \in conversations[id].closedBy THEN "save" ELSE "done"
      BY DEF DmPc
    <3>4. PICK h \in DmRecord :
            /\ h = Holding(c, id) /\ h.op = c.op /\ h.by = c.by
            /\ h.among = c.among /\ h.id = id
            /\ h.closed = conversations[id].closedBy
            /\ h.version = conversations[id].version
            /\ h.read = conversations[id].messageCount
      BY <1>1, <2>4, <3>2, DmHolding
    <3>5. PICK d : d = [h EXCEPT !.pc = pc]
      OBVIOUS
    <3>6. /\ dmCall' = [dmCall EXCEPT ![r] = d]
          /\ d \in DmRecord /\ d.op = c.op /\ d.pc = pc /\ d.among = c.among
          /\ d.by = c.by /\ d.id = id /\ d.closed = conversations[id].closedBy
          /\ d.version = conversations[id].version
          /\ d.read = conversations[id].messageCount
      <4>1. dmCall' = [dmCall EXCEPT ![r] = d]
        BY <2>1, <2>2, <2>3, <2>6, <3>1, <3>3, <3>4, <3>5
      <4>2. QED
        BY <3>4, <3>5, <4>1 DEF DmRecord
    <3>7. /\ conversations[id].messageCount <= conversations[id].messageCount
          /\ conversations[id].version <= conversations[id].version
      BY <1>2, <3>2 DEF Conversation
    <3>8. DmCallSound(d)
      BY <2>4, <3>2, <3>3, <3>6, <3>7 DEF DmCallSound
    <3>9. QED
      BY <1>1, <3>6, <3>8, DmQuiet
  <2>7. QED
    BY <2>5, <2>6
<1>5. CASE UseConversation(r, u)
  <2>1. PICK id \in Ids, op \in {"send", "close"} :
          dmCall' = [dmCall EXCEPT ![r] =
              Holding([@ EXCEPT !.op = op, !.by = u,
                                !.pc = IF op = "send" THEN "message" ELSE "save"], id)]
    BY <1>5 DEF UseConversation
  <2>2. PICK pc \in DmPc : pc = IF op = "send" THEN "message" ELSE "save"
    BY DEF DmPc
  <2>3. PICK c : c = [dmCall[r] EXCEPT !.op = op, !.by = u, !.pc = pc]
    OBVIOUS
  <2>4. c \in DmRecord /\ c.op = op /\ c.pc = pc /\ c.by = u
    BY <1>1, <2>1, <2>3 DEF DmRecord
  <2>5. PICK d \in DmRecord :
          /\ d = Holding(c, id) /\ d.op = c.op /\ d.pc = c.pc /\ d.by = c.by
          /\ d.id = id /\ d.closed = conversations[id].closedBy
          /\ d.version = conversations[id].version
          /\ d.read = conversations[id].messageCount
    BY <1>1, <2>1, <2>4, DmHolding
  <2>6. dmCall' = [dmCall EXCEPT ![r] = d]
    BY <2>1, <2>2, <2>3, <2>5
  <2>8. /\ d.op = op /\ d.pc = pc /\ d.by = u
        /\ d.id = id /\ d.closed = conversations[id].closedBy
        /\ d.version = conversations[id].version
        /\ d.read = conversations[id].messageCount
    BY <2>4, <2>5
  <2>9. /\ conversations[id].messageCount <= conversations[id].messageCount
        /\ conversations[id].version <= conversations[id].version
    BY <1>2 DEF Conversation
  <2>10. DmCallSound(d)
    BY <2>1, <2>2, <2>8, <2>9 DEF DmCallSound
  <2>11. QED
    BY <1>1, <2>5, <2>6, <2>10, DmQuiet
<1>6. QED
  BY <1>3, <1>4, <1>5

LEMMA DmCreates ==
    ASSUME DmInv, NEW r \in DmCalls, CreateConversation(r)
    PROVE  DmInv'
<1>1. PICK b : b = dmCall[r]
  OBVIOUS
<1>2. /\ b \in DmRecord /\ DmTypeOK /\ b.pc = "create" /\ b.op = "open"
      /\ b.by \in Participants /\ conversations \in Seq(Conversation)
  BY <1>1 DEF DmInv, DmTypeOK, DmCallSound, CreateConversation
<1>3. PICK k : k = Len(conversations) + 1
  OBVIOUS
<1>4. PICK late \in BOOLEAN : late = (\E id \in Ids : OfThem(id, b.among))
  OBVIOUS
<1>5. PICK c : c = [b EXCEPT !.pc = "done", !.id = k, !.late = late]
  OBVIOUS
<1>6. /\ conversations' = Append(conversations, NewConversation(b.among))
      /\ dmCall' = [dmCall EXCEPT ![r] = c]
  BY <1>1, <1>3, <1>4, <1>5 DEF CreateConversation
<1>7. /\ NewConversation(b.among) \in Conversation
      /\ NewConversation(b.among).participants = b.among
      /\ NewConversation(b.among).messageCount = 0
  BY <1>2 DEF NewConversation, Conversation, DmRecord
<1>8. /\ conversations' \in Seq(Conversation)
      /\ \A id \in Ids : conversations'[id] = conversations[id]
      /\ conversations'[k] = NewConversation(b.among)
      /\ Ids' = Ids \cup {k} /\ k \notin Ids /\ k \in Nat
  BY <1>2, <1>3, <1>6, <1>7 DEF Ids
<1>9. /\ c \in DmRecord /\ c.pc = "done" /\ c.op = "open" /\ c.id = k
      /\ c.late = late /\ c.among = b.among /\ c.by = b.by
  BY <1>2, <1>5, <1>8 DEF DmRecord, DmPc
<1>10. DmCallSound(c)'
  BY <1>2, <1>7, <1>8, <1>9 DEF DmCallSound
<1>11. ASSUME NEW j \in Ids
       PROVE  /\ conversations'[j].participants = conversations[j].participants
              /\ conversations'[j].version >= conversations[j].version
              /\ conversations'[j].messageCount >= conversations[j].messageCount
              /\ conversations'[j].version = conversations[j].version
                   /\ conversations'[j].messageCount = conversations[j].messageCount
                   => conversations'[j].closedBy = conversations[j].closedBy
              /\ \/ conversations'[j].closedBy = {}
                 \/ c.pc = "done" /\ c.op \in {"open", "close"} /\ c.id = j
                    /\ c.late
                 \/ /\ conversations'[j].messageCount = conversations[j].messageCount
                    /\ \A u \in conversations'[j].closedBy :
                         \/ u \in conversations[j].closedBy
                         \/ c.pc = "done" /\ c.op = "close" /\ c.id = j /\ c.by = u
                            /\ c.read = conversations'[j].messageCount
  <2>1. /\ conversations[j].version \in Nat
        /\ conversations[j].messageCount \in Nat
    BY <1>2, DmTyped
  <2>2. QED
    BY <1>8, <2>1
<1>12. \A id \in Ids' \ Ids : conversations'[id].messageCount = 0
  BY <1>7, <1>8
<1>13. /\ Ids' = Ids \cup {k} /\ k \notin Ids
       /\ c.pc = "done" /\ c.op = "open"
       /\ conversations'[k].participants = c.among
       /\ (\E id \in Ids : OfThem(id, c.among)) => c.late
  BY <1>4, <1>7, <1>8, <1>9
<1>14. dmCall[r].pc # "done" /\ Ids \subseteq Ids'
  BY <1>1, <1>2, <1>8
<1>15. QED
  BY <1>6, <1>8, <1>9, <1>10, <1>11, <1>12, <1>13, <1>14, DmKeeps

(* What becomes of a conversation v that a call c ends with, or goes on in.*)
Moves(v, w, c) ==
    /\ c.pc \in {"done", "update", "notify"} /\ c.by \in Participants
    /\ c.pc \in {"update", "notify"} => c.op = "send"
    /\ c.pc = "done" /\ c.op = "open" => w.participants = c.among
    /\ w.participants = v.participants
    /\ w.version >= v.version /\ w.messageCount >= v.messageCount
    /\ w.version = v.version /\ w.messageCount = v.messageCount
         => w.closedBy = v.closedBy
    /\ \/ w.closedBy = {}
       \/ c.pc = "done" /\ c.op \in {"open", "close"} /\ c.late
       \/ /\ w.messageCount = v.messageCount
          /\ \A u \in w.closedBy :
               \/ u \in v.closedBy
               \/ c.pc = "done" /\ c.op = "close" /\ c.by = u
                  /\ c.read = w.messageCount

(* One conversation is written.                                            *)
LEMMA DmWrites ==
    ASSUME DmInv, NEW r \in DmCalls, NEW c \in DmRecord, NEW id \in Ids,
           NEW v \in Conversation, conversations' = [conversations EXCEPT ![id] = v],
           dmCall' = [dmCall EXCEPT ![r] = c], dmCall[r].pc # "done",
           c.id = id, Moves(conversations[id], v, c)
    PROVE  DmInv'
<1>1. /\ conversations \in Seq(Conversation) /\ conversations' \in Seq(Conversation)
      /\ Ids' = Ids /\ conversations'[id] = v
      /\ \A j \in Ids \ {id} : conversations'[j] = conversations[j]
  BY DEF DmInv, DmTypeOK, Ids
<1>2. \A j \in Ids : /\ conversations[j].version \in Nat
                     /\ conversations[j].messageCount \in Nat
  BY DmTyped DEF DmInv
<1>3. DmCallSound(c)'
  BY <1>1 DEF DmCallSound, Moves
<1>4. ASSUME NEW j \in Ids
      PROVE  /\ conversations'[j].participants = conversations[j].participants
             /\ conversations'[j].version >= conversations[j].version
             /\ conversations'[j].messageCount >= conversations[j].messageCount
             /\ conversations'[j].version = conversations[j].version
                  /\ conversations'[j].messageCount = conversations[j].messageCount
                  => conversations'[j].closedBy = conversations[j].closedBy
             /\ \/ conversations'[j].closedBy = {}
                \/ c.pc = "done" /\ c.op \in {"open", "close"} /\ c.id = j
                   /\ c.late
                \/ /\ conversations'[j].messageCount = conversations[j].messageCount
                   /\ \A u \in conversations'[j].closedBy :
                        \/ u \in conversations[j].closedBy
                        \/ c.pc = "done" /\ c.op = "close" /\ c.id = j /\ c.by = u
                           /\ c.read = conversations'[j].messageCount
  <2>1. CASE j = id
    BY <1>1, <2>1 DEF Moves
  <2>2. CASE j # id
    BY <1>1, <1>2, <2>2
  <2>3. QED
    BY <2>1, <2>2
<1>5. QED
  BY <1>1, <1>3, <1>4, DmKeeps

LEMMA DmSaves ==
    ASSUME DmInv, NEW r \in DmCalls, SaveReopen(r) \/ SaveClose(r)
    PROVE  DmInv'
<1>1. PICK b : b = dmCall[r]
  OBVIOUS
<1>2. PICK id, v : id = b.id /\ v = conversations[id]
  OBVIOUS
<1>3. /\ b \in DmRecord /\ DmTypeOK /\ DmCallSound(b)
      /\ b.pc = "save" /\ b.op \in {"open", "close"} /\ b.by \in Participants
  BY <1>1 DEF DmInv, DmTypeOK, DmCallSound, SaveReopen, SaveClose
<1>4. /\ id \in Ids /\ v \in Conversation
      /\ v.version \in Nat /\ v.messageCount \in Nat
      /\ v.closedBy \in SUBSET Participants /\ b.closed \in SUBSET Participants
  BY <1>2, <1>3, DmTyped DEF DmCallSound, DmRecord
<1>5. PICK late \in BOOLEAN : late = (b.read # v.messageCount)
  OBVIOUS
<1>6. PICK c : c = [b EXCEPT !.pc = "done", !.late = late]
  OBVIOUS
<1>7. /\ c \in DmRecord /\ c.pc = "done" /\ c.op = b.op /\ c.late = late
      /\ c.id = id /\ c.by = b.by /\ c.read = b.read /\ c.among = b.among
  BY <1>2, <1>3, <1>6 DEF DmRecord, DmPc
<1>8. CASE SaveReopen(r)
  <2>1. CASE b.version = v.version
    <3>1. PICK closed \in SUBSET Participants : closed = b.closed \ {b.by}
      BY <1>4
    <3>0. PICK n \in Nat : n = v.version + 1
      BY <1>4
    <3>2. PICK w : w = [v EXCEPT !.closedBy = closed, !.version = n]
      OBVIOUS
    <3>3. /\ w \in Conversation /\ w.participants = v.participants
          /\ w.closedBy = closed /\ w.version = n
          /\ w.messageCount = v.messageCount
      BY <1>4, <3>2 DEF Conversation
    <3>4. /\ conversations' = [conversations EXCEPT ![id] = w]
          /\ dmCall' = [dmCall EXCEPT ![r] = c] /\ b.op = "open"
      BY <1>1, <1>2, <1>5, <1>6, <1>8, <2>1, <3>0, <3>1, <3>2 DEF SaveReopen
    <3>5. ~late => b.closed = v.closedBy
      BY <1>2, <1>3, <1>5, <2>1 DEF DmCallSound
    <3>6. v.participants = b.among
      BY <1>2, <1>3, <3>4 DEF DmCallSound
    <3>7. /\ w.version >= v.version /\ w.version # v.version
          /\ w.messageCount >= v.messageCount
          /\ \/ late
             \/ \A u \in w.closedBy : u \in v.closedBy
      BY <1>4, <3>0, <3>1, <3>3, <3>5
    <3>8. Moves(v, w, c)
      BY <1>3, <1>7, <3>3, <3>4, <3>6, <3>7 DEF Moves
    <3>9. QED
      BY <1>1, <1>2, <1>3, <1>4, <1>7, <3>3, <3>4, <3>8, DmWrites
  <2>2. CASE b.version # v.version
    <3>1. PICK d : d = [b EXCEPT !.pc = "failed"]
      OBVIOUS
    <3>2. d \in DmRecord /\ d.pc = "failed" /\ d.id = id /\ d.by = b.by
      BY <1>2, <1>3, <3>1 DEF DmRecord, DmPc
    <3>3. dmCall' = [dmCall EXCEPT ![r] = d] /\ UNCHANGED conversations
      BY <1>1, <1>2, <1>8, <2>2, <3>1 DEF SaveReopen, DmAt
    <3>4. DmCallSound(d)
      BY <1>3, <1>4, <3>2 DEF DmCallSound
    <3>5. QED
      BY <1>1, <1>3, <3>2, <3>3, <3>4, DmQuiet
  <2>3. QED
    BY <2>1, <2>2
<1>9. CASE SaveClose(r)
  <2>1. PICK closed \in SUBSET Participants : closed = v.closedBy \cup {b.by}
    BY <1>3, <1>4
  <2>0. PICK n \in Nat : n = v.version + 1
    BY <1>4
  <2>2. PICK w : w = [v EXCEPT !.closedBy = closed, !.version = n]
    OBVIOUS
  <2>3. /\ w \in Conversation /\ w.participants = v.participants
        /\ w.closedBy = closed /\ w.version = n
        /\ w.messageCount = v.messageCount
    BY <1>4, <2>2 DEF Conversation
  <2>4. /\ conversations' = [conversations EXCEPT ![id] = w]
        /\ dmCall' = [dmCall EXCEPT ![r] = c] /\ b.op = "close"
    BY <1>1, <1>2, <1>5, <1>6, <1>9, <2>0, <2>1, <2>2 DEF SaveClose
  <2>5. /\ w.version >= v.version /\ w.version # v.version
        /\ w.messageCount >= v.messageCount
        /\ \/ late
           \/ \A u \in w.closedBy :
                u \in v.closedBy \/ (b.by = u /\ b.read = w.messageCount)
    <3>1. /\ w.version >= v.version /\ w.version # v.version
          /\ w.messageCount >= v.messageCount
      BY <1>4, <2>0, <2>3
    <3>2. ASSUME ~late, NEW u \in w.closedBy
          PROVE  u \in v.closedBy \/ (b.by = u /\ b.read = w.messageCount)
      BY <1>5, <2>1, <2>3, <3>2
    <3>3. QED
      BY <3>1, <3>2
  <2>6. Moves(v, w, c)
    BY <1>3, <1>7, <2>3, <2>4, <2>5 DEF Moves
  <2>7. QED
    BY <1>1, <1>2, <1>3, <1>4, <1>7, <2>3, <2>4, <2>6, DmWrites
<1>10. QED
  BY <1>8, <1>9

LEMMA DmSends ==
    ASSUME DmInv, NEW r \in DmCalls,
           CreateDmMessage(r) \/ UpdateConversation(r) \/ NotifyOthers(r)
             \/ CutDmSend(r)
    PROVE  DmInv'
<1>1. PICK b : b = dmCall[r]
  OBVIOUS
<1>2. PICK id, v : id = b.id /\ v = conversations[id]
  OBVIOUS
<1>3. /\ b \in DmRecord /\ DmTypeOK /\ DmCallSound(b)
      /\ b.pc \in {"message", "update", "notify"}
  BY <1>1 DEF DmInv, DmTypeOK, CreateDmMessage, UpdateConversation,
     NotifyOthers, CutDmSend
<1>4. /\ b.op = "send" /\ b.by \in Participants
      /\ id \in Ids /\ v \in Conversation
      /\ v.version \in Nat /\ v.messageCount \in Nat /\ v.messages \in Nat
  BY <1>2, <1>3, DmTyped DEF DmCallSound
<1>5. PICK pc \in {"update", "notify", "done", "unnotified", "cut"} :
        DmAt(r, pc) /\ (b.pc = "message" => pc = "update")
          /\ (UpdateConversation(r) => pc = "notify")
  BY <1>1 DEF CreateDmMessage, UpdateConversation, NotifyOthers, CutDmSend
<1>6. PICK c : c = [b EXCEPT !.pc = pc]
  OBVIOUS
<1>7. /\ c \in DmRecord /\ c.pc = pc /\ c.op = "send" /\ c.id = id
      /\ c.by = b.by /\ dmCall' = [dmCall EXCEPT ![r] = c]
  <2>1. dmCall' = [dmCall EXCEPT ![r] = c]
    BY <1>1, <1>5, <1>6 DEF DmAt
  <2>2. QED
    BY <1>2, <1>3, <1>4, <1>6, <2>1 DEF DmRecord, DmPc
<1>8. CASE CreateDmMessage(r)
  <2>1. PICK w : w = [v EXCEPT !.messages = v.messages + 1]
    OBVIOUS
  <2>2. /\ w \in Conversation /\ w.participants = v.participants
        /\ w.closedBy = v.closedBy /\ w.version = v.version
        /\ w.messageCount = v.messageCount
    BY <1>4, <2>1 DEF Conversation
  <2>3. conversations' = [conversations EXCEPT ![id] = w] /\ pc = "update"
    BY <1>1, <1>2, <1>5, <1>8, <2>1 DEF CreateDmMessage
  <2>4. Moves(v, w, c)
    BY <1>4, <1>7, <2>2, <2>3 DEF Moves
  <2>5. QED
    BY <1>1, <1>2, <1>3, <1>4, <1>7, <2>2, <2>3, <2>4, DmWrites
<1>9. CASE UpdateConversation(r)
  <2>0. PICK n \in Nat : n = v.messageCount + 1
    BY <1>4
  <2>1. PICK w : w = [v EXCEPT !.messageCount = n, !.closedBy = {}]
    OBVIOUS
  <2>2. /\ w \in Conversation /\ w.participants = v.participants
        /\ w.closedBy = {} /\ w.version = v.version
        /\ w.messageCount = n
    BY <1>4, <2>1 DEF Conversation
  <2>3. conversations' = [conversations EXCEPT ![id] = w] /\ pc = "notify"
    BY <1>1, <1>2, <1>5, <1>9, <2>0, <2>1 DEF UpdateConversation
  <2>4. Moves(v, w, c)
    BY <1>4, <1>7, <2>0, <2>2, <2>3 DEF Moves
  <2>5. QED
    BY <1>1, <1>2, <1>3, <1>4, <1>7, <2>2, <2>3, <2>4, DmWrites
<1>10. CASE NotifyOthers(r) \/ CutDmSend(r)
  <2>1. UNCHANGED conversations /\ b.pc # "message"
    BY <1>1, <1>10 DEF NotifyOthers, CutDmSend
  <2>2. DmCallSound(c)
    BY <1>4, <1>5, <1>7 DEF DmCallSound
  <2>3. QED
    BY <1>1, <1>3, <1>7, <2>1, <2>2, DmQuiet
<1>11. QED
  BY <1>8, <1>9, <1>10

(* Calls that do not overlap open one conversation among its members, and  *)
(* none of them has closed it but with every message counted: for any      *)
(* numbers of members, calls and messages.                                 *)
THEOREM OneConversationEach == DmSpec => []OneConversation
<1>1. DmInit => DmInv
  BY DmInitial
<1>2. DmInv /\ [DmNext]_dmVars => DmInv'
  <2>1. SUFFICES ASSUME DmInv, [DmNext]_dmVars
                 PROVE  DmInv'
    OBVIOUS
  <2>2. CASE UNCHANGED dmVars
    <3>1. DmTypeOK' /\ \A r \in DmCalls : DmCallSound(dmCall[r])'
      BY <2>1, <2>2 DEF dmVars, DmInv, DmTypeOK, DmCallSound, Ids
    <3>2. ASSUME NEW among
          PROVE  /\ Theirs(among)' = Theirs(among)
                 /\ LateOpens(among)' = LateOpens(among)
      BY <2>2 DEF dmVars, Theirs, LateOpens, DmDone, OfThem, Ids
    <3>3. NothingHidden'
      BY <2>1, <2>2 DEF dmVars, DmInv, NothingHidden, DmDone, Ids
    <3>4. QED
      BY <2>1, <3>1, <3>2, <3>3 DEF DmInv
  <2>3. CASE DmNext
    BY <2>1, <2>3, DmBegins, DmCreates, DmSaves, DmSends DEF DmNext
  <2>4. QED
    BY <2>1, <2>2, <2>3
<1>3. DmInv => OneConversation
  <2>1. SUFFICES ASSUME DmInv
                 PROVE  OpenedIsTheirs
    BY DEF OneConversation, DmInv
  <2>2. ASSUME NEW r \in DmDone("open")
        PROVE  conversations[dmCall[r].id].participants = dmCall[r].among
    BY <2>1 DEF DmInv, DmCallSound, DmDone
  <2>3. ASSUME NEW id \in Ids, NEW among, among = conversations[id].participants
        PROVE  Cardinality(Theirs(among)) <= 1 + Cardinality(LateOpens(among))
    BY <2>1, <2>3, DmTyped DEF DmInv
  <2>4. QED
    BY <2>2, <2>3 DEF OpenedIsTheirs, Theirs, LateOpens
<1>4. QED
  BY <1>1, <1>2, <1>3, PTL DEF DmSpec

-----------------------------------------------------------------------------
(* Channels: the arrays a save assigns, and the counts of messages.        *)

ChannelPc == {"idle", "save", "create", "thread", "count", "sent", "cut",
              "failed", "done"}

Lists == UNION {[Entries(a) -> Nat] : a \in Arrays}

ChannelDocument ==
    [lists : [Arrays -> Lists], version : Nat, isDefault : BOOLEAN,
     isArchived : BOOLEAN, messageCount : Int, threadCount : Int,
     roots : Int, replies : Int]

ChannelCall ==
    [op : {"none", "add", "take", "root", "reply"}, pc : ChannelPc,
     array : Arrays, x : Joiners \cup Pinnable \cup {0}, seen : Lists,
     version : Nat, late : BOOLEAN]

ChannelTypeOK ==
    /\ channel \in ChannelDocument
    /\ \A a \in Arrays : channel.lists[a] \in [Entries(a) -> Nat]
    /\ DOMAIN due = Arrays
    /\ chCall \in [ChannelCalls -> ChannelCall]

(* What a request read is there still, if the version is; and it allowed   *)
(* what the request is about to save.                                      *)
ReadSound(c) ==
    /\ c.op \in {"add", "take"} /\ c.x \in Entries(c.array)
    /\ c.seen \in [Entries(c.array) -> Nat]
    /\ c.version <= channel.version
    /\ c.version = channel.version => c.seen = channel.lists[c.array]
    /\ c.op = "add" =>
         /\ c.seen[c.x] = 0
         /\ c.array = "pinnedMessages" => Size(c.seen) < PinLimit
    /\ c.op = "take" => c.seen[c.x] > 0

ChannelCallSound(c) ==
    /\ c.pc = "save" => ReadSound(c)
    /\ c.pc \in {"create", "count"} => c.op \in {"root", "reply"}
    /\ c.pc = "thread" => c.op = "reply"

ChannelInv ==
    /\ ChannelTypeOK
    /\ \A r \in ChannelCalls : ChannelCallSound(chCall[r])
    /\ ChannelSound

LateSaves(a) == {r \in ChannelCalls :
                   chCall[r].op = "add" /\ chCall[r].pc = "done"
                   /\ chCall[r].array = a /\ chCall[r].late}

LEMMA EntriesFinite ==
    ASSUME NEW a \in Arrays
    PROVE  IsFiniteSet(Entries(a))
BY ChannelAssumption DEF Entries

LEMMA SizeNat ==
    ASSUME NEW a \in Arrays, NEW list \in [Entries(a) -> Nat]
    PROVE  Size(list) \in Nat
<1>1. DOMAIN list = Entries(a) /\ \A x \in Entries(a) : list[x] \in Nat
  OBVIOUS
<1>2. QED
  BY <1>1, EntriesFinite, SumNat DEF Size

(* An entry whose number changes changes the size by as much.              *)
LEMMA SizeChange ==
    ASSUME NEW a \in Arrays, NEW list \in [Entries(a) -> Nat],
           NEW new \in [Entries(a) -> Nat], NEW x \in Entries(a),
           \A y \in Entries(a) \ {x} : new[y] = list[y]
    PROVE  Size(new) = Size(list) - list[x] + new[x]
<1>1. DOMAIN new = Entries(a) /\ DOMAIN list = Entries(a)
  OBVIOUS
<1>2. \A y \in Entries(a) : list[y] \in Int /\ new[y] \in Int
  OBVIOUS
<1>3. SumFunctionOnSet(new, Entries(a))
        = SumFunctionOnSet(list, Entries(a)) - list[x] + new[x]
  BY <1>2, EntriesFinite, SumChange
<1>4. QED
  BY <1>1, <1>3 DEF Size

LEMMA LateIs ==
    ASSUME ChannelTypeOK, NEW a
    PROVE  /\ Late(a) = Cardinality(LateSaves(a)) /\ Late(a) \in Nat
           /\ IsFiniteSet(LateSaves(a))
<1>1. IsFiniteSet(LateSaves(a))
  BY ChannelAssumption, FS_Subset DEF LateSaves
<1>2. QED
  BY <1>1, FS_CardinalityType DEF Late, LateSaves

LEMMA DueFinite ==
    ASSUME ChannelTypeOK, NEW a \in Arrays, OfList(channel.lists[a]) = due[a]
    PROVE  /\ IsFiniteSet(due[a]) /\ Cardinality(due[a]) \in Nat
           /\ due[a] \subseteq Entries(a)
<1>1. due[a] \subseteq Entries(a)
  BY DEF OfList, ChannelTypeOK
<1>2. QED
  BY <1>1, EntriesFinite, FS_Subset, FS_CardinalityType

LEMMA SendingFinite ==
    ASSUME NEW pcs
    PROVE  /\ IsFiniteSet(Sending(pcs)) /\ Cardinality(Sending(pcs)) \in Nat
           /\ IsFiniteSet(Cut(TRUE)) /\ Cardinality(Cut(TRUE)) \in Nat
<1>1. Sending(pcs) \subseteq ChannelCalls /\ Cut(TRUE) \subseteq ChannelCalls
  BY DEF Sending, Cut
<1>2. QED
  BY <1>1, ChannelAssumption, FS_Subset, FS_CardinalityType

LEMMA ChannelInitial == ChannelsInit => ChannelInv
<1> SUFFICES ASSUME ChannelsInit
             PROVE  ChannelInv
  OBVIOUS
<1>1. /\ channel.lists = NoArrays /\ channel.version = 0
      /\ channel.isDefault \in BOOLEAN /\ channel.isArchived = FALSE
      /\ channel.messageCount = 0 /\ channel.threadCount = 0
      /\ channel.roots = 1 /\ channel.replies = 0
  BY DEF ChannelsInit
<1>2. \A a \in Arrays : NoArrays[a] \in [Entries(a) -> Nat]
  BY DEF NoArrays
<1>3. NoArrays \in [Arrays -> Lists]
  BY <1>2 DEF NoArrays, Lists
<1>4. channel \in ChannelDocument
  <2>1. channel \in [lists : {NoArrays}, version : {0}, isDefault : BOOLEAN,
                     isArchived : {FALSE}, messageCount : {0},
                     threadCount : {0}, roots : {1}, replies : {0}]
    BY DEF ChannelsInit
  <2>2. PICK d \in BOOLEAN, none \in [Arrays -> Lists] :
          channel = [lists |-> none, version |-> 0, isDefault |-> d,
                     isArchived |-> FALSE, messageCount |-> 0,
                     threadCount |-> 0, roots |-> 1, replies |-> 0]
    BY <1>3, <2>1
  <2>3. QED
    BY <2>2 DEF ChannelDocument
<1>5. IdleCall \in ChannelCall
  <2>1. "members" \in Arrays
    BY DEF Arrays
  <2>2. NoArrays["members"] \in Lists
    BY <1>3, <2>1
  <2>3. QED
    BY <2>1, <2>2 DEF IdleCall, ChannelCall, ChannelPc
<1>6. \A r \in ChannelCalls : chCall[r] = IdleCall
  BY DEF ChannelsInit
<1>7. ChannelTypeOK
  BY <1>1, <1>2, <1>4, <1>5 DEF ChannelTypeOK, ChannelsInit
<1>8. \A r \in ChannelCalls : ChannelCallSound(chCall[r])
  BY <1>6 DEF ChannelCallSound, IdleCall
<1>9. ASSUME NEW a \in Arrays
      PROVE  /\ Size(channel.lists[a]) = 0 /\ OfList(channel.lists[a]) = {}
             /\ due[a] = {}
  <2>1. PICK list : list = channel.lists[a]
    OBVIOUS
  <2>2. list = [x \in Entries(a) |-> 0]
    BY <1>1, <2>1 DEF NoArrays
  <2>3. DOMAIN list = Entries(a) /\ \A x \in Entries(a) : list[x] = 0
    BY <2>2
  <2>4. Size(list) = 0
    BY <2>3, EntriesFinite, SumZero DEF Size
  <2>5. QED
    BY <2>1, <2>3, <2>4 DEF OfList, ChannelsInit
<1>10. PinLimitHeld
  <2>1. \A a \in Arrays : Late(a) \in Nat
    BY <1>7, LateIs
  <2>2. "pinnedMessages" \in Arrays /\ PinLimit \in Nat
    BY ChannelAssumption DEF Arrays
  <2>3. ASSUME NEW a \in Arrays
        PROVE  /\ Size(channel.lists[a]) <= Cardinality(due[a]) + Late(a)
               /\ Size(channel.lists[a]) <= PinLimit + Late(a)
               /\ OfList(channel.lists[a]) = due[a]
    <3>1. Cardinality(due[a]) = 0
      BY <1>9, FS_EmptySet
    <3>2. QED
      BY <1>9, <2>1, <2>2, <3>1
  <2>4. QED
    BY <2>2, <2>3 DEF PinLimitHeld
<1>11. SentCounted
  <2>1. /\ Sending({"thread", "count", "cut"}) = {} /\ Sending({"thread"}) = {}
        /\ Cut(TRUE) = {}
    BY <1>6 DEF Sending, Cut, IdleCall
  <2>2. /\ Cardinality(Sending({"thread", "count", "cut"})) = 0
        /\ Cardinality(Sending({"thread"})) = 0 /\ Cardinality(Cut(TRUE)) = 0
    BY <2>1, FS_EmptySet
  <2>3. /\ channel.messageCount = 0 /\ channel.threadCount = 0
        /\ channel.roots = 1 /\ channel.replies = 0
    BY <1>1
  <2>4. 0 = 1 - 1 + 0 - 0 /\ 0 = 0 - 0 - 0
    OBVIOUS
  <2>5. QED
    BY <2>2, <2>3, <2>4, Zenon DEF SentCounted
<1>12. QED
  BY <1>7, <1>8, <1>10, <1>11 DEF ChannelInv, ChannelSound

-----------------------------------------------------------------------------
(* A step of request r, which ends as c.                                   *)
CallBecomes(r, c) ==
    /\ ChannelTypeOK /\ r \in ChannelCalls /\ c \in ChannelCall
    /\ chCall' = [chCall EXCEPT ![r] = c]

LEMMA CallBecame ==
    ASSUME NEW r, NEW c, CallBecomes(r, c)
    PROVE  /\ chCall' \in [ChannelCalls -> ChannelCall]
           /\ chCall'[r] = c /\ chCall[r] \in ChannelCall
           /\ \A s \in ChannelCalls : s # r => chCall'[s] = chCall[s]
BY DEF CallBecomes, ChannelTypeOK

LEMMA LateMoves ==
    ASSUME NEW r, NEW c, CallBecomes(r, c), chCall[r].pc # "done", NEW a
    PROVE  /\ Late(a) \in Nat
           /\ c.op = "add" /\ c.pc = "done" /\ c.array = a /\ c.late
                => Late(a)' = Late(a) + 1
           /\ ~(c.op = "add" /\ c.pc = "done" /\ c.array = a /\ c.late)
                => Late(a)' = Late(a)
<1>1. PICK S : S = LateSaves(a)
  OBVIOUS
<1>2. PICK T : T = LateSaves(a)'
  OBVIOUS
<1>3. r \in ChannelCalls /\ ChannelTypeOK
  BY DEF CallBecomes
<1>4. r \notin S
  BY <1>1 DEF LateSaves
<1>5. r \in T <=> c.op = "add" /\ c.pc = "done" /\ c.array = a /\ c.late
  BY <1>2, <1>3, CallBecame DEF LateSaves
<1>6. \A y : y # r => (y \in T <=> y \in S)
  BY <1>1, <1>2, CallBecame DEF LateSaves
<1>7. IsFiniteSet(S) /\ Late(a) = Cardinality(S)
  BY <1>1, <1>3, LateIs
<1>8. Late(a)' = Cardinality(T)
  BY <1>2 DEF Late, LateSaves
<1>9. QED
  BY <1>4, <1>5, <1>6, <1>7, <1>8, Recount

Sends(c, pcs) == c.op \in {"root", "reply"} /\ c.pc \in pcs

LEMMA SendingMoves ==
    ASSUME NEW r, NEW c, CallBecomes(r, c), NEW pcs
    PROVE  /\ Cardinality(Sending(pcs)) \in Nat
           /\ Sends(c, pcs) /\ ~Sends(chCall[r], pcs) =>
                Cardinality(Sending(pcs)') = Cardinality(Sending(pcs)) + 1
           /\ ~Sends(c, pcs) /\ Sends(chCall[r], pcs) =>
                Cardinality(Sending(pcs)') = Cardinality(Sending(pcs)) - 1
           /\ (Sends(c, pcs) <=> Sends(chCall[r], pcs)) =>
                Cardinality(Sending(pcs)') = Cardinality(Sending(pcs))
<1>1. PICK S : S = Sending(pcs)
  OBVIOUS
<1>2. PICK T : T = Sending(pcs)'
  OBVIOUS
<1>3. r \in ChannelCalls
  BY DEF CallBecomes
<1>4. r \in S <=> Sends(chCall[r], pcs)
  BY <1>1, <1>3 DEF Sending, Sends
<1>5. r \in T <=> Sends(c, pcs)
  BY <1>2, <1>3, CallBecame DEF Sending, Sends
<1>6. \A y : y # r => (y \in T <=> y \in S)
  BY <1>1, <1>2, CallBecame DEF Sending
<1>7. IsFiniteSet(S)
  BY <1>1, SendingFinite
<1>8. QED
  BY <1>1, <1>2, <1>4, <1>5, <1>6, <1>7, Recount

LEMMA CutMoves ==
    ASSUME NEW r, NEW c, CallBecomes(r, c), chCall[r].pc # "cut"
    PROVE  /\ Cardinality(Cut(TRUE)) \in Nat
           /\ Sends(c, {"cut"}) /\ c.late =>
                Cardinality(Cut(TRUE)') = Cardinality(Cut(TRUE)) + 1
           /\ ~(Sends(c, {"cut"}) /\ c.late) =>
                Cardinality(Cut(TRUE)') = Cardinality(Cut(TRUE))
<1>1. PICK S : S = Cut(TRUE)
  OBVIOUS
<1>2. PICK T : T = Cut(TRUE)'
  OBVIOUS
<1>3. r \in ChannelCalls /\ c.late \in BOOLEAN /\ chCall[r].late \in BOOLEAN
  BY CallBecame DEF CallBecomes, ChannelCall
<1>4. r \notin S
  BY <1>1 DEF Cut, Sending
<1>5. r \in T <=> Sends(c, {"cut"}) /\ c.late
  BY <1>2, <1>3, CallBecame DEF Cut, Sending, Sends
<1>6. \A y : y # r => (y \in T <=> y \in S)
  BY <1>1, <1>2, CallBecame DEF Cut, Sending
<1>7. IsFiniteSet(S)
  BY <1>1, SendingFinite
<1>8. QED
  BY <1>1, <1>2, <1>4, <1>5, <1>6, <1>7, Recount

(* What the other requests read stays what it was, or has another version. *)
LEMMA OthersSound ==
    ASSUME ChannelInv, NEW r, NEW c, CallBecomes(r, c), ChannelCallSound(c)',
           channel'.version \in Nat, channel'.version >= channel.version,
           channel'.version = channel.version => channel'.lists = channel.lists
    PROVE  \A s \in ChannelCalls : ChannelCallSound(chCall[s])'
<1> SUFFICES ASSUME NEW s \in ChannelCalls
             PROVE  ChannelCallSound(chCall[s])'
  OBVIOUS
<1>1. CASE s = r
  BY <1>1, CallBecame
<1>2. CASE s # r
  <2>1. PICK d : d = chCall[s]
    OBVIOUS
  <2>2. chCall'[s] = d /\ ChannelCallSound(d) /\ d \in ChannelCall
    BY <1>2, <2>1, CallBecame DEF ChannelInv, ChannelTypeOK
  <2>3. d.version \in Nat /\ channel.version \in Nat
    BY <2>2 DEF ChannelCall, ChannelInv, ChannelTypeOK, ChannelDocument
  <2>4. ASSUME ReadSound(d)
        PROVE  ReadSound(d)'
    <3>1. d.version <= channel'.version
      BY <2>3, <2>4 DEF ReadSound
    <3>2. d.version = channel'.version => d.seen = channel'.lists[d.array]
      BY <2>3, <2>4 DEF ReadSound
    <3>3. QED
      BY <2>4, <3>1, <3>2 DEF ReadSound
  <2>5. ChannelCallSound(d)'
    BY <2>2, <2>4 DEF ChannelCallSound
  <2>6. QED
    BY <2>2, <2>5
<1>3. QED
  BY <1>1, <1>2

LEMMA PinsKept ==
    ASSUME ChannelInv, NEW r, NEW c, CallBecomes(r, c), chCall[r].pc # "done",
           ~(c.op = "add" /\ c.pc = "done"),
           channel'.lists = channel.lists, due' = due
    PROVE  PinLimitHeld'
<1>1. \A a : Late(a)' = Late(a)
  BY LateMoves
<1>2. QED
  BY <1>1 DEF ChannelInv, ChannelSound, PinLimitHeld

LEMMA SentKept ==
    ASSUME ChannelInv, NEW r, NEW c, CallBecomes(r, c), chCall[r].pc # "cut",
           c.pc \notin {"thread", "count", "cut"},
           chCall[r].pc \notin {"thread", "count"},
           channel'.messageCount = channel.messageCount,
           channel'.threadCount = channel.threadCount,
           channel'.roots = channel.roots, channel'.replies = channel.replies
    PROVE  SentCounted'
<1>1. /\ \A pcs \in SUBSET {"thread", "count", "cut"} :
           ~Sends(c, pcs) /\ ~Sends(chCall[r], pcs)
      /\ ~Sends(c, {"cut"})
  BY DEF Sends
<1>2. /\ Cardinality(Sending({"thread", "count", "cut"})')
           = Cardinality(Sending({"thread", "count", "cut"}))
      /\ Cardinality(Sending({"thread"})') = Cardinality(Sending({"thread"}))
  BY <1>1, SendingMoves
<1>3. Cardinality(Cut(TRUE)') = Cardinality(Cut(TRUE))
  BY <1>1, CutMoves
<1>4. QED
  BY <1>2, <1>3 DEF ChannelInv, ChannelSound, SentCounted

(* The steps.                                                              *)
LEMMA ChannelRead ==
    ASSUME ChannelInv, NEW r \in ChannelCalls, NEW op \in {"add", "take"},
           NEW a \in Arrays, NEW x \in Entries(a), CanBegin(r),
           op = "add" => channel.lists[a][x] = 0
             /\ (a = "pinnedMessages" => Size(channel.lists[a]) < PinLimit),
           op = "take" => channel.lists[a][x] > 0,
           Read(r, op, a, x), UNCHANGED <<channel, due>>
    PROVE  ChannelInv'
<1>1. PICK c : c = [chCall[r] EXCEPT !.op = op, !.pc = "save", !.array = a,
                      !.x = x, !.seen = channel.lists[a],
                      !.version = channel.version]
  OBVIOUS
<1>2. /\ channel.lists[a] \in [Entries(a) -> Nat]
      /\ channel.lists[a] \in Lists /\ channel.version \in Nat
  BY DEF ChannelInv, ChannelTypeOK, ChannelDocument, Lists
<1>3. /\ c \in ChannelCall /\ c.op = op /\ c.pc = "save" /\ c.array = a
      /\ c.x = x /\ c.seen = channel.lists[a] /\ c.version = channel.version
  <2>1. chCall[r] \in ChannelCall /\ x \in Joiners \cup Pinnable \cup {0}
    BY DEF ChannelInv, ChannelTypeOK, Entries
  <2>2. QED
    BY <1>1, <1>2, <2>1 DEF ChannelCall, ChannelPc
<1>4. chCall' = [chCall EXCEPT ![r] = c]
  BY <1>1 DEF Read
<1>5. CallBecomes(r, c)
  BY <1>3, <1>4 DEF CallBecomes, ChannelInv
<1>6. chCall[r].pc = "idle"
  BY DEF CanBegin
<1>7. ChannelTypeOK'
  BY <1>5, CallBecame DEF ChannelInv, ChannelTypeOK
<1>8. ReadSound(c)'
  <2>1. /\ c.op \in {"add", "take"} /\ c.x \in Entries(c.array)
        /\ c.seen \in [Entries(c.array) -> Nat]
        /\ c.version <= channel'.version /\ c.seen = channel'.lists[c.array]
    BY <1>2, <1>3
  <2>2. QED
    BY <1>3, <2>1 DEF ReadSound
<1>9. ChannelCallSound(c)'
  BY <1>3, <1>8 DEF ChannelCallSound
<1>10. \A s \in ChannelCalls : ChannelCallSound(chCall[s])'
  BY <1>2, <1>5, <1>9, OthersSound
<1>11. PinLimitHeld'
  BY <1>3, <1>5, <1>6, PinsKept
<1>12. SentCounted'
  BY <1>3, <1>5, <1>6, SentKept
<1>13. QED
  BY <1>7, <1>10, <1>11, <1>12 DEF ChannelInv, ChannelSound

LEMMA ChannelBeginAdd ==
    ASSUME ChannelInv, NEW r \in ChannelCalls, BeginAdd(r)
    PROVE  ChannelInv'
<1>1. PICK a \in Arrays : \E x \in Entries(a) :
         /\ channel.lists[a][x] = 0
         /\ a = "pinnedMessages" => Size(channel.lists[a]) < PinLimit
         /\ Read(r, "add", a, x)
  BY DEF BeginAdd
<1>2. PICK x \in Entries(a) :
         /\ channel.lists[a][x] = 0
         /\ a = "pinnedMessages" => Size(channel.lists[a]) < PinLimit
         /\ Read(r, "add", a, x)
  BY <1>1
<1>3. CanBegin(r) /\ UNCHANGED <<channel, due>>
  BY DEF BeginAdd
<1>4. QED
  BY <1>2, <1>3, ChannelRead

LEMMA ChannelBeginTake ==
    ASSUME ChannelInv, NEW r \in ChannelCalls, BeginTake(r)
    PROVE  ChannelInv'
<1>1. PICK a \in Arrays :
         \E x \in OfList(channel.lists[a]) : Read(r, "take", a, x)
  BY DEF BeginTake
<1>2. PICK x \in Entries(a) :
         channel.lists[a][x] > 0 /\ Read(r, "take", a, x)
  BY <1>1 DEF OfList, ChannelInv, ChannelTypeOK
<1>3. CanBegin(r) /\ UNCHANGED <<channel, due>>
  BY DEF BeginTake
<1>4. QED
  BY <1>2, <1>3, ChannelRead

(* What a save leaves: the types, and what the array and its due are.      *)
LEMMA Stored ==
    ASSUME ChannelInv, NEW c \in ChannelCall, c.op \in {"add", "take"},
           NEW list \in [Entries(c.array) -> Nat], Store(c, list),
           c.x \in Entries(c.array)
    PROVE  /\ channel' \in ChannelDocument
           /\ \A a \in Arrays : channel'.lists[a] \in [Entries(a) -> Nat]
           /\ DOMAIN due' = Arrays
           /\ channel'.version \in Nat /\ channel'.version > channel.version
           /\ channel'.lists[c.array] = list
           /\ due'[c.array] = IF c.op = "add" THEN due[c.array] \cup {c.x}
                              ELSE due[c.array] \ {c.x}
           /\ \A a \in Arrays : a # c.array =>
                channel'.lists[a] = channel.lists[a] /\ due'[a] = due[a]
           /\ channel'.messageCount = channel.messageCount
           /\ channel'.threadCount = channel.threadCount
           /\ channel'.roots = channel.roots
           /\ channel'.replies = channel.replies
<1>1. PICK lists : lists = [channel.lists EXCEPT ![c.array] = list]
  OBVIOUS
<1>2. PICK n : n = channel.version + 1
  OBVIOUS
<1>3. /\ channel \in ChannelDocument /\ DOMAIN due = Arrays
      /\ \A a \in Arrays : channel.lists[a] \in [Entries(a) -> Nat]
      /\ c.array \in Arrays
  BY DEF ChannelInv, ChannelTypeOK, ChannelCall
<1>4. channel.lists \in [Arrays -> Lists] /\ channel.version \in Nat
  BY <1>3 DEF ChannelDocument
<1>5. n \in Nat /\ n > channel.version
  BY <1>2, <1>4
<1>6. list \in Lists
  BY <1>3 DEF Lists
<1>7. /\ lists \in [Arrays -> Lists] /\ lists[c.array] = list
      /\ \A a \in Arrays : a # c.array => lists[a] = channel.lists[a]
  BY <1>1, <1>3, <1>4, <1>6
<1>8. \A a \in Arrays : lists[a] \in [Entries(a) -> Nat]
  BY <1>3, <1>7
<1>9. channel' = [channel EXCEPT !.lists = lists, !.version = n]
  BY <1>1, <1>2 DEF Store
<1>10. /\ channel' \in ChannelDocument /\ channel'.lists = lists
       /\ channel'.version = n
       /\ channel'.messageCount = channel.messageCount
       /\ channel'.threadCount = channel.threadCount
       /\ channel'.roots = channel.roots
       /\ channel'.replies = channel.replies
  BY <1>3, <1>5, <1>7, <1>9 DEF ChannelDocument
<1>11. /\ DOMAIN due' = Arrays
       /\ due'[c.array] = IF c.op = "add" THEN due[c.array] \cup {c.x}
                          ELSE due[c.array] \ {c.x}
       /\ \A a \in Arrays : a # c.array => due'[a] = due[a]
  BY <1>3 DEF Store
<1>12. QED
  BY <1>5, <1>7, <1>8, <1>10, <1>11

LEMMA ChannelSaveAdd ==
    ASSUME ChannelInv, NEW r \in ChannelCalls, SaveAdd(r)
    PROVE  ChannelInv'
<1>1. PICK c : c = chCall[r]
  OBVIOUS
<1>2. /\ c \in ChannelCall /\ c.pc = "save" /\ c.op = "add"
      /\ ReadSound(c) /\ c.x \in Entries(c.array) /\ c.array \in Arrays
  BY <1>1 DEF SaveAdd, ChannelInv, ChannelTypeOK, ChannelCallSound, ReadSound,
             ChannelCall
<1>3. PICK a \in Arrays : a = c.array
  BY <1>2
<1>4. PICK old \in [Entries(a) -> Nat] : old = channel.lists[a]
  BY <1>3 DEF ChannelInv, ChannelTypeOK
<1>5. PICK n \in Nat : n = old[c.x] + 1
  BY <1>2, <1>3, <1>4
<1>6. PICK list : list = [old EXCEPT ![c.x] = n]
  OBVIOUS
<1>7. /\ list \in [Entries(a) -> Nat] /\ Size(list) = Size(old) + 1
      /\ Size(old) \in Nat
  <2>1. PICK x \in Entries(a) : x = c.x
    BY <1>2, <1>3
  <2>2. /\ list \in [Entries(a) -> Nat] /\ list[x] = n /\ old[x] \in Nat
        /\ \A y \in Entries(a) \ {x} : list[y] = old[y]
    BY <1>6, <2>1
  <2>3. Size(list) = Size(old) - old[x] + list[x]
    BY <2>2, SizeChange
  <2>4. Size(old) \in Nat
    BY SizeNat
  <2>5. QED
    BY <1>5, <2>1, <2>2, <2>3, <2>4
<1>8. Store(c, list)
  BY <1>1, <1>3, <1>4, <1>5, <1>6 DEF SaveAdd
<1>9. PICK late \in BOOLEAN : late = (c.seen # old)
  OBVIOUS
<1>10. PICK d : d = [c EXCEPT !.pc = "done", !.late = late]
  OBVIOUS
<1>11. /\ d \in ChannelCall /\ d.pc = "done" /\ d.op = "add" /\ d.array = a
       /\ d.late = late
  BY <1>2, <1>3, <1>10 DEF ChannelCall, ChannelPc
<1>12. chCall' = [chCall EXCEPT ![r] = d]
  BY <1>1, <1>3, <1>4, <1>9, <1>10 DEF SaveAdd
<1>13. CallBecomes(r, d)
  BY <1>11, <1>12 DEF CallBecomes, ChannelInv
<1>14. /\ channel' \in ChannelDocument
       /\ \A b \in Arrays : channel'.lists[b] \in [Entries(b) -> Nat]
       /\ DOMAIN due' = Arrays
       /\ channel'.version \in Nat /\ channel'.version > channel.version
       /\ channel'.lists[a] = list /\ due'[a] = due[a] \cup {c.x}
       /\ \A b \in Arrays : b # a =>
            channel'.lists[b] = channel.lists[b] /\ due'[b] = due[b]
       /\ channel'.messageCount = channel.messageCount
       /\ channel'.threadCount = channel.threadCount
       /\ channel'.roots = channel.roots
       /\ channel'.replies = channel.replies
  BY <1>2, <1>3, <1>7, <1>8, Stored
<1>15. ChannelTypeOK'
  BY <1>13, <1>14, CallBecame DEF ChannelTypeOK
<1>16. channel.version \in Nat
  BY DEF ChannelInv, ChannelTypeOK, ChannelDocument
<1>17. ChannelCallSound(d)'
  BY <1>11 DEF ChannelCallSound
<1>18. \A s \in ChannelCalls : ChannelCallSound(chCall[s])'
  BY <1>13, <1>14, <1>16, <1>17, OthersSound
<1>19. SentCounted'
  BY <1>1, <1>2, <1>11, <1>13, <1>14, SentKept
<1>20. /\ Late(a) \in Nat
       /\ late => Late(a)' = Late(a) + 1
       /\ ~late => Late(a)' = Late(a)
       /\ \A b : b # a => Late(b)' = Late(b)
  BY <1>1, <1>2, <1>11, <1>13, LateMoves
<1>21. ~late => old[c.x] = 0 /\ (a = "pinnedMessages" => Size(old) < PinLimit)
  BY <1>2, <1>3, <1>9 DEF ReadSound
<1>22. /\ OfList(old) = due[a] /\ Size(old) <= Cardinality(due[a]) + Late(a)
       /\ a = "pinnedMessages" => Size(old) <= PinLimit + Late(a)
  BY <1>3, <1>4 DEF ChannelInv, ChannelSound, PinLimitHeld
<1>23. OfList(list) = due[a] \cup {c.x}
  <2>1. DOMAIN old = Entries(a) /\ DOMAIN list = Entries(a)
    BY <1>7
  <2>2. /\ list[c.x] > 0 /\ c.x \in Entries(a)
        /\ \A y \in Entries(a) : y # c.x => list[y] = old[y]
    BY <1>2, <1>3, <1>5, <1>6
  <2>3. OfList(list) = OfList(old) \cup {c.x}
    BY <2>1, <2>2 DEF OfList
  <2>4. QED
    BY <1>22, <2>3
<1>24. /\ Cardinality(due[a]) \in Nat
       /\ Cardinality(due[a] \cup {c.x}) =
            IF c.x \in due[a] THEN Cardinality(due[a]) ELSE Cardinality(due[a]) + 1
  <2>1. IsFiniteSet(due[a]) /\ Cardinality(due[a]) \in Nat
    BY <1>4, <1>22, DueFinite DEF ChannelInv
  <2>2. QED
    BY <2>1, FS_AddElement
<1>25. ~late => c.x \notin due[a]
  BY <1>21, <1>22 DEF OfList
<1>26. Size(list) <= Cardinality(due[a] \cup {c.x}) + Late(a)'
  <2>1. CASE late
    BY <1>7, <1>20, <1>22, <1>24, <2>1
  <2>2. CASE ~late
    BY <1>7, <1>20, <1>22, <1>24, <1>25, <2>2
  <2>3. QED
    BY <2>1, <2>2
<1>27. a = "pinnedMessages" => Size(list) <= PinLimit + Late(a)'
  <2>1. PinLimit \in Nat
    BY ChannelAssumption
  <2>2. CASE late
    BY <1>7, <1>20, <1>22, <2>1, <2>2
  <2>3. CASE ~late
    BY <1>7, <1>20, <1>21, <2>1, <2>3
  <2>4. QED
    BY <2>2, <2>3
<1>28. PinLimitHeld'
  <2>1. ASSUME NEW b \in Arrays
        PROVE  /\ Size(channel'.lists[b]) <= Cardinality(due'[b]) + Late(b)'
               /\ OfList(channel'.lists[b]) = due'[b]
               /\ b = "pinnedMessages" =>
                    Size(channel'.lists[b]) <= PinLimit + Late(b)'
    <3>1. CASE b = a
      BY <1>14, <1>23, <1>26, <1>27, <3>1
    <3>2. CASE b # a
      BY <1>14, <1>20, <3>2 DEF ChannelInv, ChannelSound, PinLimitHeld
    <3>3. QED
      BY <3>1, <3>2
  <2>2. "pinnedMessages" \in Arrays
    BY DEF Arrays
  <2>3. QED
    BY <2>1, <2>2 DEF PinLimitHeld
<1>29. QED
  BY <1>15, <1>18, <1>19, <1>28 DEF ChannelInv, ChannelSound

LEMMA ChannelMoves ==
    ASSUME ChannelInv, NEW r \in ChannelCalls, NEW pc \in ChannelPc,
           ChannelAt(r, pc)
    PROVE  \E c \in ChannelCall :
             /\ CallBecomes(r, c) /\ c = [chCall[r] EXCEPT !.pc = pc]
             /\ c.pc = pc /\ c.op = chCall[r].op
<1>1. PICK c : c = [chCall[r] EXCEPT !.pc = pc]
  OBVIOUS
<1>2. chCall[r] \in ChannelCall
  BY DEF ChannelInv, ChannelTypeOK
<1>3. c \in ChannelCall /\ c.pc = pc /\ c.op = chCall[r].op
  BY <1>1, <1>2 DEF ChannelCall
<1>4. chCall' = [chCall EXCEPT ![r] = c]
  BY <1>1 DEF ChannelAt
<1>5. QED
  BY <1>1, <1>3, <1>4 DEF CallBecomes, ChannelInv

LEMMA ChannelSaveTake ==
    ASSUME ChannelInv, NEW r \in ChannelCalls, SaveTake(r)
    PROVE  ChannelInv'
<1>1. PICK c : c = chCall[r]
  OBVIOUS
<1>2. /\ c \in ChannelCall /\ c.pc = "save" /\ c.op = "take"
      /\ ReadSound(c) /\ c.x \in Entries(c.array) /\ c.array \in Arrays
  BY <1>1 DEF SaveTake, ChannelInv, ChannelTypeOK, ChannelCallSound, ReadSound,
             ChannelCall
<1>3. PICK a \in Arrays : a = c.array
  BY <1>2
<1>4. PICK old \in [Entries(a) -> Nat] : old = channel.lists[a]
  BY <1>3 DEF ChannelInv, ChannelTypeOK
<1>5. CASE c.version = channel.version
  <2>1. c.seen = old /\ old[c.x] > 0
    BY <1>2, <1>3, <1>4, <1>5 DEF ReadSound
  <2>2. Store(c, Without(c)) /\ ChannelAt(r, "done")
    BY <1>1, <1>5 DEF SaveTake
  <2>3. PICK list : list = [old EXCEPT ![c.x] = 0]
    OBVIOUS
  <2>4. Store(c, list)
    BY <2>1, <2>2, <2>3 DEF Without
  <2>5. /\ list \in [Entries(a) -> Nat] /\ Size(list) < Size(old)
        /\ Size(old) \in Nat /\ Size(list) \in Nat
    <3>1. PICK x \in Entries(a) : x = c.x
      BY <1>2, <1>3
    <3>2. /\ list \in [Entries(a) -> Nat] /\ list[x] = 0 /\ old[x] \in Nat
          /\ \A y \in Entries(a) \ {x} : list[y] = old[y]
      BY <2>3, <3>1
    <3>3. Size(list) = Size(old) - old[x] + list[x]
      BY <3>2, SizeChange
    <3>4. Size(old) \in Nat /\ Size(list) \in Nat
      BY <3>2, SizeNat
    <3>5. QED
      BY <2>1, <3>1, <3>2, <3>3, <3>4
  <2>6. PICK d \in ChannelCall : /\ CallBecomes(r, d) /\ d.pc = "done" /\ d.op = "take"
    BY <1>1, <1>2, <2>2, ChannelMoves DEF ChannelPc
  <2>7. /\ channel' \in ChannelDocument
        /\ \A b \in Arrays : channel'.lists[b] \in [Entries(b) -> Nat]
        /\ DOMAIN due' = Arrays
        /\ channel'.version \in Nat /\ channel'.version > channel.version
        /\ channel'.lists[a] = list /\ due'[a] = due[a] \ {c.x}
        /\ \A b \in Arrays : b # a =>
             channel'.lists[b] = channel.lists[b] /\ due'[b] = due[b]
        /\ channel'.messageCount = channel.messageCount
        /\ channel'.threadCount = channel.threadCount
        /\ channel'.roots = channel.roots
        /\ channel'.replies = channel.replies
    BY <1>2, <1>3, <2>4, <2>5, Stored
  <2>8. ChannelTypeOK'
    BY <2>6, <2>7, CallBecame DEF ChannelTypeOK
  <2>9. channel.version \in Nat
    BY DEF ChannelInv, ChannelTypeOK, ChannelDocument
  <2>10. ChannelCallSound(d)'
    BY <2>6 DEF ChannelCallSound
  <2>11. \A s \in ChannelCalls : ChannelCallSound(chCall[s])'
    BY <2>6, <2>7, <2>9, <2>10, OthersSound
  <2>12. SentCounted'
    BY <1>1, <1>2, <2>6, <2>7, SentKept
  <2>13. \A b : Late(b)' = Late(b) /\ Late(b) \in Nat
    BY <1>1, <1>2, <2>6, LateMoves
  <2>14. /\ OfList(old) = due[a] /\ Size(old) <= Cardinality(due[a]) + Late(a)
         /\ a = "pinnedMessages" => Size(old) <= PinLimit + Late(a)
    BY <1>3, <1>4 DEF ChannelInv, ChannelSound, PinLimitHeld
  <2>15. OfList(list) = due[a] \ {c.x}
    <3>1. DOMAIN old = Entries(a) /\ DOMAIN list = Entries(a)
      BY <2>5
    <3>2. /\ list[c.x] = 0 /\ c.x \in Entries(a)
          /\ \A y \in Entries(a) : y # c.x => list[y] = old[y]
      BY <1>2, <1>3, <2>3
    <3>3. OfList(list) = OfList(old) \ {c.x}
      BY <3>1, <3>2 DEF OfList
    <3>4. QED
      BY <2>14, <3>3
  <2>16. /\ Cardinality(due[a]) \in Nat
         /\ Cardinality(due[a] \ {c.x}) >= Cardinality(due[a]) - 1
    <3>1. IsFiniteSet(due[a]) /\ Cardinality(due[a]) \in Nat
      BY <1>4, <2>14, DueFinite DEF ChannelInv
    <3>2. Cardinality(due[a] \ {c.x}) =
            IF c.x \in due[a] THEN Cardinality(due[a]) - 1 ELSE Cardinality(due[a])
      BY <3>1, FS_RemoveElement
    <3>3. QED
      BY <3>1, <3>2
  <2>17. Cardinality(due[a] \ {c.x}) \in Int
    <3>1. IsFiniteSet(due[a])
      BY <1>4, <2>14, DueFinite DEF ChannelInv
    <3>2. IsFiniteSet(due[a] \ {c.x})
      BY <3>1, FS_RemoveElement
    <3>3. QED
      BY <3>2, FS_CardinalityType
  <2>18. Size(list) <= Cardinality(due[a] \ {c.x}) + Late(a)
    BY <2>5, <2>13, <2>14, <2>16, <2>17
  <2>19. a = "pinnedMessages" => Size(list) <= PinLimit + Late(a)
    BY <2>5, <2>13, <2>14, ChannelAssumption
  <2>20. PinLimitHeld'
    <3>1. ASSUME NEW b \in Arrays
          PROVE  /\ Size(channel'.lists[b]) <= Cardinality(due'[b]) + Late(b)'
                 /\ OfList(channel'.lists[b]) = due'[b]
                 /\ b = "pinnedMessages" =>
                      Size(channel'.lists[b]) <= PinLimit + Late(b)'
      <4>1. CASE b = a
        BY <2>7, <2>13, <2>15, <2>18, <2>19, <4>1
      <4>2. CASE b # a
        BY <2>7, <2>13, <4>2 DEF ChannelInv, ChannelSound, PinLimitHeld
      <4>3. QED
        BY <4>1, <4>2
    <3>2. "pinnedMessages" \in Arrays
      BY DEF Arrays
    <3>3. QED
      BY <3>1, <3>2 DEF PinLimitHeld
  <2>21. QED
    BY <2>8, <2>11, <2>12, <2>20 DEF ChannelInv, ChannelSound
<1>6. CASE c.version # channel.version
  <2>1. ChannelAt(r, "failed") /\ UNCHANGED <<channel, due>>
    BY <1>1, <1>6 DEF SaveTake
  <2>2. PICK d \in ChannelCall : /\ CallBecomes(r, d) /\ d.pc = "failed"
    BY <2>1, ChannelMoves DEF ChannelPc
  <2>3. ChannelTypeOK'
    BY <2>1, <2>2, CallBecame DEF ChannelInv, ChannelTypeOK
  <2>4. ChannelCallSound(d)' /\ channel.version \in Nat
    BY <2>2 DEF ChannelCallSound, ChannelInv, ChannelTypeOK, ChannelDocument
  <2>5. \A s \in ChannelCalls : ChannelCallSound(chCall[s])'
    BY <2>1, <2>2, <2>4, OthersSound
  <2>6. PinLimitHeld'
    BY <1>1, <1>2, <2>1, <2>2, PinsKept
  <2>7. SentCounted'
    BY <1>1, <1>2, <2>1, <2>2, SentKept
  <2>8. QED
    BY <2>3, <2>5, <2>6, <2>7 DEF ChannelInv, ChannelSound
<1>7. QED
  BY <1>5, <1>6

LEMMA ChannelArchive ==
    ASSUME ChannelInv, Archive
    PROVE  ChannelInv'
<1>1. channel' = [channel EXCEPT !.isArchived = TRUE]
  BY DEF Archive
<1>2. channel \in ChannelDocument
  BY DEF ChannelInv, ChannelTypeOK
<1>3. /\ channel' \in ChannelDocument /\ channel'.lists = channel.lists
      /\ channel'.version = channel.version
      /\ channel'.messageCount = channel.messageCount
      /\ channel'.threadCount = channel.threadCount
      /\ channel'.roots = channel.roots
      /\ channel'.replies = channel.replies
  BY <1>1, <1>2 DEF ChannelDocument
<1>4. due' = due /\ chCall' = chCall
  BY DEF Archive
<1>5. ChannelTypeOK'
  BY <1>3, <1>4 DEF ChannelInv, ChannelTypeOK
<1>6. \A s \in ChannelCalls : ChannelCallSound(chCall[s])'
  <2>1. \A s \in ChannelCalls : ChannelCallSound(chCall[s])
    BY DEF ChannelInv
  <2>2. QED
    BY <1>3, <1>4, <2>1 DEF ChannelCallSound, ReadSound
<1>7. PinLimitHeld'
  BY <1>3, <1>4 DEF ChannelInv, ChannelSound, PinLimitHeld, Late
<1>8. SentCounted'
  BY <1>3, <1>4 DEF ChannelInv, ChannelSound, SentCounted, Sending, Cut
<1>9. QED
  BY <1>5, <1>6, <1>7, <1>8 DEF ChannelInv, ChannelSound

(* The steps of a sendMessage leave the arrays and their version alone.    *)
LEMMA ChannelSendStep ==
    ASSUME ChannelInv, NEW r, NEW c, CallBecomes(r, c), ChannelCallSound(c)',
           chCall[r].pc \notin {"save", "done"}, c.pc \notin {"save", "done"},
           channel' \in ChannelDocument, channel'.lists = channel.lists,
           channel'.version = channel.version, due' = due,
           SentCounted'
    PROVE  ChannelInv'
<1>1. ChannelTypeOK'
  BY CallBecame DEF ChannelInv, ChannelTypeOK
<1>2. channel.version \in Nat
  BY DEF ChannelInv, ChannelTypeOK, ChannelDocument
<1>3. \A s \in ChannelCalls : ChannelCallSound(chCall[s])'
  BY <1>2, OthersSound
<1>4. PinLimitHeld'
  BY PinsKept
<1>5. QED
  BY <1>1, <1>3, <1>4 DEF ChannelInv, ChannelSound

LEMMA ChannelBeginSend ==
    ASSUME ChannelInv, NEW r \in ChannelCalls, BeginSend(r)
    PROVE  ChannelInv'
<1>1. PICK op \in {"root", "reply"} :
        chCall' = [chCall EXCEPT ![r] =
                     [chCall[r] EXCEPT !.op = op, !.pc = "create"]]
  BY DEF BeginSend
<1>2. PICK c : c = [chCall[r] EXCEPT !.op = op, !.pc = "create"]
  OBVIOUS
<1>3. chCall[r] \in ChannelCall /\ chCall[r].pc = "idle"
  BY DEF ChannelInv, ChannelTypeOK, BeginSend, CanBegin
<1>4. c \in ChannelCall /\ c.op = op /\ c.pc = "create"
  BY <1>2, <1>3 DEF ChannelCall, ChannelPc
<1>5. CallBecomes(r, c)
  BY <1>1, <1>2, <1>4 DEF CallBecomes, ChannelInv
<1>6. channel' = channel /\ due' = due
  BY DEF BeginSend
<1>7. ChannelCallSound(c)'
  BY <1>4 DEF ChannelCallSound
<1>8. SentCounted'
  BY <1>3, <1>4, <1>5, <1>6, SentKept
<1>9. channel \in ChannelDocument
  BY DEF ChannelInv, ChannelTypeOK
<1>10. QED
  BY <1>3, <1>4, <1>5, <1>6, <1>7, <1>8, <1>9, ChannelSendStep

LEMMA ChannelCreateMessage ==
    ASSUME ChannelInv, NEW r \in ChannelCalls, CreateMessage(r)
    PROVE  ChannelInv'
<1>1. PICK op : op = chCall[r].op
  OBVIOUS
<1>2. op \in {"root", "reply"} /\ chCall[r].pc = "create"
  BY <1>1 DEF CreateMessage, ChannelInv, ChannelCallSound
<1>3. PICK pc \in {"thread", "count"} :
        /\ ChannelAt(r, pc) /\ (pc = "thread" <=> op = "reply")
  BY <1>1, <1>2 DEF CreateMessage
<1>4. PICK c \in ChannelCall : CallBecomes(r, c) /\ c.pc = pc /\ c.op = op
  BY <1>1, <1>3, ChannelMoves DEF ChannelPc
<1>5. channel \in ChannelDocument
  BY DEF ChannelInv, ChannelTypeOK
<1>6. channel.roots \in Int /\ channel.replies \in Int
  BY <1>5 DEF ChannelDocument
<1>7. PICK i \in Int, k \in Int :
        /\ op = "root" => i = channel.roots + 1 /\ k = channel.replies
        /\ op = "reply" => i = channel.roots /\ k = channel.replies + 1
  BY <1>2, <1>6
<1>8. /\ channel' \in ChannelDocument /\ channel'.lists = channel.lists
      /\ channel'.version = channel.version
      /\ channel'.messageCount = channel.messageCount
      /\ channel'.threadCount = channel.threadCount
      /\ channel'.roots = i /\ channel'.replies = k
  <2>1. CASE op = "root"
    <3>1. channel' = [channel EXCEPT !.roots = i]
      BY <1>1, <1>7, <2>1 DEF CreateMessage
    <3>2. QED
      BY <1>5, <1>7, <2>1, <3>1 DEF ChannelDocument
  <2>2. CASE op = "reply"
    <3>1. channel' = [channel EXCEPT !.replies = k]
      BY <1>1, <1>7, <2>2 DEF CreateMessage
    <3>2. QED
      BY <1>5, <1>7, <2>2, <3>1 DEF ChannelDocument
  <2>3. QED
    BY <1>2, <2>1, <2>2
<1>9. ChannelCallSound(c)'
  BY <1>2, <1>3, <1>4 DEF ChannelCallSound
<1>10. PICK S, T, cut, cutNext :
         /\ S = {"thread", "count", "cut"} /\ T = {"thread"}
         /\ cut = Cardinality(Cut(TRUE)) /\ cutNext = Cardinality(Cut(TRUE)')
  OBVIOUS
<1>11. /\ Sends(c, S) /\ ~Sends(chCall[r], S) /\ ~Sends(chCall[r], T)
       /\ Sends(c, T) <=> op = "reply"
       /\ ~Sends(c, {"cut"})
  BY <1>2, <1>3, <1>4, <1>10 DEF Sends
<1>12. /\ Cardinality(Sending(S)') = Cardinality(Sending(S)) + 1
       /\ Cardinality(Sending(S)) \in Nat /\ Cardinality(Sending(T)) \in Nat
       /\ op = "reply" => Cardinality(Sending(T)') = Cardinality(Sending(T)) + 1
       /\ op = "root" => Cardinality(Sending(T)') = Cardinality(Sending(T))
  BY <1>4, <1>11, SendingMoves
<1>13. /\ cutNext = cut
       /\ cut \in Nat
  BY <1>2, <1>4, <1>11, <1>10, CutMoves
<1>14. /\ channel.messageCount = channel.roots - 1 + channel.replies
                                   - Cardinality(Sending(S))
       /\ channel.threadCount = channel.replies - Cardinality(Sending(T))
                                  - cut
  BY <1>10 DEF ChannelInv, ChannelSound, SentCounted
<1>15. /\ channel.messageCount = i - 1 + k - Cardinality(Sending(S)')
       /\ channel.threadCount = k - Cardinality(Sending(T)')
                                  - cutNext
  <2>1. CASE op = "root"
    BY <1>6, <1>7, <1>12, <1>13, <1>14, <2>1
  <2>2. CASE op = "reply"
    BY <1>6, <1>7, <1>12, <1>13, <1>14, <2>2
  <2>3. QED
    BY <1>2, <2>1, <2>2
<1>16. SentCounted'
  BY <1>8, <1>10, <1>15 DEF SentCounted
<1>17. due' = due
  BY DEF CreateMessage
<1>18. QED
  BY <1>2, <1>3, <1>4, <1>8, <1>9, <1>16, <1>17, ChannelSendStep

LEMMA ChannelCountThread ==
    ASSUME ChannelInv, NEW r \in ChannelCalls, CountThread(r)
    PROVE  ChannelInv'
<1>1. chCall[r].op = "reply" /\ chCall[r].pc = "thread"
  BY DEF CountThread, ChannelInv, ChannelCallSound
<1>2. PICK c \in ChannelCall : CallBecomes(r, c) /\ c.pc = "count" /\ c.op = "reply"
  BY <1>1, ChannelMoves DEF CountThread, ChannelPc
<1>3. channel \in ChannelDocument
  BY DEF ChannelInv, ChannelTypeOK
<1>4. /\ channel.roots \in Int /\ channel.replies \in Int
      /\ channel.threadCount \in Int
  BY <1>3 DEF ChannelDocument
<1>5. PICK n \in Int : n = channel.threadCount + 1
  BY <1>4
<1>6. channel' = [channel EXCEPT !.threadCount = n]
  BY <1>5 DEF CountThread
<1>7. /\ channel' \in ChannelDocument /\ channel'.lists = channel.lists
      /\ channel'.version = channel.version
      /\ channel'.messageCount = channel.messageCount
      /\ channel'.threadCount = n
      /\ channel'.roots = channel.roots /\ channel'.replies = channel.replies
  BY <1>3, <1>6 DEF ChannelDocument
<1>8. ChannelCallSound(c)'
  BY <1>2 DEF ChannelCallSound
<1>9. PICK S, T, cut, cutNext :
         /\ S = {"thread", "count", "cut"} /\ T = {"thread"}
         /\ cut = Cardinality(Cut(TRUE)) /\ cutNext = Cardinality(Cut(TRUE)')
  OBVIOUS
<1>10. /\ Sends(c, S) /\ Sends(chCall[r], S) /\ Sends(chCall[r], T)
       /\ ~Sends(c, T) /\ ~Sends(c, {"cut"})
  BY <1>1, <1>2, <1>9 DEF Sends
<1>11. /\ Cardinality(Sending(S)') = Cardinality(Sending(S))
       /\ Cardinality(Sending(T)') = Cardinality(Sending(T)) - 1
       /\ Cardinality(Sending(T)) \in Nat
  BY <1>2, <1>10, SendingMoves
<1>12. /\ cutNext = cut
       /\ cut \in Nat
  BY <1>1, <1>2, <1>10, <1>9, CutMoves
<1>13. /\ channel.messageCount = channel.roots - 1 + channel.replies
                                   - Cardinality(Sending(S))
       /\ channel.threadCount = channel.replies - Cardinality(Sending(T))
                                  - cut
  BY <1>9 DEF ChannelInv, ChannelSound, SentCounted
<1>14. n = channel.replies - Cardinality(Sending(T)') - cutNext
  BY <1>4, <1>5, <1>11, <1>12, <1>13
<1>15. SentCounted'
  BY <1>7, <1>9, <1>11, <1>13, <1>14 DEF SentCounted
<1>16. due' = due
  BY DEF CountThread
<1>17. QED
  BY <1>1, <1>2, <1>7, <1>8, <1>15, <1>16, ChannelSendStep

LEMMA ChannelCountOnChannel ==
    ASSUME ChannelInv, NEW r \in ChannelCalls, CountOnChannel(r)
    PROVE  ChannelInv'
<1>1. chCall[r].op \in {"root", "reply"} /\ chCall[r].pc = "count"
  BY DEF CountOnChannel, ChannelInv, ChannelCallSound
<1>2. PICK c \in ChannelCall : CallBecomes(r, c) /\ c.pc = "sent"
  BY ChannelMoves DEF CountOnChannel, ChannelPc
<1>3. channel \in ChannelDocument
  BY DEF ChannelInv, ChannelTypeOK
<1>4. /\ channel.roots \in Int /\ channel.replies \in Int
      /\ channel.messageCount \in Int
  BY <1>3 DEF ChannelDocument
<1>5. PICK n \in Int : n = channel.messageCount + 1
  BY <1>4
<1>6. channel' = [channel EXCEPT !.messageCount = n]
  BY <1>5 DEF CountOnChannel
<1>7. /\ channel' \in ChannelDocument /\ channel'.lists = channel.lists
      /\ channel'.version = channel.version
      /\ channel'.messageCount = n
      /\ channel'.threadCount = channel.threadCount
      /\ channel'.roots = channel.roots /\ channel'.replies = channel.replies
  BY <1>3, <1>6 DEF ChannelDocument
<1>8. ChannelCallSound(c)'
  BY <1>2 DEF ChannelCallSound
<1>9. PICK S, T, cut, cutNext :
         /\ S = {"thread", "count", "cut"} /\ T = {"thread"}
         /\ cut = Cardinality(Cut(TRUE)) /\ cutNext = Cardinality(Cut(TRUE)')
  OBVIOUS
<1>10. /\ ~Sends(c, S) /\ Sends(chCall[r], S) /\ ~Sends(chCall[r], T)
       /\ ~Sends(c, T) /\ ~Sends(c, {"cut"})
  BY <1>1, <1>2, <1>9 DEF Sends
<1>11. /\ Cardinality(Sending(S)') = Cardinality(Sending(S)) - 1
       /\ Cardinality(Sending(T)') = Cardinality(Sending(T))
       /\ Cardinality(Sending(S)) \in Nat
  BY <1>2, <1>10, SendingMoves
<1>12. cutNext = cut
  BY <1>1, <1>2, <1>10, <1>9, CutMoves
<1>13. /\ channel.messageCount = channel.roots - 1 + channel.replies
                                   - Cardinality(Sending(S))
       /\ channel.threadCount = channel.replies - Cardinality(Sending(T))
                                  - cut
  BY <1>9 DEF ChannelInv, ChannelSound, SentCounted
<1>14. n = channel.roots - 1 + channel.replies - Cardinality(Sending(S)')
  BY <1>4, <1>5, <1>11, <1>13
<1>15. SentCounted'
  BY <1>7, <1>9, <1>11, <1>12, <1>13, <1>14 DEF SentCounted
<1>16. due' = due
  BY DEF CountOnChannel
<1>17. QED
  BY <1>1, <1>2, <1>7, <1>8, <1>15, <1>16, ChannelSendStep

LEMMA ChannelCutSend ==
    ASSUME ChannelInv, NEW r \in ChannelCalls, CutSend(r)
    PROVE  ChannelInv'
<1>1. /\ chCall[r].pc \in {"thread", "count"}
      /\ chCall[r].op \in {"root", "reply"} /\ chCall[r] \in ChannelCall
      /\ chCall[r].pc = "thread" => chCall[r].op = "reply"
  BY DEF CutSend, ChannelInv, ChannelTypeOK, ChannelCallSound
<1>2. PICK late \in BOOLEAN : late = (chCall[r].pc = "thread")
  OBVIOUS
<1>3. PICK c : c = [chCall[r] EXCEPT !.pc = "cut", !.late = late]
  OBVIOUS
<1>4. /\ c \in ChannelCall /\ c.pc = "cut" /\ c.op = chCall[r].op
      /\ c.late = late
  BY <1>1, <1>3 DEF ChannelCall, ChannelPc
<1>5. chCall' = [chCall EXCEPT ![r] = c]
  BY <1>2, <1>3 DEF CutSend
<1>6. CallBecomes(r, c)
  BY <1>4, <1>5 DEF CallBecomes, ChannelInv
<1>7. channel' = channel /\ due' = due /\ channel \in ChannelDocument
  BY DEF CutSend, ChannelInv, ChannelTypeOK
<1>8. ChannelCallSound(c)'
  BY <1>4 DEF ChannelCallSound
<1>9. PICK S, T, cut, cutNext :
         /\ S = {"thread", "count", "cut"} /\ T = {"thread"}
         /\ cut = Cardinality(Cut(TRUE)) /\ cutNext = Cardinality(Cut(TRUE)')
  OBVIOUS
<1>10. /\ Sends(c, S) /\ Sends(chCall[r], S) /\ ~Sends(c, T)
       /\ Sends(chCall[r], T) <=> late
       /\ Sends(c, {"cut"})
  BY <1>1, <1>2, <1>4, <1>9 DEF Sends
<1>11. /\ Cardinality(Sending(S)') = Cardinality(Sending(S))
       /\ late => Cardinality(Sending(T)') = Cardinality(Sending(T)) - 1
       /\ ~late => Cardinality(Sending(T)') = Cardinality(Sending(T))
       /\ Cardinality(Sending(T)) \in Nat
  BY <1>6, <1>10, SendingMoves
<1>12. /\ late => cutNext = cut + 1
       /\ ~late => cutNext = cut
       /\ cut \in Nat
  BY <1>1, <1>4, <1>6, <1>10, <1>9, CutMoves
<1>13. /\ channel.messageCount = channel.roots - 1 + channel.replies
                                   - Cardinality(Sending(S))
       /\ channel.threadCount = channel.replies - Cardinality(Sending(T))
                                  - cut
  BY <1>9 DEF ChannelInv, ChannelSound, SentCounted
<1>14. channel.threadCount = channel.replies - Cardinality(Sending(T)')
                               - cutNext
  <2>1. channel.replies \in Int
    BY <1>7 DEF ChannelDocument
  <2>2. CASE late
    BY <1>11, <1>12, <1>13, <2>1, <2>2
  <2>3. CASE ~late
    BY <1>11, <1>12, <1>13, <2>1, <2>3
  <2>4. QED
    BY <2>2, <2>3
<1>15. SentCounted'
  BY <1>7, <1>9, <1>11, <1>13, <1>14 DEF SentCounted
<1>16. QED
  BY <1>1, <1>4, <1>6, <1>7, <1>8, <1>15, ChannelSendStep

LEMMA ChannelIdle ==
    ASSUME ChannelInv, UNCHANGED channelVars
    PROVE  ChannelInv'
<1>1. channel' = channel /\ due' = due /\ chCall' = chCall
  BY DEF channelVars
<1>2. ChannelTypeOK'
  BY <1>1 DEF ChannelInv, ChannelTypeOK
<1>3. \A s \in ChannelCalls : ChannelCallSound(chCall[s])'
  BY <1>1 DEF ChannelInv, ChannelCallSound, ReadSound
<1>4. PinLimitHeld'
  BY <1>1 DEF ChannelInv, ChannelSound, PinLimitHeld, Late
<1>5. SentCounted'
  BY <1>1 DEF ChannelInv, ChannelSound, SentCounted, Sending, Cut
<1>6. QED
  BY <1>2, <1>3, <1>4, <1>5 DEF ChannelInv, ChannelSound

(* What a channel document holds is what its requests made of it, for any  *)
(* number of requests, users and messages: more than PinLimit pins, or an  *)
(* entry twice, come only of requests that saved over a changed array, and *)
(* the counts lack only what is between its writes or was stopped there.   *)
(* (joinChannel, leaveChannel, pinMessage, unpinMessage, sendMessage.)     *)
THEOREM ChannelIsSound == ChannelsSpec => []ChannelSound
<1>1. ChannelsInit => ChannelInv
  BY ChannelInitial
<1>2. ChannelInv /\ [ChannelsNext]_channelVars => ChannelInv'
  BY ChannelIdle, ChannelArchive, ChannelBeginAdd, ChannelBeginTake,
     ChannelSaveAdd, ChannelSaveTake, ChannelBeginSend, ChannelCreateMessage,
     ChannelCountThread, ChannelCountOnChannel, ChannelCutSend
     DEF ChannelsNext
<1>3. ChannelInv => ChannelSound
  BY DEF ChannelInv
<1>4. QED
  BY <1>1, <1>2, <1>3, PTL DEF ChannelsSpec

-----------------------------------------------------------------------------
(* Messages: what a document holds of its requests, and what is shown.     *)

MessagePc == {"idle", "save", "tell", "failed", "done"}

MessageOps == {"none", "edit", "delete", "react", "unreact", "bookmark"}

Counts == [Readers -> Nat]

Reactions == Seq([userIds : Counts, count : Int])

MessageDocument ==
    [content : Int, isDeleted : BOOLEAN, editHistory : Seq(Int),
     reactions : Reactions, bookmarkedBy : Counts, version : Nat]

MessageCall ==
    [op : MessageOps, pc : MessagePc, by : Readers \cup {IdleMessageCall.by},
     doc : MessageDocument \cup {0}, overDeleted : BOOLEAN,
     overNewer : BOOLEAN, crossed : BOOLEAN]

ShownMessage ==
    [content : Int, isDeleted : BOOLEAN, reactions : Reactions,
     text : MessageCalls \cup {0}, marks : MessageCalls \cup {0}]

MessageTypeOK ==
    /\ message \in MessageDocument
    /\ msgCall \in [MessageCalls -> MessageCall]
    /\ shown \in ShownMessage

(* What a request read is there still, if the version is; and it allowed   *)
(* what the request is about to save.                                      *)
HoldsRead(c) ==
    /\ c.doc \in MessageDocument /\ c.by \in Readers
    /\ c.doc.version <= message.version
    /\ c.doc.version = message.version =>
         /\ c.doc.editHistory = message.editHistory
         /\ c.doc.reactions = message.reactions
    /\ c.op = "react" /\ c.doc.reactions # <<>> =>
         ~Mine(c.doc.reactions[1], c.by)
    /\ c.op = "unreact" => c.doc.reactions # <<>>

(* What a request that no other crossed has to tell is what is stored.     *)
HoldsNews(r, c) ==
    /\ c.doc \in MessageDocument
    /\ c.op \in {"edit", "delete", "react", "unreact"}
    /\ ~c.crossed =>
         /\ c.op = "edit" =>
              message.content = r /\ (message.isDeleted => c.overDeleted)
         /\ c.op = "delete" => message.isDeleted
         /\ c.op # "delete" /\ ~c.overNewer =>
              c.doc.reactions = message.reactions

MessageCallSound(r, c) ==
    /\ c.pc = "save" => HoldsRead(c)
    /\ c.pc = "tell" => HoldsNews(r, c)

(* Who has yet to tell of the text, and of the reactions.                  *)
NewText == {r \in MessageCalls :
              msgCall[r].pc = "tell" /\ msgCall[r].op \in {"edit", "delete"}}
NewMarks == {r \in MessageCalls :
               msgCall[r].pc = "tell" /\ msgCall[r].op # "delete"}

Told(r) == r = 0 \/ msgCall[r].pc = "done"
Uncrossed(r) == r = 0 \/ ~msgCall[r].crossed

TextShown ==
    NewText = {} /\ Uncrossed(shown.text) =>
        /\ shown.isDeleted = message.isDeleted
             \/ (shown.text # 0 /\ msgCall[shown.text].overDeleted)
        /\ message.isDeleted \/ shown.content = message.content

MarksShown ==
    /\ NewMarks = {} /\ Uncrossed(shown.marks)
    /\ shown.marks = 0 \/ ~msgCall[shown.marks].overNewer
    => shown.reactions = message.reactions

MessageInv ==
    /\ MessageTypeOK
    /\ \A r \in MessageCalls : MessageCallSound(r, msgCall[r])
    /\ TombstoneHolds /\ ReactionsCounted
    /\ Told(shown.text) /\ Told(shown.marks) /\ TextShown /\ MarksShown


(* The entries of the emoji, and who is in one.                            *)
Counted(reactions) ==
    \A i \in DOMAIN reactions :
       /\ reactions[i].count = HowMany(reactions[i].userIds)
       /\ \A u \in Readers : reactions[i].userIds[u] <= 1

UsersOf(reactions) ==
    {u \in Readers : \E i \in DOMAIN reactions : Mine(reactions[i], u)}

LEMMA ReactionsAre ==
    ReactionsCounted <=>
      /\ Counted(message.reactions)
      /\ Saved("unreact") = {} =>
           {msgCall[r].by : r \in Saved("react")} = UsersOf(message.reactions)
BY DEF ReactionsCounted, Counted, UsersOf

LEMMA EmptyListIs == EmptyList \in Counts /\ HowMany(EmptyList) = 0
<1>1. EmptyList \in Counts /\ \A u \in Readers : EmptyList[u] = 0
  BY DEF EmptyList, Counts
<1>2. QED
  BY <1>1, SumZero, MessageAssumption DEF HowMany

LEMMA HasFirst ==
    ASSUME NEW R \in Reactions, R # <<>>
    PROVE  1 \in DOMAIN R /\ R[1].userIds \in Counts /\ R[1].count \in Int
<1>1. PICK E : E = [userIds : Counts, count : Int]
  OBVIOUS
<1>2. R \in Seq(E)
  BY <1>1 DEF Reactions
<1>3. 1 \in DOMAIN R /\ R[1] \in E
  BY <1>2
<1>4. QED
  BY <1>1, <1>3

LEMMA OneMore ==
    ASSUME NEW users \in Counts, NEW u \in Readers, users[u] = 0
    PROVE  /\ [users EXCEPT ![u] = 1] \in Counts
           /\ [users EXCEPT ![u] = @ + 1] = [users EXCEPT ![u] = 1]
           /\ HowMany([users EXCEPT ![u] = 1]) = HowMany(users) + 1
           /\ HowMany(users) \in Nat
<1>1. PICK new : new = [users EXCEPT ![u] = 1]
  OBVIOUS
<1>2. new \in Counts /\ new[u] = 1 /\ \A v \in Readers \ {u} : new[v] = users[v]
  BY <1>1 DEF Counts
<1>3. \A v \in Readers : users[v] \in Nat /\ new[v] \in Nat
  BY <1>2 DEF Counts
<1>4. SumFunctionOnSet(new, Readers)
        = SumFunctionOnSet(users, Readers) - users[u] + new[u]
  <2>1. \A v \in Readers : users[v] \in Int /\ new[v] \in Int
    BY <1>3
  <2>2. QED
    BY <1>2, <2>1, SumChange, MessageAssumption
<1>5. SumFunctionOnSet(users, Readers) \in Nat
  BY <1>3, SumNat, MessageAssumption
<1>6. [users EXCEPT ![u] = @ + 1] = [users EXCEPT ![u] = 1]
  BY DEF Counts
<1>7. QED
  BY <1>1, <1>2, <1>4, <1>5, <1>6 DEF HowMany

LEMMA FirstEntry ==
    ASSUME NEW u \in Readers, NEW count
    PROVE  /\ WithUser(<<>>, u, count) \in Reactions
           /\ Len(WithUser(<<>>, u, count)) = 1
           /\ Counted(WithUser(<<>>, u, count))
           /\ UsersOf(WithUser(<<>>, u, count)) = {u}
<1>1. PICK users : users = [EmptyList EXCEPT ![u] = 1]
  OBVIOUS
<1>2. users \in Counts /\ HowMany(users) = 1
  BY <1>1, EmptyListIs, OneMore DEF EmptyList
<1>3. /\ users[u] = 1
      /\ \A v \in Readers : v # u => users[v] = 0
  BY <1>1 DEF EmptyList
<1>4. PICK R : R = <<[userIds |-> users, count |-> 1]>>
  OBVIOUS
<1>5. WithUser(<<>>, u, count) = R
  BY <1>1, <1>4 DEF WithUser
<1>6. R \in Reactions /\ Len(R) = 1 /\ DOMAIN R = {1}
  BY <1>2, <1>4 DEF Reactions
<1>7. R[1].userIds = users /\ R[1].count = 1
  BY <1>4
<1>8. Counted(R)
  <2>1. \A v \in Readers : users[v] <= 1
    BY <1>3
  <2>2. QED
    BY <1>2, <1>6, <1>7, <2>1 DEF Counted
<1>9. UsersOf(R) = {u}
  <2>1. \A v \in Readers : Mine(R[1], v) <=> v = u
    BY <1>3, <1>7 DEF Mine
  <2>2. QED
    BY <1>6, <2>1 DEF UsersOf
<1>10. QED
  BY <1>5, <1>6, <1>8, <1>9

(* Two lists of entries, one after the other.                              *)
LEMMA Pushed ==
    ASSUME NEW R \in Reactions, NEW S \in Reactions, Counted(R), Counted(S)
    PROVE  /\ R \o S \in Reactions /\ Counted(R \o S)
           /\ UsersOf(R \o S) = UsersOf(R) \cup UsersOf(S)
<1>1. PICK T : T = R \o S
  OBVIOUS
<1>2. /\ T \in Reactions /\ Len(R) \in Nat /\ Len(S) \in Nat
      /\ Len(T) = Len(R) + Len(S)
      /\ DOMAIN T = 1 .. Len(T) /\ DOMAIN R = 1 .. Len(R)
      /\ DOMAIN S = 1 .. Len(S)
      /\ \A i \in DOMAIN T :
           T[i] = IF i <= Len(R) THEN R[i] ELSE S[i - Len(R)]
  BY <1>1 DEF Reactions
<1>3. \A i \in DOMAIN R : i \in DOMAIN T /\ T[i] = R[i]
  BY <1>2
<1>4. \A i \in DOMAIN S : i + Len(R) \in DOMAIN T /\ T[i + Len(R)] = S[i]
  <2>1. SUFFICES ASSUME NEW i \in DOMAIN S
                 PROVE  i + Len(R) \in DOMAIN T /\ T[i + Len(R)] = S[i]
    OBVIOUS
  <2>2. i \in Nat /\ i >= 1 /\ i <= Len(S)
    BY <1>2, <2>1
  <2>3. i + Len(R) \in DOMAIN T /\ ~(i + Len(R) <= Len(R))
    BY <1>2, <2>2
  <2>4. i + Len(R) - Len(R) = i
    BY <1>2, <2>2
  <2>5. QED
    BY <1>2, <2>3, <2>4
<1>5. \A i \in DOMAIN T : (i \in DOMAIN R /\ T[i] = R[i])
         \/ (i - Len(R) \in DOMAIN S /\ T[i] = S[i - Len(R)])
  BY <1>2
<1>6. Counted(T)
  BY <1>5 DEF Counted
<1>7. UsersOf(T) = UsersOf(R) \cup UsersOf(S)
  <2>1. UsersOf(T) \subseteq UsersOf(R) \cup UsersOf(S)
    BY <1>5 DEF UsersOf
  <2>2. UsersOf(R) \subseteq UsersOf(T)
    BY <1>3 DEF UsersOf
  <2>3. UsersOf(S) \subseteq UsersOf(T)
    BY <1>4 DEF UsersOf
  <2>4. QED
    BY <2>1, <2>2, <2>3
<1>8. QED
  BY <1>1, <1>2, <1>6, <1>7

(* To be put in the first entry is to be in the entries.                   *)
LEMMA WithUserIn ==
    ASSUME NEW R \in Reactions, R # <<>>, Counted(R), NEW u \in Readers,
           ~Mine(R[1], u)
    PROVE  /\ WithUser(R, u, R[1].count) \in Reactions
           /\ WithUser(R, u, R[1].count) # <<>>
           /\ Counted(WithUser(R, u, R[1].count))
           /\ UsersOf(WithUser(R, u, R[1].count)) = UsersOf(R) \cup {u}
<1>1. PICK old : old = R[1]
  OBVIOUS
<1>2. 1 \in DOMAIN R /\ old.userIds \in Counts /\ old.count \in Int
  BY <1>1, HasFirst
<1>3. old.userIds[u] = 0
  BY <1>1, <1>2 DEF Mine, Counts
<1>4. PICK users : users = [old.userIds EXCEPT ![u] = 1]
  OBVIOUS
<1>5. /\ users \in Counts /\ users = [old.userIds EXCEPT ![u] = @ + 1]
      /\ HowMany(users) = HowMany(old.userIds) + 1
  BY <1>2, <1>3, <1>4, OneMore
<1>6. old.count = HowMany(old.userIds)
      /\ \A v \in Readers : old.userIds[v] <= 1
  BY <1>1, <1>2 DEF Counted
<1>7. PICK new : new = [userIds |-> users, count |-> old.count + 1]
  OBVIOUS
<1>8. PICK T : T = [R EXCEPT ![1] = new]
  OBVIOUS
<1>9. WithUser(R, u, R[1].count) = T
  BY <1>1, <1>5, <1>7, <1>8 DEF WithUser
<1>10. new \in [userIds : Counts, count : Int]
  BY <1>2, <1>5, <1>7
<1>11. /\ T \in Reactions /\ DOMAIN T = DOMAIN R /\ T[1] = new
       /\ \A i \in DOMAIN R : i # 1 => T[i] = R[i]
  BY <1>2, <1>8, <1>10 DEF Reactions
<1>12. /\ users[u] = 1
       /\ \A v \in Readers : v # u => users[v] = old.userIds[v]
  BY <1>2, <1>4 DEF Counts
<1>13. Counted(T)
  <2>1. new.count = HowMany(new.userIds) /\ new.userIds = users
    BY <1>5, <1>6, <1>7
  <2>2. \A v \in Readers : users[v] <= 1
    BY <1>6, <1>12
  <2>3. QED
    BY <1>11, <2>1, <2>2 DEF Counted
<1>14. UsersOf(T) = UsersOf(R) \cup {u}
  <2>1. \A v \in Readers : Mine(new, v) <=> Mine(old, v) \/ v = u
    BY <1>3, <1>7, <1>12 DEF Mine
  <2>2. QED
    BY <1>1, <1>2, <1>11, <2>1 DEF UsersOf
<1>15. T # <<>>
  BY <1>2, <1>11
<1>16. QED
  BY <1>9, <1>11, <1>13, <1>14, <1>15

(* To be taken out of the first entry.                                     *)
LEMMA WithoutUser ==
    ASSUME NEW R \in Reactions, R # <<>>, Counted(R), NEW u \in Readers,
           NEW left, left = [R[1].userIds EXCEPT ![u] = 0],
           NEW S, S = [R EXCEPT ![1] = [userIds |-> left,
                                        count |-> HowMany(left)]]
    PROVE  S \in Reactions /\ Counted(S)
<1>1. PICK old : old = R[1]
  OBVIOUS
<1>2. 1 \in DOMAIN R /\ old.userIds \in Counts
  BY <1>1, HasFirst
<1>3. left \in Counts /\ \A v \in Readers : left[v] = 0 \/ left[v] = old.userIds[v]
  BY <1>1, <1>2 DEF Counts
<1>4. \A v \in Readers : left[v] <= 1
  BY <1>1, <1>2, <1>3 DEF Counted
<1>5. HowMany(left) \in Nat
  BY <1>3, SumNat, MessageAssumption DEF HowMany, Counts
<1>6. PICK new : new = [userIds |-> left, count |-> HowMany(left)]
  OBVIOUS
<1>7. new \in [userIds : Counts, count : Int]
  BY <1>3, <1>5, <1>6
<1>8. /\ S \in Reactions /\ DOMAIN S = DOMAIN R /\ S[1] = new
      /\ \A i \in DOMAIN R : i # 1 => S[i] = R[i]
  BY <1>2, <1>6, <1>7 DEF Reactions
<1>9. QED
  BY <1>4, <1>6, <1>8 DEF Counted


-----------------------------------------------------------------------------
(* A step of request r, which ends as c.  One that changes the message     *)
(* crosses those that have yet to tell of theirs.                          *)
MessageMoves(r, c, crosses) ==
    /\ r \in MessageCalls /\ c \in MessageCall
    /\ msgCall[r].pc # "idle" => c.op = msgCall[r].op /\ c.by = msgCall[r].by
    /\ msgCall[r].pc \in {"idle", "save", "tell"}
    /\ c.pc = "done" => msgCall[r].pc = "tell" \/ c.op = "bookmark"
    /\ msgCall[r].pc = "tell" =>
         /\ c.pc = "done" /\ c.overDeleted = msgCall[r].overDeleted
         /\ c.overNewer = msgCall[r].overNewer
         /\ c.crossed = msgCall[r].crossed
    /\ msgCall' = [q \in MessageCalls |->
           IF q = r THEN c
           ELSE IF crosses /\ msgCall[q].pc = "tell"
           THEN [msgCall[q] EXCEPT !.crossed = TRUE]
           ELSE msgCall[q]]

LEMMA MessageMoved ==
    ASSUME MessageTypeOK, NEW r, NEW c, NEW crosses, MessageMoves(r, c, crosses)
    PROVE  /\ msgCall' \in [MessageCalls -> MessageCall]
           /\ msgCall'[r] = c
           /\ \A q \in MessageCalls \ {r} :
                /\ msgCall'[q].op = msgCall[q].op
                /\ msgCall'[q].pc = msgCall[q].pc
                /\ msgCall'[q].by = msgCall[q].by
                /\ msgCall'[q].doc = msgCall[q].doc
                /\ msgCall'[q].overDeleted = msgCall[q].overDeleted
                /\ msgCall'[q].overNewer = msgCall[q].overNewer
                /\ ~crosses \/ msgCall[q].pc # "tell" =>
                     msgCall'[q].crossed = msgCall[q].crossed
                /\ crosses /\ msgCall[q].pc = "tell" => msgCall'[q].crossed
<1>1. \A q \in MessageCalls : msgCall[q] \in MessageCall
  BY DEF MessageTypeOK
<1>2. r \in MessageCalls /\ c \in MessageCall
  BY DEF MessageMoves
<1>3. \A q \in MessageCalls :
        msgCall'[q] = IF q = r THEN c
                      ELSE IF crosses /\ msgCall[q].pc = "tell"
                      THEN [msgCall[q] EXCEPT !.crossed = TRUE]
                      ELSE msgCall[q]
  BY DEF MessageMoves
<1>4. ASSUME NEW d \in MessageCall
      PROVE  /\ [d EXCEPT !.crossed = TRUE] \in MessageCall
             /\ [d EXCEPT !.crossed = TRUE].op = d.op
             /\ [d EXCEPT !.crossed = TRUE].pc = d.pc
             /\ [d EXCEPT !.crossed = TRUE].by = d.by
             /\ [d EXCEPT !.crossed = TRUE].doc = d.doc
             /\ [d EXCEPT !.crossed = TRUE].overDeleted = d.overDeleted
             /\ [d EXCEPT !.crossed = TRUE].overNewer = d.overNewer
             /\ [d EXCEPT !.crossed = TRUE].crossed
  BY DEF MessageCall
<1>5. \A q \in MessageCalls : msgCall'[q] \in MessageCall
  BY <1>1, <1>2, <1>3, <1>4
<1>6. msgCall' \in [MessageCalls -> MessageCall]
  <2> DEFINE Next(q) == IF q = r THEN c
                        ELSE IF crosses /\ msgCall[q].pc = "tell"
                        THEN [msgCall[q] EXCEPT !.crossed = TRUE]
                        ELSE msgCall[q]
  <2>1. msgCall' = [q \in MessageCalls |-> Next(q)]
    BY DEF MessageMoves
  <2>2. \A q \in MessageCalls : Next(q) \in MessageCall
    BY <1>1, <1>2, <1>4
  <2> HIDE DEF Next
  <2>3. QED
    BY <2>1, <2>2
<1>7. msgCall'[r] = c
  BY <1>2, <1>3
<1>8. ASSUME NEW q \in MessageCalls \ {r}
      PROVE  /\ msgCall'[q].op = msgCall[q].op
             /\ msgCall'[q].pc = msgCall[q].pc
             /\ msgCall'[q].by = msgCall[q].by
             /\ msgCall'[q].doc = msgCall[q].doc
             /\ msgCall'[q].overDeleted = msgCall[q].overDeleted
             /\ msgCall'[q].overNewer = msgCall[q].overNewer
             /\ ~crosses \/ msgCall[q].pc # "tell" =>
                  msgCall'[q].crossed = msgCall[q].crossed
             /\ crosses /\ msgCall[q].pc = "tell" => msgCall'[q].crossed
  <2>1. CASE crosses /\ msgCall[q].pc = "tell"
    <3>1. PICK d \in MessageCall : d = msgCall[q]
      BY <1>1
    <3>2. msgCall'[q] = [d EXCEPT !.crossed = TRUE]
      BY <1>3, <2>1, <3>1
    <3>3. QED
      BY <1>4, <2>1, <3>1, <3>2
  <2>2. CASE ~(crosses /\ msgCall[q].pc = "tell")
    BY <1>3, <1>8, <2>2
  <2>3. QED
    BY <2>1, <2>2
<1>9. QED
  BY <1>6, <1>7, <1>8

(* What a step does to the document: it says so by the version, and but    *)
(* for those it crosses nobody has anything else to tell.                  *)
DocumentMoves(crosses) ==
    /\ message' \in MessageDocument
    /\ message'.version >= message.version
    /\ message'.version = message.version =>
         /\ message'.editHistory = message.editHistory
         /\ message'.reactions = message.reactions
    /\ crosses \/ /\ message'.content = message.content
                  /\ message'.isDeleted = message.isDeleted
                  /\ message'.reactions = message.reactions

LEMMA CallsStaySound ==
    ASSUME MessageInv, NEW r, NEW c, NEW crosses \in BOOLEAN,
           MessageMoves(r, c, crosses),
           DocumentMoves(crosses), MessageCallSound(r, c)'
    PROVE  \A q \in MessageCalls : MessageCallSound(q, msgCall[q])'
<1> SUFFICES ASSUME NEW q \in MessageCalls
             PROVE  MessageCallSound(q, msgCall[q])'
  OBVIOUS
<1>1. MessageTypeOK
  BY DEF MessageInv
<1>2. CASE q = r
  BY <1>1, <1>2, MessageMoved
<1>3. CASE q # r
  <2>1. PICK d : d = msgCall[q]
    OBVIOUS
  <2>2. PICK e : e = msgCall'[q]
    OBVIOUS
  <2>3. /\ e.op = d.op /\ e.pc = d.pc /\ e.by = d.by /\ e.doc = d.doc
        /\ e.overDeleted = d.overDeleted /\ e.overNewer = d.overNewer
        /\ ~crosses \/ d.pc # "tell" => e.crossed = d.crossed
        /\ crosses /\ d.pc = "tell" => e.crossed
    BY <1>1, <1>3, <2>1, <2>2, MessageMoved
  <2>4. MessageCallSound(q, d)
    BY <2>1 DEF MessageInv
  <2>5. ASSUME HoldsRead(d)
        PROVE  HoldsRead(e)'
    <3>1. d.doc.version \in Nat /\ message.version \in Nat
          /\ message'.version \in Nat
      BY <1>1, <2>5 DEF HoldsRead, MessageDocument, MessageTypeOK, DocumentMoves
    <3>2. message'.version >= message.version
          /\ d.doc.version <= message.version
      BY <2>5 DEF HoldsRead, DocumentMoves
    <3>3. d.doc.version <= message'.version
      BY <3>1, <3>2
    <3>4. d.doc.version = message'.version =>
            /\ d.doc.editHistory = message'.editHistory
            /\ d.doc.reactions = message'.reactions
      <4>1. d.doc.version = message'.version =>
              d.doc.version = message.version /\ message'.version = message.version
        BY <3>1, <3>2
      <4>2. QED
        BY <2>5, <4>1 DEF HoldsRead, DocumentMoves
    <3>5. QED
      BY <2>3, <2>5, <3>3, <3>4 DEF HoldsRead
  <2>6. ASSUME HoldsNews(q, d), d.pc = "tell"
        PROVE  HoldsNews(q, e)'
    <3>1. CASE crosses
      BY <2>3, <2>6, <3>1 DEF HoldsNews
    <3>2. CASE ~crosses
      BY <2>3, <2>6, <3>2 DEF HoldsNews, DocumentMoves
    <3>3. QED
      BY <3>1, <3>2
  <2>7. MessageCallSound(q, e)'
    BY <2>3, <2>4, <2>5, <2>6 DEF MessageCallSound
  <2>8. QED
    BY <2>2, <2>7
<1>4. QED
  BY <1>2, <1>3

LEMMA SavedMoves ==
    ASSUME MessageTypeOK, NEW r, NEW c, NEW crosses, MessageMoves(r, c, crosses),
           NEW op
    PROVE  /\ \A q : q # r => (q \in Saved(op)' <=> q \in Saved(op))
           /\ r \in Saved(op)' <=> c.op = op /\ c.pc \in {"tell", "done"}
           /\ r \in Saved(op) => r \in Saved(op)'
<1>1. r \in MessageCalls /\ msgCall'[r] = c
  BY MessageMoved DEF MessageMoves
<1>2. \A q \in MessageCalls : q # r =>
        msgCall'[q].op = msgCall[q].op /\ msgCall'[q].pc = msgCall[q].pc
  BY MessageMoved
<1>3. \A q : q # r => (q \in Saved(op)' <=> q \in Saved(op))
  BY <1>2 DEF Saved
<1>4. r \in Saved(op)' <=> c.op = op /\ c.pc \in {"tell", "done"}
  BY <1>1 DEF Saved
<1>5. r \in Saved(op) => c.op = op /\ c.pc = "done"
  BY DEF Saved, MessageMoves
<1>6. QED
  BY <1>3, <1>4, <1>5

LEMMA TombstoneMoves ==
    ASSUME MessageInv, NEW r, NEW c, NEW crosses, MessageMoves(r, c, crosses),
           message.isDeleted => message'.isDeleted,
           c.op = "delete" /\ c.pc = "tell" => message'.isDeleted,
           message'.isDeleted =>
             \/ message'.content = Tombstone
             \/ message.isDeleted /\ message'.content = message.content
             \/ /\ message'.content = r /\ c.op = "edit" /\ c.pc = "tell"
                /\ c.overDeleted,
           Len(message.editHistory) \in Nat, Len(message'.editHistory) \in Nat,
           \/ Len(message'.editHistory) = Len(message.editHistory)
           \/ Len(message'.editHistory) <= HistoryKept
           \/ /\ Len(message'.editHistory) = Len(message.editHistory) + 1
              /\ msgCall[r].pc = "save" /\ c.op = "edit" /\ c.pc = "tell"
              /\ c.overNewer
    PROVE  TombstoneHolds'
<1>1. MessageTypeOK /\ TombstoneHolds
  BY DEF MessageInv
<1>2. r \in MessageCalls /\ msgCall'[r] = c
  BY <1>1, MessageMoved DEF MessageMoves
<1>3. Saved("delete")' # {} => message'.isDeleted
  <2>1. ASSUME NEW q \in Saved("delete")'
        PROVE  message'.isDeleted
    <3>1. CASE q # r
      BY <1>1, <2>1, <3>1, SavedMoves DEF TombstoneHolds
    <3>2. CASE q = r
      <4>1. c.op = "delete" /\ c.pc \in {"tell", "done"}
        BY <1>1, <2>1, <3>2, SavedMoves
      <4>2. CASE c.pc = "tell"
        BY <4>1, <4>2
      <4>3. CASE c.pc = "done"
        <5>1. CASE msgCall[r].pc = "tell"
          <6>1. r \in Saved("delete")
            BY <1>2, <4>1, <5>1 DEF MessageMoves, Saved
          <6>2. QED
            BY <1>1, <6>1 DEF TombstoneHolds
        <5>2. CASE msgCall[r].pc # "tell"
          <6>1. c.op = "bookmark"
            BY <4>3, <5>2 DEF MessageMoves
          <6>2. QED
            BY <4>1, <6>1
        <5>3. QED
          BY <5>1, <5>2
      <4>4. QED
        BY <4>1, <4>2, <4>3
    <3>3. QED
      BY <3>1, <3>2
  <2>2. QED
    BY <2>1
<1>4. \A q \in MessageCalls :
        q \in Saved("edit") /\ msgCall[q].overDeleted
          => q \in Saved("edit")' /\ msgCall'[q].overDeleted
  <2>1. SUFFICES ASSUME NEW q \in MessageCalls,
                        q \in Saved("edit"), msgCall[q].overDeleted
                 PROVE  q \in Saved("edit")' /\ msgCall'[q].overDeleted
    OBVIOUS
  <2>2. CASE q # r
    BY <1>1, <2>1, <2>2, SavedMoves, MessageMoved
  <2>3. CASE q = r
    <3>1. msgCall[r].pc = "tell"
      BY <2>1, <2>3 DEF Saved, MessageMoves
    <3>2. c.overDeleted
      BY <2>1, <2>3, <3>1 DEF MessageMoves
    <3>3. QED
      BY <1>1, <1>2, <2>1, <2>3, <3>2, SavedMoves
  <2>4. QED
    BY <2>2, <2>3
<1>5. message'.isDeleted =>
        \/ message'.content = Tombstone
        \/ message'.content \in {q \in Saved("edit")' : msgCall'[q].overDeleted}
  <2>1. SUFFICES ASSUME message'.isDeleted, message'.content # Tombstone
                 PROVE  message'.content \in
                          {q \in Saved("edit")' : msgCall'[q].overDeleted}
    OBVIOUS
  <2>2. CASE message.isDeleted /\ message'.content = message.content
    <3>1. message.content \in {q \in Saved("edit") : msgCall[q].overDeleted}
      BY <1>1, <2>1, <2>2 DEF TombstoneHolds
    <3>2. message.content \in MessageCalls
      BY <3>1 DEF Saved
    <3>3. QED
      BY <1>4, <2>2, <3>1, <3>2
  <2>3. CASE /\ message'.content = r /\ c.op = "edit" /\ c.pc = "tell"
             /\ c.overDeleted
    <3>1. r \in Saved("edit")'
      BY <1>1, <2>3, SavedMoves
    <3>2. QED
      BY <1>2, <2>3, <3>1
  <2>4. QED
    BY <2>1, <2>2, <2>3
<1>6. Len(message'.editHistory) <=
        HistoryKept + Cardinality({q \in Saved("edit")' : msgCall'[q].overNewer})
  <2>1. PICK S : S = {q \in Saved("edit") : msgCall[q].overNewer}
    OBVIOUS
  <2>2. PICK T : T = {q \in Saved("edit")' : msgCall'[q].overNewer}
    OBVIOUS
  <2>3. \A q : q # r => (q \in T <=> q \in S)
    <3>1. \A q \in Saved("edit") : q \in MessageCalls
      BY DEF Saved
    <3>2. \A q : q # r => (q \in Saved("edit")' <=> q \in Saved("edit"))
      BY <1>1, SavedMoves
    <3>3. \A q \in MessageCalls \ {r} :
            msgCall'[q].overNewer = msgCall[q].overNewer
      BY <1>1, MessageMoved
    <3>4. QED
      BY <2>1, <2>2, <3>1, <3>2, <3>3
  <2>4. IsFiniteSet(S)
    <3>1. S \subseteq MessageCalls
      BY <2>1 DEF Saved
    <3>2. QED
      BY <3>1, MessageAssumption, FS_Subset
  <2>5. r \in T <=> c.op = "edit" /\ c.pc \in {"tell", "done"} /\ c.overNewer
    <3>1. r \in Saved("edit")' <=> c.op = "edit" /\ c.pc \in {"tell", "done"}
      BY <1>1, SavedMoves
    <3>2. QED
      BY <1>2, <2>2, <3>1
  <2>6. r \in S => r \in T
    <3>1. ASSUME r \in S
          PROVE  /\ msgCall[r].pc = "tell" /\ msgCall[r].overNewer
                 /\ msgCall[r].op = "edit"
      BY <2>1, <3>1 DEF Saved, MessageMoves
    <3>2. r \in S => c.op = "edit" /\ c.pc = "done" /\ c.overNewer
      BY <3>1 DEF MessageMoves
    <3>3. QED
      BY <2>5, <3>2
  <2>7. msgCall[r].pc = "save" => r \notin S
    BY <2>1 DEF Saved
  <2>8. /\ Cardinality(S) \in Nat /\ Cardinality(T) \in Nat
        /\ r \in T /\ r \notin S => Cardinality(T) = Cardinality(S) + 1
        /\ (r \in T <=> r \in S) => Cardinality(T) = Cardinality(S)
    BY <2>3, <2>4, Recount
  <2>9. Len(message.editHistory) <= HistoryKept + Cardinality(S)
    BY <1>1, <2>1 DEF TombstoneHolds
  <2>10. HistoryKept \in Nat
    BY MessageAssumption
  <2>11. Cardinality(T) >= Cardinality(S)
    BY <2>6, <2>8
  <2>12. Len(message'.editHistory) <= HistoryKept + Cardinality(T)
    <3>1. CASE Len(message'.editHistory) = Len(message.editHistory)
      BY <2>8, <2>9, <2>10, <2>11, <3>1
    <3>2. CASE Len(message'.editHistory) <= HistoryKept
      BY <2>8, <2>10, <3>2
    <3>3. CASE /\ Len(message'.editHistory) = Len(message.editHistory) + 1
               /\ msgCall[r].pc = "save" /\ c.op = "edit" /\ c.pc = "tell"
               /\ c.overNewer
      <4>1. Cardinality(T) = Cardinality(S) + 1
        BY <2>5, <2>7, <2>8, <3>3
      <4>2. QED
        BY <2>8, <2>9, <2>10, <3>3, <4>1
    <3>4. QED
      BY <3>1, <3>2, <3>3
  <2>13. QED
    BY <2>2, <2>12
<1>7. QED
  BY <1>3, <1>5, <1>6 DEF TombstoneHolds

(* The entries are left alone, and nobody is one more who reacted.         *)
LEMMA ReactionsStay ==
    ASSUME MessageInv, NEW r, NEW c, NEW crosses, MessageMoves(r, c, crosses),
           message'.reactions = message.reactions,
           ~(c.op = "react" /\ c.pc = "tell")
    PROVE  ReactionsCounted'
<1>1. MessageTypeOK /\ ReactionsCounted
  BY DEF MessageInv
<1>2. r \in Saved("react")' => r \in Saved("react")
  <2>1. ASSUME r \in Saved("react")'
        PROVE  r \in Saved("react")
    <3>1. c.op = "react" /\ c.pc = "done"
      BY <1>1, <2>1, SavedMoves
    <3>2. msgCall[r].pc = "tell" /\ msgCall[r].op = "react" /\ r \in MessageCalls
      BY <3>1 DEF MessageMoves
    <3>3. QED
      BY <3>2 DEF Saved
  <2>2. QED
    BY <2>1
<1>3. \A op : Saved(op) \subseteq Saved(op)'
  BY <1>1, SavedMoves
<1>4. Saved("react")' = Saved("react")
  BY <1>1, <1>2, <1>3, SavedMoves
<1>5. \A q \in Saved("react") : msgCall'[q].by = msgCall[q].by
  <2>1. SUFFICES ASSUME NEW q \in Saved("react")
                 PROVE  msgCall'[q].by = msgCall[q].by
    OBVIOUS
  <2>2. q \in MessageCalls /\ msgCall[q].pc # "idle"
    BY DEF Saved
  <2>3. CASE q = r
    BY <1>1, <2>2, <2>3, MessageMoved DEF MessageMoves
  <2>4. QED
    BY <1>1, <2>2, <2>3, MessageMoved
<1>6. Saved("unreact")' = {} => Saved("unreact") = {}
  BY <1>3
<1>7. {msgCall'[q].by : q \in Saved("react")'}
        = {msgCall[q].by : q \in Saved("react")}
  BY <1>4, <1>5
<1>8. QED
  BY <1>1, <1>6, <1>7, ReactionsAre DEF ReactionsCounted


(* What is shown is left alone: the message it shows is too, or the        *)
(* request has yet to tell of it.                                          *)
LEMMA ShownStays ==
    ASSUME MessageInv, NEW r, NEW c, NEW crosses, MessageMoves(r, c, crosses),
           msgCall[r].pc # "tell", shown' = shown,
           \/ /\ message'.content = message.content
              /\ message'.isDeleted = message.isDeleted
           \/ c.pc = "tell" /\ c.op \in {"edit", "delete"},
           \/ message'.reactions = message.reactions
           \/ c.pc = "tell" /\ c.op # "delete"
    PROVE  /\ Told(shown.text)' /\ Told(shown.marks)'
           /\ TextShown' /\ MarksShown'
<1>1. /\ MessageTypeOK /\ Told(shown.text) /\ Told(shown.marks)
      /\ TextShown /\ MarksShown
  BY DEF MessageInv
<1>2. shown.text \in MessageCalls \cup {0} /\ shown.marks \in MessageCalls \cup {0}
  BY <1>1 DEF MessageTypeOK, ShownMessage
<1>3. msgCall[r].pc # "done" /\ r \in MessageCalls
  BY DEF MessageMoves
<1>4. ASSUME NEW q \in MessageCalls, msgCall[q].pc = "done"
      PROVE  /\ msgCall'[q].pc = "done"
             /\ msgCall'[q].crossed = msgCall[q].crossed
             /\ msgCall'[q].overDeleted = msgCall[q].overDeleted
             /\ msgCall'[q].overNewer = msgCall[q].overNewer
  <2>1. q \in MessageCalls \ {r} /\ msgCall[q].pc # "tell"
    BY <1>3, <1>4
  <2>2. QED
    BY <1>1, <1>4, <2>1, MessageMoved
<1>5. ASSUME NEW q \in MessageCalls, msgCall[q].pc = "tell"
      PROVE  msgCall'[q].pc = "tell" /\ msgCall'[q].op = msgCall[q].op
  BY <1>1, <1>5, MessageMoved
<1>6. NewText \subseteq NewText' /\ NewMarks \subseteq NewMarks'
  BY <1>5 DEF NewText, NewMarks
<1>7. /\ c.pc = "tell" /\ c.op \in {"edit", "delete"} => NewText' # {}
      /\ c.pc = "tell" /\ c.op # "delete" => NewMarks' # {}
  <2>1. r \in MessageCalls /\ msgCall'[r] = c
    BY <1>1, <1>3, MessageMoved
  <2>2. QED
    BY <2>1 DEF NewText, NewMarks
<1>8. Told(shown.text)' /\ Told(shown.marks)'
  BY <1>1, <1>2, <1>4 DEF Told
<1>9. TextShown'
  <2>1. SUFFICES ASSUME NewText' = {}, Uncrossed(shown.text)'
                 PROVE  /\ shown.isDeleted = message'.isDeleted
                             \/ (shown.text # 0 /\ msgCall'[shown.text].overDeleted)
                        /\ message'.isDeleted \/ shown.content = message'.content
    BY DEF TextShown
  <2>2. /\ message'.content = message.content
        /\ message'.isDeleted = message.isDeleted
    BY <1>7, <2>1
  <2>3. NewText = {} /\ Uncrossed(shown.text)
    BY <1>1, <1>2, <1>4, <1>6, <2>1 DEF Uncrossed, Told
  <2>4. /\ shown.isDeleted = message.isDeleted
             \/ (shown.text # 0 /\ msgCall[shown.text].overDeleted)
        /\ message.isDeleted \/ shown.content = message.content
    BY <1>1, <2>3 DEF TextShown
  <2>5. shown.text # 0 =>
          msgCall'[shown.text].overDeleted = msgCall[shown.text].overDeleted
    BY <1>1, <1>2, <1>4 DEF Told
  <2>6. QED
    BY <2>2, <2>4, <2>5
<1>10. MarksShown'
  <2>1. SUFFICES ASSUME NewMarks' = {}, Uncrossed(shown.marks)',
                        shown.marks = 0 \/ ~msgCall'[shown.marks].overNewer
                 PROVE  shown.reactions = message'.reactions
    BY DEF MarksShown
  <2>2. message'.reactions = message.reactions
    BY <1>7, <2>1
  <2>3. /\ NewMarks = {} /\ Uncrossed(shown.marks)
        /\ shown.marks = 0 \/ ~msgCall[shown.marks].overNewer
    BY <1>1, <1>2, <1>4, <1>6, <2>1 DEF Uncrossed, Told
  <2>4. QED
    BY <1>1, <2>2, <2>3 DEF MarksShown
<1>11. QED
  BY <1>8, <1>9, <1>10

(* EmptyList moves, and what stays of the document is what matters to them.   *)
LEMMA MessageRests ==
    ASSUME MessageInv, UNCHANGED <<msgCall, shown>>, message' \in MessageDocument,
           message'.content = message.content,
           message'.isDeleted = message.isDeleted,
           message'.editHistory = message.editHistory,
           message'.reactions = message.reactions,
           message'.version = message.version
    PROVE  MessageInv'
<1>1. MessageTypeOK'
  BY DEF MessageInv, MessageTypeOK
<1>2. \A r \in MessageCalls : MessageCallSound(r, msgCall[r])'
  BY DEF MessageInv, MessageCallSound, HoldsRead, HoldsNews
<1>3. \A op : Saved(op)' = Saved(op)
  BY DEF Saved
<1>4. TombstoneHolds'
  <2>1. TombstoneHolds
    BY DEF MessageInv
  <2>2. QED
    BY <1>3, <2>1 DEF TombstoneHolds
<1>5. ReactionsCounted'
  <2>1. ReactionsCounted
    BY DEF MessageInv
  <2>2. QED
    BY <1>3, <2>1 DEF ReactionsCounted
<1>6. NewText' = NewText /\ NewMarks' = NewMarks
  BY DEF NewText, NewMarks
<1>7. /\ Told(shown.text)' /\ Told(shown.marks)'
      /\ TextShown' /\ MarksShown'
  BY <1>6 DEF MessageInv, Told, TextShown, MarksShown, Uncrossed
<1>8. QED
  BY <1>1, <1>2, <1>4, <1>5, <1>7 DEF MessageInv

LEMMA RemoveBookmarkKeeps ==
    ASSUME MessageInv, NEW u \in Readers, RemoveBookmark(u)
    PROVE  MessageInv'
<1>1. PICK d \in MessageDocument : d = message
  BY DEF MessageInv, MessageTypeOK
<1>2. PICK counts : counts = [d.bookmarkedBy EXCEPT ![u] = 0]
  OBVIOUS
<1>3. counts \in Counts
  BY <1>2 DEF MessageDocument, Counts
<1>4. message' = [d EXCEPT !.bookmarkedBy = counts]
  BY <1>1, <1>2 DEF RemoveBookmark
<1>5. /\ message' \in MessageDocument
      /\ message'.content = d.content
      /\ message'.isDeleted = d.isDeleted
      /\ message'.editHistory = d.editHistory
      /\ message'.reactions = d.reactions
      /\ message'.version = d.version
  BY <1>3, <1>4 DEF MessageDocument
<1>6. UNCHANGED <<msgCall, shown>>
  BY DEF RemoveBookmark
<1>7. QED
  BY <1>1, <1>5, <1>6, MessageRests

LEMMA MessageStutters ==
    ASSUME MessageInv, UNCHANGED messageVars
    PROVE  MessageInv'
BY MessageRests DEF messageVars, MessageInv, MessageTypeOK


LEMMA MessageMovesOn ==
    ASSUME MessageInv, NEW r, NEW c, NEW crosses \in BOOLEAN,
           MessageMoves(r, c, crosses), DocumentMoves(crosses),
           MessageCallSound(r, c)', TombstoneHolds', ReactionsCounted',
           shown' \in ShownMessage, Told(shown.text)', Told(shown.marks)',
           TextShown', MarksShown'
    PROVE  MessageInv'
<1>1. MessageTypeOK'
  BY MessageMoved DEF MessageInv, MessageTypeOK, DocumentMoves
<1>2. \A q \in MessageCalls : MessageCallSound(q, msgCall[q])'
  BY CallsStaySound
<1>3. QED
  BY <1>1, <1>2 DEF MessageInv

(* A step that leaves the document alone, but of one who tells.            *)
LEMMA MessageAlone ==
    ASSUME MessageInv, NEW r, NEW c, MessageMoves(r, c, FALSE),
           UNCHANGED <<message, shown>>, msgCall[r].pc # "tell",
           c.pc = "tell" => c.op = "unreact",
           MessageCallSound(r, c)'
    PROVE  MessageInv'
<1>1. MessageTypeOK /\ TombstoneHolds
  BY DEF MessageInv
<1>2. message \in MessageDocument /\ shown \in ShownMessage
  BY <1>1 DEF MessageTypeOK
<1>3. message.version \in Nat /\ Len(message.editHistory) \in Nat
  BY <1>2 DEF MessageDocument
<1>4. DocumentMoves(FALSE)
  BY <1>2, <1>3 DEF DocumentMoves
<1>5. TombstoneHolds'
  <2>1. message.isDeleted /\ message.content # Tombstone =>
          message.isDeleted /\ message'.content = message.content
    OBVIOUS
  <2>2. QED
    BY <1>3, <2>1, TombstoneMoves
<1>6. ReactionsCounted'
  BY ReactionsStay
<1>7. Told(shown.text)' /\ Told(shown.marks)' /\ TextShown' /\ MarksShown'
  BY ShownStays
<1>8. QED
  BY <1>2, <1>4, <1>5, <1>6, <1>7, MessageMovesOn

LEMMA BeginMessageCallKeeps ==
    ASSUME MessageInv, NEW r \in MessageCalls, BeginMessageCall(r)
    PROVE  MessageInv'
<1>1. PICK op \in {"edit", "delete", "react", "unreact", "bookmark"},
           u \in Readers :
        /\ Accepts(op, u)
        /\ msgCall' = [msgCall EXCEPT ![r] =
              [@ EXCEPT !.op = op, !.pc = "save", !.by = u, !.doc = message]]
  BY DEF BeginMessageCall
<1>2. msgCall[r].pc = "idle" /\ UNCHANGED <<message, shown>>
  BY DEF BeginMessageCall
<1>3. /\ msgCall \in [MessageCalls -> MessageCall]
      /\ message \in MessageDocument
  BY DEF MessageInv, MessageTypeOK
<1>4. PICK c : c = [msgCall[r] EXCEPT !.op = op, !.pc = "save", !.by = u,
                                      !.doc = message]
  OBVIOUS
<1>5. /\ c \in MessageCall /\ c.op = op /\ c.pc = "save" /\ c.by = u
      /\ c.doc = message
  <2>1. PICK d \in MessageCall : d = msgCall[r]
    BY <1>3
  <2>2. op \in MessageOps /\ "save" \in MessagePc
    BY <1>1 DEF MessageOps, MessagePc
  <2>3. c = [d EXCEPT !.op = op, !.pc = "save", !.by = u, !.doc = message]
    BY <1>4, <2>1
  <2>4. u \in Readers \cup {IdleMessageCall.by}
        /\ message \in MessageDocument \cup {0}
    BY <1>3
  <2>5. QED
    BY <2>2, <2>3, <2>4 DEF MessageCall
<1>6. msgCall' = [msgCall EXCEPT ![r] = c]
  BY <1>1, <1>3, <1>4
<1>7. MessageMoves(r, c, FALSE)
  <2>1. msgCall' = [q \in MessageCalls |-> IF q = r THEN c ELSE msgCall[q]]
    BY <1>3, <1>6
  <2>2. QED
    BY <1>2, <1>5, <2>1 DEF MessageMoves
<1>8. HoldsRead(c)'
  <2>1. message.version \in Nat
    BY <1>3 DEF MessageDocument
  <2>2. op = "react" /\ message.reactions # <<>> => ~Mine(message.reactions[1], u)
    BY <1>1 DEF Accepts
  <2>3. op = "unreact" => message.reactions # <<>>
    BY <1>1 DEF Accepts
  <2>4. HoldsRead(c)
    BY <1>3, <1>5, <2>1, <2>2, <2>3 DEF HoldsRead
  <2>5. QED
    BY <1>2, <2>4 DEF HoldsRead
<1>9. MessageCallSound(r, c)'
  BY <1>5, <1>8 DEF MessageCallSound
<1>10. QED
  BY <1>2, <1>5, <1>7, <1>9, MessageAlone

-----------------------------------------------------------------------------
(* What a request is after its save.                                       *)
SavedAs(r, c, pc, doc) ==
    /\ c \in MessageCall /\ c.op = msgCall[r].op /\ c.by = msgCall[r].by
    /\ c.pc = pc /\ c.doc = doc /\ c.crossed = msgCall[r].crossed
    /\ c.overDeleted = message.isDeleted
    /\ c.overNewer <=> msgCall[r].doc.version # message.version

LEMMA SavesMove ==
    ASSUME MessageInv, NEW r \in MessageCalls, msgCall[r].pc = "save",
           NEW pc \in {"tell", "failed", "done"},
           pc = "done" => msgCall[r].op = "bookmark",
           NEW doc \in MessageDocument \cup {0},
           NEW c, c = SaveOver(r, pc, doc)[r]
    PROVE  /\ SavedAs(r, c, pc, doc)
           /\ msgCall' = SaveOver(r, pc, doc) => MessageMoves(r, c, FALSE)
           /\ pc = "tell" /\ Changed(r, doc) => MessageMoves(r, c, TRUE)
<1>1. msgCall \in [MessageCalls -> MessageCall] /\ message \in MessageDocument
  BY DEF MessageInv, MessageTypeOK
<1>2. PICK d \in MessageCall : d = msgCall[r]
  BY <1>1
<1>3. PICK newer \in BOOLEAN : newer = (d.doc.version # message.version)
  OBVIOUS
<1>4. message.isDeleted \in BOOLEAN
  BY <1>1 DEF MessageDocument
<1>5. SaveOver(r, pc, doc) = [msgCall EXCEPT ![r] =
         [d EXCEPT !.pc = pc, !.doc = doc, !.overDeleted = message.isDeleted,
                   !.overNewer = newer]]
  BY <1>2, <1>3 DEF SaveOver
<1>6. c = [d EXCEPT !.pc = pc, !.doc = doc, !.overDeleted = message.isDeleted,
                    !.overNewer = newer]
  BY <1>1, <1>5
<1>7. /\ c \in MessageCall /\ c.op = d.op /\ c.by = d.by
      /\ c.pc = pc /\ c.doc = doc /\ c.crossed = d.crossed
      /\ c.overDeleted = message.isDeleted /\ c.overNewer = newer
  <2>1. pc \in MessagePc
    BY DEF MessagePc
  <2>2. QED
    BY <1>4, <1>6, <2>1 DEF MessageCall
<1>8. SavedAs(r, c, pc, doc)
  BY <1>2, <1>3, <1>7 DEF SavedAs
<1>9. SaveOver(r, pc, doc) = [q \in MessageCalls |->
                                IF q = r THEN c ELSE msgCall[q]]
  BY <1>1, <1>5, <1>6
<1>10. msgCall' = SaveOver(r, pc, doc) => MessageMoves(r, c, FALSE)
  BY <1>2, <1>7, <1>9 DEF MessageMoves
<1>11. ASSUME pc = "tell", Changed(r, doc)
       PROVE  MessageMoves(r, c, TRUE)
  <2>1. msgCall' = [q \in MessageCalls |->
           IF q # r /\ msgCall[q].pc = "tell"
           THEN [msgCall[q] EXCEPT !.crossed = TRUE]
           ELSE IF q = r THEN c ELSE msgCall[q]]
    BY <1>9, <1>11 DEF Changed
  <2>2. msgCall' = [q \in MessageCalls |->
           IF q = r THEN c
           ELSE IF msgCall[q].pc = "tell"
           THEN [msgCall[q] EXCEPT !.crossed = TRUE]
           ELSE msgCall[q]]
    BY <2>1
  <2>3. QED
    BY <1>2, <1>7, <1>11, <2>2 DEF MessageMoves
<1>12. QED
  BY <1>8, <1>10, <1>11

(* A save that failed.                                                     *)
LEMMA FailedKeeps ==
    ASSUME MessageInv, NEW r \in MessageCalls, msgCall[r].pc = "save",
           Finish(r, "failed"), UNCHANGED message
    PROVE  MessageInv'
<1>1. PICK c : c = SaveOver(r, "failed", 0)[r]
  OBVIOUS
<1>2. SavedAs(r, c, "failed", 0) /\ MessageMoves(r, c, FALSE)
  BY <1>1, SavesMove DEF Finish
<1>3. c.pc = "failed"
  BY <1>2 DEF SavedAs
<1>4. MessageCallSound(r, c)'
  BY <1>3 DEF MessageCallSound
<1>5. UNCHANGED <<message, shown>>
  BY DEF Finish
<1>6. QED
  BY <1>2, <1>3, <1>4, <1>5, MessageAlone

LEMMA SaveBookmarkKeeps ==
    ASSUME MessageInv, NEW r \in MessageCalls, SaveBookmark(r)
    PROVE  MessageInv'
<1>1. /\ msgCall[r].pc = "save" /\ msgCall[r].op = "bookmark"
      /\ msgCall' = SaveOver(r, "done", 0) /\ shown' = shown
  BY DEF SaveBookmark, Saving, Finish
<1>2. PICK c : c = SaveOver(r, "done", 0)[r]
  OBVIOUS
<1>3. SavedAs(r, c, "done", 0) /\ MessageMoves(r, c, FALSE)
  BY <1>1, <1>2, SavesMove
<1>4. c.pc = "done" /\ c.op = "bookmark"
  BY <1>1, <1>3 DEF SavedAs
<1>5. PICK d \in MessageDocument : d = message
  BY DEF MessageInv, MessageTypeOK
<1>6. msgCall[r].by \in Readers
  BY <1>1 DEF MessageInv, MessageCallSound, HoldsRead
<1>7. PICK by : by = msgCall[r].by
  OBVIOUS
<1>8. PICK counts : counts = [d.bookmarkedBy EXCEPT ![by] = @ + 1]
  OBVIOUS
<1>9. counts \in Counts
  <2>1. d.bookmarkedBy \in [Readers -> Nat] /\ by \in Readers
    BY <1>6, <1>7 DEF MessageDocument, Counts
  <2>2. QED
    BY <1>8, <2>1 DEF Counts
<1>10. message' = [d EXCEPT !.bookmarkedBy = counts, !.version = d.version + 1]
  BY <1>5, <1>7, <1>8 DEF SaveBookmark
<1>11. /\ message' \in MessageDocument
       /\ message'.content = d.content /\ message'.isDeleted = d.isDeleted
       /\ message'.editHistory = d.editHistory
       /\ message'.reactions = d.reactions
       /\ message'.version = d.version + 1 /\ d.version \in Nat
       /\ Len(d.editHistory) \in Nat
  <2>1. d.version \in Nat /\ d.version + 1 \in Nat /\ Len(d.editHistory) \in Nat
    BY DEF MessageDocument
  <2>2. PICK n \in Nat : n = d.version + 1
    BY <2>1
  <2>3. message' = [d EXCEPT !.bookmarkedBy = counts, !.version = n]
    BY <1>10, <2>2
  <2>4. /\ message' \in MessageDocument
        /\ message'.content = d.content /\ message'.isDeleted = d.isDeleted
        /\ message'.editHistory = d.editHistory
        /\ message'.reactions = d.reactions /\ message'.version = n
    BY <1>9, <2>3 DEF MessageDocument
  <2>5. QED
    BY <2>1, <2>2, <2>4
<1>12. DocumentMoves(FALSE)
  BY <1>5, <1>11 DEF DocumentMoves
<1>13. MessageCallSound(r, c)'
  BY <1>4 DEF MessageCallSound
<1>14. TombstoneHolds'
  BY <1>3, <1>4, <1>5, <1>11, TombstoneMoves
<1>15. ReactionsCounted'
  BY <1>3, <1>4, <1>5, <1>11, ReactionsStay
<1>16. Told(shown.text)' /\ Told(shown.marks)' /\ TextShown' /\ MarksShown'
  BY <1>1, <1>3, <1>5, <1>11, ShownStays
<1>17. shown' \in ShownMessage
  BY <1>1 DEF MessageInv, MessageTypeOK
<1>18. QED
  BY <1>3, <1>12, <1>13, <1>14, <1>15, <1>16, <1>17, MessageMovesOn


LEMMA DocumentParts ==
    ASSUME NEW d \in MessageDocument
    PROVE  /\ d.version \in Nat /\ d.version + 1 \in Nat
           /\ d.editHistory \in Seq(Int) /\ Len(d.editHistory) \in Nat
           /\ d.reactions \in Reactions /\ d.content \in Int
BY DEF MessageDocument

(* A history with one more, or without its oldest first.                   *)
LEMMA HistoryGrows ==
    ASSUME NEW h \in Seq(Int), NEW e \in Int, NEW full \in BOOLEAN,
           full => Len(h) >= 1
    PROVE  /\ Append(IF full THEN Tail(h) ELSE h, e) \in Seq(Int)
           /\ Len(Append(IF full THEN Tail(h) ELSE h, e))
                = IF full THEN Len(h) ELSE Len(h) + 1
<1>1. CASE full
  <2>1. Tail(h) \in Seq(Int) /\ Len(Tail(h)) = Len(h) - 1 /\ Len(h) \in Nat
    BY <1>1
  <2>2. PICK t \in Seq(Int) : t = Tail(h)
    BY <2>1
  <2>3. Append(t, e) \in Seq(Int) /\ Len(Append(t, e)) = Len(t) + 1
    OBVIOUS
  <2>4. QED
    BY <1>1, <2>1, <2>2, <2>3
<1>2. CASE ~full
  BY <1>2
<1>3. QED
  BY <1>1, <1>2

LEMMA SaveEditKeeps ==
    ASSUME MessageInv, NEW r \in MessageCalls, SaveEdit(r)
    PROVE  MessageInv'
<1>1. msgCall[r].pc = "save" /\ msgCall[r].op = "edit"
  BY DEF SaveEdit, Saving
<1>2. PICK doc : doc = msgCall[r].doc
  OBVIOUS
<1>3. PICK d \in MessageDocument : d = message
  BY DEF MessageInv, MessageTypeOK
<1>4. PICK full \in BOOLEAN : full <=> Len(doc.editHistory) >= HistoryKept
  <2>1. CASE Len(doc.editHistory) >= HistoryKept
    <3>1. TRUE <=> Len(doc.editHistory) >= HistoryKept
      BY <2>1
    <3>2. QED
      BY <3>1
  <2>2. CASE ~(Len(doc.editHistory) >= HistoryKept)
    <3>1. FALSE <=> Len(doc.editHistory) >= HistoryKept
      BY <2>2
    <3>2. QED
      BY <3>1
  <2>3. QED
    BY <2>1, <2>2
<1>5. /\ doc \in MessageDocument /\ doc.version <= d.version
      /\ doc.version = d.version =>
           doc.editHistory = d.editHistory /\ doc.reactions = d.reactions
  BY <1>1, <1>2, <1>3 DEF MessageInv, MessageCallSound, HoldsRead
<1>6. CASE Finish(r, "failed") /\ UNCHANGED message
  BY <1>1, <1>6, FailedKeeps
<1>7. CASE /\ full => doc.version = d.version
           /\ message' = [message EXCEPT
                 !.content = r,
                 !.version = @ + 1,
                 !.editHistory = Append(IF full THEN Tail(@) ELSE @, doc.content)]
           /\ Changed(r, doc)
  <2>1. PICK edits : edits =
          Append(IF full THEN Tail(d.editHistory) ELSE d.editHistory, doc.content)
    OBVIOUS
  <2>2. /\ d.version \in Nat /\ d.version + 1 \in Nat
        /\ d.editHistory \in Seq(Int) /\ Len(d.editHistory) \in Nat
        /\ doc.content \in Int /\ doc.version \in Nat
    BY <1>5, DocumentParts
  <2>3. HistoryKept \in Nat /\ HistoryKept >= 1 /\ r \in Int
    BY MessageAssumption
  <2>4. full => doc.editHistory = d.editHistory /\ Len(d.editHistory) >= HistoryKept
    BY <1>4, <1>5, <1>7
  <2>5. /\ edits \in Seq(Int)
        /\ Len(edits) = IF full THEN Len(d.editHistory) ELSE Len(d.editHistory) + 1
    BY <2>1, <2>2, <2>3, <2>4, HistoryGrows
  <2>6. PICK n \in Nat : n = d.version + 1
    BY <2>2
  <2>7. message' = [d EXCEPT !.content = r, !.version = n, !.editHistory = edits]
    BY <1>3, <1>7, <2>1, <2>6
  <2>8. /\ message' \in MessageDocument /\ message'.content = r
        /\ message'.isDeleted = d.isDeleted /\ message'.editHistory = edits
        /\ message'.reactions = d.reactions /\ message'.version = n
    BY <2>3, <2>5, <2>7 DEF MessageDocument
  <2>9. PICK c : c = SaveOver(r, "tell", doc)[r]
    OBVIOUS
  <2>10. SavedAs(r, c, "tell", doc) /\ MessageMoves(r, c, TRUE)
    BY <1>1, <1>5, <1>7, <2>9, SavesMove
  <2>11. /\ c.pc = "tell" /\ c.op = "edit" /\ c.doc = doc
         /\ c.overDeleted = d.isDeleted
         /\ c.overNewer <=> doc.version # d.version
    BY <1>1, <1>2, <1>3, <2>10 DEF SavedAs
  <2>12. DocumentMoves(TRUE)
    BY <1>3, <2>2, <2>6, <2>8 DEF DocumentMoves
  <2>13. MessageCallSound(r, c)'
    BY <1>5, <2>8, <2>11 DEF MessageCallSound, HoldsNews
  <2>14. \/ Len(edits) = Len(d.editHistory) \/ Len(edits) <= HistoryKept
         \/ Len(edits) = Len(d.editHistory) + 1 /\ c.overNewer
    <3>1. CASE full
      BY <2>5, <3>1
    <3>2. CASE ~full /\ doc.version = d.version
      <4>1. ~(Len(d.editHistory) >= HistoryKept)
        BY <1>4, <1>5, <3>2
      <4>2. QED
        BY <2>2, <2>3, <2>5, <3>2, <4>1
    <3>3. CASE ~full /\ doc.version # d.version
      BY <2>5, <2>11, <3>3
    <3>4. QED
      BY <3>1, <3>2, <3>3
  <2>15. TombstoneHolds'
    <3>1. Len(edits) \in Nat
      BY <2>2, <2>5
    <3>2. QED
      BY <1>1, <1>3, <2>2, <2>8, <2>10, <2>11, <2>14, <3>1, TombstoneMoves
  <2>16. ReactionsCounted'
    BY <1>3, <2>8, <2>10, <2>11, ReactionsStay
  <2>17. shown' = shown
    BY <1>7 DEF Changed
  <2>18. Told(shown.text)' /\ Told(shown.marks)' /\ TextShown' /\ MarksShown'
    BY <1>1, <1>3, <2>8, <2>10, <2>11, <2>17, ShownStays
  <2>19. shown' \in ShownMessage
    BY <2>17 DEF MessageInv, MessageTypeOK
  <2>20. QED
    BY <2>10, <2>12, <2>13, <2>15, <2>16, <2>18, <2>19, MessageMovesOn
<1>8. QED
  BY <1>2, <1>3, <1>4, <1>6, <1>7 DEF SaveEdit

LEMMA SaveDeleteKeeps ==
    ASSUME MessageInv, NEW r \in MessageCalls, SaveDelete(r)
    PROVE  MessageInv'
<1>1. msgCall[r].pc = "save" /\ msgCall[r].op = "delete"
  BY DEF SaveDelete, Saving
<1>2. PICK doc : doc = msgCall[r].doc
  OBVIOUS
<1>3. PICK d \in MessageDocument : d = message
  BY DEF MessageInv, MessageTypeOK
<1>4. doc \in MessageDocument
  BY <1>1, <1>2 DEF MessageInv, MessageCallSound, HoldsRead
<1>5. message' = [d EXCEPT !.isDeleted = TRUE, !.content = Tombstone]
  BY <1>3 DEF SaveDelete
<1>6. /\ message' \in MessageDocument /\ message'.content = Tombstone
      /\ message'.isDeleted /\ message'.editHistory = d.editHistory
      /\ message'.reactions = d.reactions /\ message'.version = d.version
  <2>1. Tombstone \in Int
    BY DEF Tombstone
  <2>2. QED
    BY <1>5, <2>1 DEF MessageDocument
<1>7. PICK c : c = SaveOver(r, "tell", doc)[r]
  OBVIOUS
<1>8. Changed(r, doc) /\ shown' = shown
  BY <1>2 DEF SaveDelete, Changed
<1>9. SavedAs(r, c, "tell", doc) /\ MessageMoves(r, c, TRUE)
  BY <1>1, <1>4, <1>7, <1>8, SavesMove
<1>10. c.pc = "tell" /\ c.op = "delete" /\ c.doc = doc
  BY <1>1, <1>9 DEF SavedAs
<1>11. d.version \in Nat /\ Len(d.editHistory) \in Nat
  BY DocumentParts
<1>12. DocumentMoves(TRUE)
  BY <1>3, <1>6, <1>11 DEF DocumentMoves
<1>13. MessageCallSound(r, c)'
  BY <1>4, <1>6, <1>10 DEF MessageCallSound, HoldsNews
<1>14. TombstoneHolds'
  BY <1>3, <1>6, <1>9, <1>10, <1>11, TombstoneMoves
<1>15. ReactionsCounted'
  BY <1>3, <1>6, <1>9, <1>10, ReactionsStay
<1>16. Told(shown.text)' /\ Told(shown.marks)' /\ TextShown' /\ MarksShown'
  BY <1>1, <1>3, <1>6, <1>8, <1>9, <1>10, ShownStays
<1>17. shown' \in ShownMessage
  BY <1>8 DEF MessageInv, MessageTypeOK
<1>18. QED
  BY <1>9, <1>12, <1>13, <1>14, <1>15, <1>16, <1>17, MessageMovesOn

LEMMA EmitToRoomKeeps ==
    ASSUME MessageInv, NEW r \in MessageCalls, EmitToRoom(r)
    PROVE  MessageInv'
<1>1. msgCall[r].pc = "tell" /\ UNCHANGED message
  BY DEF EmitToRoom
<1>2. PICK e \in MessageCall : e = msgCall[r]
  BY DEF MessageInv, MessageTypeOK
<1>3. HoldsNews(r, e) /\ e.pc = "tell"
  BY <1>1, <1>2 DEF MessageInv, MessageCallSound
<1>4. PICK s \in ShownMessage : s = shown
  BY DEF MessageInv, MessageTypeOK
<1>5. PICK c : c = [e EXCEPT !.pc = "done", !.doc = 0]
  OBVIOUS
<1>6. /\ c \in MessageCall /\ c.op = e.op /\ c.by = e.by /\ c.pc = "done"
      /\ c.overDeleted = e.overDeleted /\ c.overNewer = e.overNewer
      /\ c.crossed = e.crossed
  BY <1>5 DEF MessageCall, MessagePc
<1>7. msgCall \in [MessageCalls -> MessageCall] /\ MessageTypeOK
  BY DEF MessageInv, MessageTypeOK
<1>8. msgCall' = [q \in MessageCalls |-> IF q = r THEN c ELSE msgCall[q]]
  <2>1. msgCall' = [msgCall EXCEPT ![r].pc = "done", ![r].doc = 0]
    BY DEF EmitToRoom
  <2>2. QED
    BY <1>2, <1>5, <1>7, <2>1
<1>9. MessageMoves(r, c, FALSE)
  BY <1>2, <1>3, <1>6, <1>8 DEF MessageMoves
<1>10. DocumentMoves(FALSE) /\ Len(message.editHistory) \in Nat
  BY <1>1, <1>7, DocumentParts DEF DocumentMoves, MessageTypeOK
<1>11. MessageCallSound(r, c)'
  BY <1>6 DEF MessageCallSound
<1>12. TombstoneHolds'
  BY <1>1, <1>6, <1>9, <1>10, TombstoneMoves
<1>13. ReactionsCounted'
  BY <1>1, <1>6, <1>9, ReactionsStay
<1>14. /\ Told(s.text) /\ Told(s.marks) /\ TextShown /\ MarksShown
       /\ s.text \in MessageCalls \cup {0} /\ s.marks \in MessageCalls \cup {0}
  BY <1>4 DEF MessageInv, ShownMessage
<1>15. ASSUME NEW q \in MessageCalls \cup {0}, Told(q), q # 0
       PROVE  msgCall'[q] = msgCall[q] /\ msgCall[q].pc = "done"
  <2>1. q # r /\ q \in MessageCalls /\ msgCall[q].pc = "done"
    BY <1>1, <1>15 DEF Told
  <2>2. QED
    BY <1>8, <2>1
<1>16. r # 0 /\ Told(r)' /\ msgCall'[r] = c
  <2>1. r # 0
    BY MessageAssumption
  <2>2. msgCall'[r] = c
    BY <1>8
  <2>3. QED
    BY <1>6, <2>1, <2>2 DEF Told
<1>17. /\ s.text # 0 =>
            /\ msgCall'[s.text].pc = "done"
            /\ msgCall'[s.text].crossed = msgCall[s.text].crossed
            /\ msgCall'[s.text].overDeleted = msgCall[s.text].overDeleted
       /\ s.marks # 0 =>
            /\ msgCall'[s.marks].pc = "done"
            /\ msgCall'[s.marks].crossed = msgCall[s.marks].crossed
            /\ msgCall'[s.marks].overNewer = msgCall[s.marks].overNewer
  BY <1>14, <1>15
<1>18. /\ NewText' = NewText \ {r} /\ NewMarks' = NewMarks \ {r}
       /\ r \in NewText <=> e.op \in {"edit", "delete"}
       /\ r \in NewMarks <=> e.op # "delete"
  BY <1>2, <1>3, <1>6, <1>8 DEF NewText, NewMarks
<1>19. e.op \in {"edit", "delete", "react", "unreact"} /\ e.doc \in MessageDocument
  BY <1>3 DEF HoldsNews
<1>20. e.doc.reactions \in Reactions /\ r \in Int
  BY <1>19, DocumentParts, MessageAssumption
<1>21. PICK told \in Reactions : told = e.doc.reactions
  BY <1>20
<1>22. CASE e.op = "edit"
  <2>1. shown' = [content |-> r, isDeleted |-> FALSE, reactions |-> told,
                  text |-> r, marks |-> r]
    BY <1>2, <1>21, <1>22 DEF EmitToRoom
  <2>2. shown' \in ShownMessage
    BY <1>20, <2>1 DEF ShownMessage
  <2>3. /\ shown'.text = r /\ shown'.marks = r /\ shown'.content = r
        /\ shown'.isDeleted = FALSE /\ shown'.reactions = told
    BY <2>1
  <2>4. Told(shown.text)' /\ Told(shown.marks)'
    BY <1>16, <2>3 DEF Told
  <2>5. TextShown'
    <3>1. ASSUME ~c.crossed
          PROVE  message'.content = r /\ (message'.isDeleted => c.overDeleted)
      BY <1>1, <1>3, <1>6, <1>22, <3>1 DEF HoldsNews
    <3>2. message'.isDeleted \in BOOLEAN
      BY <1>1, <1>7 DEF MessageTypeOK, MessageDocument
    <3>3. QED
      BY <1>16, <2>3, <3>1, <3>2 DEF TextShown, Uncrossed
  <2>6. MarksShown'
    <3>1. ~c.crossed /\ ~c.overNewer => told = message'.reactions
      BY <1>1, <1>3, <1>6, <1>21, <1>22 DEF HoldsNews
    <3>2. QED
      BY <1>16, <2>3, <3>1 DEF MarksShown, Uncrossed
  <2>7. QED
    BY <1>9, <1>10, <1>11, <1>12, <1>13, <2>2, <2>4, <2>5, <2>6, MessageMovesOn
<1>23. CASE e.op = "delete"
  <2>1. shown' = [s EXCEPT !.isDeleted = TRUE, !.text = r]
    BY <1>2, <1>4, <1>23 DEF EmitToRoom
  <2>2. shown' \in ShownMessage
    BY <2>1 DEF ShownMessage
  <2>3. /\ shown'.text = r /\ shown'.marks = s.marks
        /\ shown'.isDeleted /\ shown'.reactions = s.reactions
    BY <2>1 DEF ShownMessage
  <2>4. Told(shown.text)' /\ Told(shown.marks)'
    BY <1>16, <1>17, <2>3 DEF Told
  <2>5. TextShown'
    <3>1. ~c.crossed => message'.isDeleted
      BY <1>1, <1>3, <1>6, <1>23 DEF HoldsNews
    <3>2. message'.isDeleted \in BOOLEAN /\ shown'.isDeleted \in BOOLEAN
      BY <1>1, <1>7, <2>2 DEF MessageTypeOK, MessageDocument, ShownMessage
    <3>3. QED
      BY <1>16, <2>3, <3>1, <3>2 DEF TextShown, Uncrossed
  <2>6. MarksShown'
    <3>1. NewMarks' = NewMarks
      BY <1>18, <1>23
    <3>2. QED
      BY <1>1, <1>4, <1>14, <1>17, <2>3, <3>1 DEF MarksShown, Uncrossed
  <2>7. QED
    BY <1>9, <1>10, <1>11, <1>12, <1>13, <2>2, <2>4, <2>5, <2>6, MessageMovesOn
<1>24. CASE e.op \in {"react", "unreact"}
  <2>1. shown' = [s EXCEPT !.reactions = told, !.marks = r]
    BY <1>2, <1>4, <1>21, <1>24 DEF EmitToRoom
  <2>2. shown' \in ShownMessage
    BY <2>1 DEF ShownMessage
  <2>3. /\ shown'.text = s.text /\ shown'.marks = r
        /\ shown'.isDeleted = s.isDeleted /\ shown'.content = s.content
        /\ shown'.reactions = told
    BY <2>1 DEF ShownMessage
  <2>4. Told(shown.text)' /\ Told(shown.marks)'
    BY <1>16, <1>17, <2>3 DEF Told
  <2>5. TextShown'
    <3>1. NewText' = NewText
      BY <1>18, <1>24
    <3>2. QED
      BY <1>1, <1>4, <1>14, <1>17, <2>3, <3>1 DEF TextShown, Uncrossed
  <2>6. MarksShown'
    <3>1. ~c.crossed /\ ~c.overNewer => told = message'.reactions
      BY <1>1, <1>3, <1>6, <1>21, <1>24 DEF HoldsNews
    <3>2. QED
      BY <1>16, <2>3, <3>1 DEF MarksShown, Uncrossed
  <2>7. QED
    BY <1>9, <1>10, <1>11, <1>12, <1>13, <2>2, <2>4, <2>5, <2>6, MessageMovesOn
<1>25. QED
  BY <1>19, <1>22, <1>23, <1>24


(* A save of the reactions: the entries stored, and those told.            *)
LEMMA ReactionSaved ==
    ASSUME MessageInv, NEW r \in MessageCalls, msgCall[r].pc = "save",
           msgCall[r].op \in {"react", "unreact"},
           NEW stored \in Reactions, NEW told \in Reactions,
           message' = [message EXCEPT !.reactions = stored, !.version = @ + 1],
           Changed(r, [msgCall[r].doc EXCEPT !.reactions = told]),
           msgCall[r].doc.version = message.version => stored = told,
           Counted(stored),
           msgCall[r].op = "react" =>
             UsersOf(stored) = UsersOf(message.reactions) \cup {msgCall[r].by}
    PROVE  MessageInv'
<1>1. PICK d \in MessageDocument : d = message
  BY DEF MessageInv, MessageTypeOK
<1>2. PICK doc \in MessageDocument : doc = msgCall[r].doc
  BY DEF MessageInv, MessageCallSound, HoldsRead
<1>3. /\ d.version \in Nat /\ d.version + 1 \in Nat
      /\ Len(d.editHistory) \in Nat
  BY DocumentParts
<1>4. PICK n \in Nat : n = d.version + 1
  BY <1>3
<1>5. message' = [d EXCEPT !.reactions = stored, !.version = n]
  BY <1>1, <1>4
<1>6. /\ message' \in MessageDocument /\ message'.content = d.content
      /\ message'.isDeleted = d.isDeleted /\ message'.version = n
      /\ message'.editHistory = d.editHistory /\ message'.reactions = stored
  BY <1>5 DEF MessageDocument
<1>7. PICK new : new = [doc EXCEPT !.reactions = told]
  OBVIOUS
<1>8. new \in MessageDocument /\ new.reactions = told
  BY <1>7 DEF MessageDocument
<1>9. PICK c : c = SaveOver(r, "tell", new)[r]
  OBVIOUS
<1>10. Changed(r, new) /\ shown' = shown
  BY <1>2, <1>7 DEF Changed
<1>11. SavedAs(r, c, "tell", new) /\ MessageMoves(r, c, TRUE)
  BY <1>8, <1>9, <1>10, SavesMove
<1>12. /\ c.pc = "tell" /\ c.op = msgCall[r].op /\ c.by = msgCall[r].by
       /\ c.doc = new /\ (c.overNewer <=> doc.version # d.version)
  BY <1>1, <1>2, <1>11 DEF SavedAs
<1>13. DocumentMoves(TRUE)
  BY <1>1, <1>3, <1>4, <1>6 DEF DocumentMoves
<1>14. MessageCallSound(r, c)'
  BY <1>1, <1>2, <1>6, <1>8, <1>12 DEF MessageCallSound, HoldsNews
<1>15. TombstoneHolds'
  BY <1>1, <1>3, <1>6, <1>11, <1>12, TombstoneMoves
<1>16. ReactionsCounted'
  <2>1. /\ Counted(message.reactions)
        /\ Saved("unreact") = {} =>
             {msgCall[q].by : q \in Saved("react")} = UsersOf(message.reactions)
    BY ReactionsAre DEF MessageInv
  <2>2. MessageTypeOK
    BY DEF MessageInv
  <2>3. /\ msgCall'[r] = c
        /\ \A q \in MessageCalls \ {r} : msgCall'[q].by = msgCall[q].by
    <3>1. MessageMoves(r, c, TRUE)
      BY <1>11
    <3>2. msgCall'[r] = c
      BY <2>2, <3>1, MessageMoved
    <3>3. ASSUME NEW q \in MessageCalls \ {r}
          PROVE  msgCall'[q].by = msgCall[q].by
      BY <2>2, <3>1, MessageMoved
    <3>4. QED
      BY <3>2, <3>3
  <2>4. ASSUME NEW op
        PROVE  /\ \A q : q # r => (q \in Saved(op)' <=> q \in Saved(op))
               /\ r \in Saved(op)' <=> c.op = op /\ c.pc \in {"tell", "done"}
               /\ r \in Saved(op) => r \in Saved(op)'
    BY <1>11, <2>2, SavedMoves
  <2>5. CASE c.op = "unreact"
    <3>1. r \in Saved("unreact")'
      BY <1>12, <2>5, <2>4
    <3>2. QED
      BY <1>6, <3>1 DEF ReactionsCounted, Counted
  <2>6. CASE c.op = "react"
    <3>1. Saved("react")' = Saved("react") \cup {r}
      BY <1>12, <2>6, <2>4
    <3>2. \A q \in Saved("react") : msgCall'[q].by = msgCall[q].by
      <4>1. \A q \in Saved("react") : q \in MessageCalls \ {r}
        BY DEF Saved
      <4>2. QED
        BY <2>3, <4>1
    <3>3. msgCall'[r].by = msgCall[r].by
      BY <1>12, <2>3
    <3>4. {msgCall'[q].by : q \in Saved("react")'}
            = {msgCall[q].by : q \in Saved("react")} \cup {msgCall[r].by}
      BY <3>1, <3>2, <3>3
    <3>5. Saved("unreact")' = {} => Saved("unreact") = {}
      BY <2>4
    <3>6. Saved("unreact")' = {} =>
            {msgCall'[q].by : q \in Saved("react")'} = UsersOf(stored)
      BY <1>12, <2>1, <2>6, <3>4, <3>5
    <3>7. QED
      BY <1>6, <3>6 DEF ReactionsCounted, Counted, UsersOf
  <2>7. QED
    BY <1>12, <2>5, <2>6
<1>17. Told(shown.text)' /\ Told(shown.marks)' /\ TextShown' /\ MarksShown'
  BY <1>1, <1>6, <1>10, <1>11, <1>12, ShownStays
<1>18. shown' \in ShownMessage
  BY <1>10 DEF MessageInv, MessageTypeOK
<1>19. QED
  BY <1>11, <1>13, <1>14, <1>15, <1>16, <1>17, <1>18, MessageMovesOn

LEMMA SaveReactionKeeps ==
    ASSUME MessageInv, NEW r \in MessageCalls, SaveReaction(r)
    PROVE  MessageInv'
<1>1. msgCall[r].pc = "save" /\ msgCall[r].op = "react"
  BY DEF SaveReaction, Saving
<1>2. PICK d \in MessageDocument : d = message
  BY DEF MessageInv, MessageTypeOK
<1>3. PICK doc : doc = msgCall[r].doc
  OBVIOUS
<1>4. PICK u : u = msgCall[r].by
  OBVIOUS
<1>5. /\ doc \in MessageDocument /\ u \in Readers
      /\ doc.version = d.version => doc.reactions = d.reactions
      /\ doc.reactions # <<>> => ~Mine(doc.reactions[1], u)
  BY <1>1, <1>2, <1>3, <1>4 DEF MessageInv, MessageCallSound, HoldsRead
<1>6. d.reactions \in Reactions /\ Counted(d.reactions)
  BY <1>2, ReactionsAre, DocumentParts DEF MessageInv
<1>7. CASE Finish(r, "failed") /\ UNCHANGED message
  BY <1>1, <1>7, FailedKeeps
<1>8. CASE doc.reactions = <<>> /\ ~(Finish(r, "failed") /\ UNCHANGED message)
  <2>1. PICK mine : mine = WithUser(<<>>, u, 0)
    OBVIOUS
  <2>2. PICK stored : stored = d.reactions \o mine
    OBVIOUS
  <2>3. /\ message' = [message EXCEPT !.reactions = stored, !.version = @ + 1]
        /\ Changed(r, [msgCall[r].doc EXCEPT !.reactions = mine])
    BY <1>2, <1>3, <1>4, <1>8, <2>1, <2>2 DEF SaveReaction
  <2>4. mine \in Reactions /\ Counted(mine) /\ UsersOf(mine) = {u}
    BY <1>5, <2>1, FirstEntry
  <2>5. /\ stored \in Reactions /\ Counted(stored)
        /\ UsersOf(stored) = UsersOf(d.reactions) \cup {u}
    BY <1>6, <2>2, <2>4, Pushed
  <2>6. doc.version = d.version => stored = mine
    <3>1. <<>> \o mine = mine
      BY <2>4 DEF Reactions
    <3>2. QED
      BY <1>5, <1>8, <2>2, <3>1
  <2>7. QED
    BY <1>1, <1>2, <1>3, <1>4, <2>3, <2>4, <2>5, <2>6, ReactionSaved
<1>9. CASE doc.reactions # <<>> /\ ~(Finish(r, "failed") /\ UNCHANGED message)
  <2>1. PICK mine : mine = WithUser(doc.reactions, u, doc.reactions[1].count)
    OBVIOUS
  <2>2. /\ doc.version = d.version
        /\ message' = [message EXCEPT !.reactions = mine, !.version = @ + 1]
        /\ Changed(r, [msgCall[r].doc EXCEPT !.reactions = mine])
    BY <1>2, <1>3, <1>4, <1>9, <2>1 DEF SaveReaction
  <2>3. PICK R : R = doc.reactions
    OBVIOUS
  <2>4. R = d.reactions /\ R # <<>> /\ ~Mine(R[1], u) /\ R \in Reactions /\ Counted(R)
    BY <1>5, <1>6, <1>9, <2>2, <2>3
  <2>5. /\ mine \in Reactions /\ Counted(mine)
        /\ UsersOf(mine) = UsersOf(R) \cup {u}
    BY <1>5, <2>1, <2>3, <2>4, WithUserIn
  <2>6. QED
    BY <1>1, <1>2, <1>4, <2>2, <2>4, <2>5, ReactionSaved
<1>10. QED
  BY <1>7, <1>8, <1>9

LEMMA SaveUnreactionKeeps ==
    ASSUME MessageInv, NEW r \in MessageCalls, SaveUnreaction(r)
    PROVE  MessageInv'
<1>1. msgCall[r].pc = "save" /\ msgCall[r].op = "unreact"
  BY DEF SaveUnreaction, Saving
<1>2. PICK d \in MessageDocument : d = message
  BY DEF MessageInv, MessageTypeOK
<1>3. PICK doc : doc = msgCall[r].doc
  OBVIOUS
<1>4. PICK u : u = msgCall[r].by
  OBVIOUS
<1>5. /\ doc \in MessageDocument /\ u \in Readers /\ doc.reactions # <<>>
      /\ doc.version = d.version => doc.reactions = d.reactions
  BY <1>1, <1>2, <1>3, <1>4 DEF MessageInv, MessageCallSound, HoldsRead
<1>6. d.reactions \in Reactions /\ Counted(d.reactions)
  BY <1>2, ReactionsAre, DocumentParts DEF MessageInv
<1>7. PICK left : left = [doc.reactions[1].userIds EXCEPT ![u] = 0]
  OBVIOUS
<1>8. PICK others : others =
         IF left = EmptyList THEN <<>>
         ELSE [doc.reactions EXCEPT ![1] = [userIds |-> left,
                                            count |-> HowMany(left)]]
  OBVIOUS
<1>9. \/ msgCall' = SaveOver(r, "tell", doc) /\ UNCHANGED <<message, shown>>
      \/ Finish(r, "failed") /\ UNCHANGED message
      \/ /\ doc.version = d.version
         /\ message' = [message EXCEPT !.reactions = others, !.version = @ + 1]
         /\ Changed(r, [msgCall[r].doc EXCEPT !.reactions = others])
  BY <1>2, <1>3, <1>4, <1>7, <1>8 DEF SaveUnreaction
<1>10. CASE Finish(r, "failed") /\ UNCHANGED message
  BY <1>1, <1>10, FailedKeeps
<1>11. CASE msgCall' = SaveOver(r, "tell", doc) /\ UNCHANGED <<message, shown>>
  <2>1. PICK c : c = SaveOver(r, "tell", doc)[r]
    OBVIOUS
  <2>2. SavedAs(r, c, "tell", doc) /\ MessageMoves(r, c, FALSE)
    BY <1>1, <1>5, <1>11, <2>1, SavesMove
  <2>3. /\ c.pc = "tell" /\ c.op = "unreact" /\ c.doc = doc
        /\ c.overNewer <=> doc.version # d.version
    BY <1>1, <1>2, <1>3, <2>2 DEF SavedAs
  <2>4. MessageCallSound(r, c)'
    BY <1>2, <1>5, <1>11, <2>3 DEF MessageCallSound, HoldsNews
  <2>5. QED
    BY <1>1, <1>11, <2>2, <2>3, <2>4, MessageAlone
<1>12. CASE /\ doc.version = d.version
            /\ message' = [message EXCEPT !.reactions = others, !.version = @ + 1]
            /\ Changed(r, [msgCall[r].doc EXCEPT !.reactions = others])
  <2>1. others \in Reactions /\ Counted(others)
    <3>1. CASE left = EmptyList
      <4>1. others = <<>>
        BY <1>8, <3>1
      <4>2. <<>> \in Reactions /\ Counted(<<>>)
        BY DEF Reactions, Counted
      <4>3. QED
        BY <4>1, <4>2
    <3>2. CASE left # EmptyList
      <4>1. PICK R : R = doc.reactions
        OBVIOUS
      <4>2. R \in Reactions /\ Counted(R) /\ R # <<>>
        BY <1>5, <1>6, <1>12, <4>1
      <4>3. /\ left = [R[1].userIds EXCEPT ![u] = 0]
            /\ others = [R EXCEPT ![1] = [userIds |-> left,
                                          count |-> HowMany(left)]]
        BY <1>7, <1>8, <3>2, <4>1
      <4>4. QED
        BY <1>5, <4>2, <4>3, WithoutUser
    <3>3. QED
      BY <3>1, <3>2
  <2>2. QED
    BY <1>1, <1>12, <2>1, ReactionSaved
<1>13. QED
  BY <1>9, <1>10, <1>11, <1>12

-----------------------------------------------------------------------------
LEMMA MessageInitial == MessagesInit => MessageInv
<1> SUFFICES ASSUME MessagesInit
             PROVE  MessageInv
  OBVIOUS
<1>1. PICK none \in Reactions : none = <<>>
  <2>1. PICK E : E = [userIds : Counts, count : Int]
    OBVIOUS
  <2>2. <<>> \in Seq(E)
    OBVIOUS
  <2>3. <<>> \in Reactions
    BY <2>1, <2>2 DEF Reactions
  <2>4. QED
    BY <2>3
<1>2. /\ message = [content |-> 0, isDeleted |-> FALSE, editHistory |-> <<>>,
                    reactions |-> none, bookmarkedBy |-> EmptyList, version |-> 0]
      /\ shown = [content |-> 0, isDeleted |-> FALSE, reactions |-> none,
                  text |-> 0, marks |-> 0]
  BY <1>1 DEF MessagesInit, Original
<1>3. message \in MessageDocument
  BY <1>2, EmptyListIs DEF MessageDocument
<1>4. shown \in ShownMessage
  BY <1>2 DEF ShownMessage
<1>5. /\ msgCall = [r \in MessageCalls |-> IdleMessageCall]
      /\ \A r \in MessageCalls : msgCall[r] = IdleMessageCall
  BY DEF MessagesInit
<1>6. /\ IdleMessageCall.pc = "idle" /\ IdleMessageCall.op = "none"
      /\ IdleMessageCall \in MessageCall
  <2>1. PICK u : u = IdleMessageCall.by
    OBVIOUS
  <2>2. IdleMessageCall = [op |-> "none", pc |-> "idle", by |-> u, doc |-> 0,
                           overDeleted |-> FALSE, overNewer |-> FALSE,
                           crossed |-> FALSE]
    BY <2>1 DEF IdleMessageCall
  <2>3. u \in Readers \cup {IdleMessageCall.by} /\ 0 \in MessageDocument \cup {0}
    BY <2>1
  <2>4. QED
    BY <2>2, <2>3 DEF MessageCall, MessageOps, MessagePc
<1>7. MessageTypeOK
  BY <1>3, <1>4, <1>5, <1>6 DEF MessageTypeOK
<1>8. \A r \in MessageCalls : MessageCallSound(r, msgCall[r])
  BY <1>5, <1>6 DEF MessageCallSound
<1>9. \A op : Saved(op) = {}
  BY <1>5, <1>6 DEF Saved
<1>10. TombstoneHolds
  <2>1. {r \in Saved("edit") : msgCall[r].overNewer} = {}
    BY <1>9
  <2>2. Cardinality({r \in Saved("edit") : msgCall[r].overNewer}) = 0
    BY <2>1, FS_EmptySet
  <2>3. Len(message.editHistory) = 0 /\ ~message.isDeleted
    BY <1>2
  <2>4. QED
    BY <1>9, <2>2, <2>3, MessageAssumption DEF TombstoneHolds
<1>11. ReactionsCounted
  <2>1. DOMAIN message.reactions = {}
    BY <1>1, <1>2
  <2>2. QED
    BY <1>9, <2>1 DEF ReactionsCounted
<1>12. Told(shown.text) /\ Told(shown.marks) /\ TextShown /\ MarksShown
  BY <1>2 DEF Told, TextShown, MarksShown
<1>13. QED
  BY <1>7, <1>8, <1>10, <1>11, <1>12 DEF MessageInv

LEMMA MessageIsSoundThen == MessageInv => MessageSound
<1> SUFFICES ASSUME MessageInv
             PROVE  MessageSound
  OBVIOUS
<1>1. TombstoneHolds /\ ReactionsCounted /\ TextShown /\ MarksShown
  BY DEF MessageInv
<1>2. ShownIsStored
  <2>1. SUFFICES ASSUME \A r \in MessageCalls : msgCall[r].pc # "tell"
                 PROVE  /\ shown.text = 0 \/ ~msgCall[shown.text].crossed =>
                             /\ shown.isDeleted = message.isDeleted
                                  \/ (shown.text # 0
                                        /\ msgCall[shown.text].overDeleted)
                             /\ message.isDeleted
                                  \/ shown.content = message.content
                        /\ /\ shown.marks = 0 \/ ~msgCall[shown.marks].crossed
                           /\ ~(shown.marks # 0 /\ msgCall[shown.marks].overNewer)
                           => shown.reactions = message.reactions
    BY DEF ShownIsStored
  <2>2. NewText = {} /\ NewMarks = {}
    BY <2>1 DEF NewText, NewMarks
  <2>3. QED
    BY <1>1, <2>2 DEF TextShown, MarksShown, Uncrossed
<1>3. QED
  BY <1>1, <1>2 DEF MessageSound

(* For any requests and users, a deleted message stays one, what it holds  *)
(* of its requests is as counted, and a client that is told shows it, but  *)
(* for what crossed.  (The saves and events of message.service.js.)        *)
THEOREM MessageIsSound == MessagesSpec => []MessageSound
<1>1. MessageInv /\ [MessagesNext]_messageVars => MessageInv'
  <2> SUFFICES ASSUME MessageInv, [MessagesNext]_messageVars
               PROVE  MessageInv'
    OBVIOUS
  <2>1. ASSUME NEW r \in MessageCalls,
               \/ BeginMessageCall(r) \/ SaveEdit(r) \/ SaveDelete(r)
               \/ SaveReaction(r) \/ SaveUnreaction(r) \/ SaveBookmark(r)
               \/ EmitToRoom(r)
        PROVE  MessageInv'
    BY <2>1, BeginMessageCallKeeps, SaveEditKeeps, SaveDeleteKeeps,
       SaveReactionKeeps, SaveUnreactionKeeps, SaveBookmarkKeeps,
       EmitToRoomKeeps
  <2>2. ASSUME NEW u \in Readers, RemoveBookmark(u)
        PROVE  MessageInv'
    BY <2>2, RemoveBookmarkKeeps
  <2>3. QED
    BY <2>1, <2>2, MessageStutters DEF MessagesNext
<1>2. QED
  BY <1>1, MessageInitial, MessageIsSoundThen, PTL DEF MessagesSpec

-----------------------------------------------------------------------------
(* Lookups: what is cached of the public services.                         *)

OnErrors == {"throw", "fallback", "open", "GetCoinCap"}

(* Lookups of one key store for the same time.                             *)
TtlOf(k) ==
    IF k \in {"rates", "currency"} THEN Hour
    ELSE IF k \in {"historical", "range", "country", "countries", "vat", "ip"}
    THEN Day
    ELSE IF k \in {"crypto", "coincap"} THEN Minutes
    ELSE IF k = "bin" THEN Week
    ELSE Month

Timed(s) ==
    /\ s.ttl \in Nat \ {0} /\ s.ttl = TtlOf(s.key)
    /\ s.onError \in OnErrors /\ s.refuses \in BOOLEAN

LEMMA PlainTimed ==
    ASSUME NEW k
    PROVE  Timed(Plain(k, TtlOf(k)))
<1>1. TtlOf(k) \in Nat \ {0}
  BY LookupAssumption DEF TtlOf
<1>2. QED
  BY <1>1 DEF Timed, Plain, OnErrors

LEMMA ServicesTimed ==
    ASSUME NEW s \in DOMAIN Service
    PROVE  Timed(Service[s])
<1>1. /\ TtlOf("rates") = Hour /\ TtlOf("historical") = Day
      /\ TtlOf("range") = Day /\ TtlOf("country") = Day
      /\ TtlOf("countries") = Day /\ TtlOf("vat") = Day
      /\ TtlOf("crypto") = Minutes /\ TtlOf("coincap") = Minutes
      /\ TtlOf("bin") = Week /\ TtlOf("postcode") = Month
      /\ TtlOf("currency") = Hour /\ TtlOf("ip") = Day
  BY DEF TtlOf
<1>2. \A k : Timed(Plain(k, TtlOf(k)))
  BY PlainTimed
<1>3. Timed(GetExchangeRates)
  BY <1>1, <1>2 DEF GetExchangeRates
<1>4. Timed(GetHistoricalRates)
  BY <1>1, <1>2 DEF GetHistoricalRates
<1>5. Timed(GetHistoricalRange)
  BY <1>1, <1>2 DEF GetHistoricalRange
<1>6. Timed(GetCountryInfo)
  BY <1>1, <1>2 DEF GetCountryInfo
<1>7. Timed(GetCountries)
  BY <1>1, <1>2 DEF GetCountries
<1>8. Timed(GetVatRates)
  BY <1>1, <1>2 DEF GetVatRates
<1>9. Timed(GetCoinCap)
  BY <1>1, <1>2 DEF GetCoinCap
<1>10. Timed(LookupCardBin)
  BY <1>1, <1>2 DEF LookupCardBin
<1>11. Timed(LookupPostcode)
  BY <1>1, <1>2 DEF LookupPostcode
<1>12. Timed(ConvertCurrency)
  BY <1>1, LookupAssumption DEF ConvertCurrency, Plain, Timed, OnErrors
<1>13. Timed(GetCryptoPrices)
  BY <1>1, LookupAssumption DEF GetCryptoPrices, Plain, Timed, OnErrors
<1>14. Timed(ConvertToCrypto)
  BY <1>1, LookupAssumption DEF ConvertToCrypto, GetCryptoPrices, Plain, Timed, OnErrors
<1>15. Timed(ValidateCurrency)
  BY <1>1, LookupAssumption DEF ValidateCurrency, Plain, Timed, OnErrors
<1>16. Timed(ValidateIp)
  BY <1>1, LookupAssumption DEF ValidateIp, Plain, Timed, OnErrors
<1>17. QED
  BY <1>3, <1>4, <1>5, <1>6, <1>7, <1>8, <1>9, <1>10, <1>11, <1>12, <1>13, <1>14, <1>15, <1>16 DEF Service

LEMMA ServiceDomain ==
    /\ "GetCoinCap" \in DOMAIN Service /\ "GetCountries" \in DOMAIN Service
    /\ {"throw", "fallback", "open"} \cap DOMAIN Service = {}
BY DEF Service

LEMMA KeyOf ==
    ASSUME NEW s \in DOMAIN Service
    PROVE  /\ Service[s].key \in LookupKeys /\ Service[s].ttl \in Nat \ {0}
           /\ Service[s].ttl = TtlOf(Service[s].key)
           /\ Service[s].refuses \in BOOLEAN /\ Service[s].onError \in OnErrors
<1>1. Service[s].key \in LookupKeys
  BY DEF LookupKeys
<1>2. Timed(Service[s])
  BY ServicesTimed
<1>3. QED
  BY <1>1, <1>2 DEF Timed

LookupPc == {"idle", "read", "count", "fetch", "body", "store", "skipped",
             "answered", "refused", "throw", "fallback", "open"}

LookupRecord ==
    [pc : LookupPc, service : DOMAIN Service, data : Nat \cup {NoData},
     by : Nat, waited : {0, 1}, age : Int, floor : Nat, refuses : BOOLEAN]

EntryRecord ==
    [data : Nat \cup {NoData}, expires : Nat, stored : Nat, by : Nat]

LookupTypeOK ==
    /\ family \subseteq DOMAIN Service
    /\ lookup \in [Lookers -> LookupRecord]
    /\ lookupCache \in [LookupKeys -> EntryRecord]
    /\ lookupNow \in Nat
    /\ newest \in [LookupKeys -> Nat]

(* An entry lives as long as its key says, from when it was stored.        *)
EntryTimed(k) ==
    /\ newest[k] <= lookupNow
    /\ lookupCache[k].data # NoData =>
         /\ lookupCache[k].data <= lookupNow
         /\ lookupCache[k].stored <= lookupNow
         /\ lookupCache[k].expires = lookupCache[k].stored + TtlOf(k)

Working == {"read", "count", "fetch", "body", "store"}

KeyAt(q) == Service[lookup[q].service].key

Alone(q, k) == <<q, k>> \notin crossed

CallTimed(q) ==
    /\ lookup[q].pc \in Working => lookup[q].floor <= newest[KeyAt(q)]
    /\ lookup[q].pc \in {"body", "store"} => lookup[q].data \in Nat
    /\ lookup[q].pc = "answered" =>
         /\ lookup[q].data \in Nat
         /\ lookup[q].age < TtlOf(KeyAt(q))
         /\ Alone(lookup[q].by, KeyAt(q)) => lookup[q].data >= lookup[q].floor

Fetches(q) == lookup[q].pc \in {"fetch", "body", "store"}

(* Two calls that fetch a key are not alone.  What Redis holds of a call   *)
(* that was alone is the newest that was answered, and what a call that is *)
(* alone has got is newer still.                                           *)
KeyOrdered(k) ==
    /\ \A p, q \in Lookers :
         /\ Fetches(p) /\ Fetches(q) /\ p # q
         /\ KeyAt(p) = k /\ KeyAt(q) = k
         => ~Alone(p, k)
    /\ lookupCache[k].data # NoData /\ Alone(lookupCache[k].by, k) =>
         newest[k] <= lookupCache[k].data
    /\ \A q \in Lookers :
         lookup[q].pc \in {"body", "store"} /\ KeyAt(q) = k /\ Alone(q, k) =>
           /\ newest[k] <= lookup[q].data
           /\ lookupCache[k].data # NoData =>
                lookupCache[k].data <= lookup[q].data

DataTimed(q) ==
    lookup[q].pc \in {"body", "store"} => lookup[q].data <= lookupNow

LookupInv ==
    /\ LookupTypeOK
    /\ \A k \in LookupKeys : EntryTimed(k)
    /\ \A k \in LookupKeys : KeyOrdered(k)
    /\ \A q \in Lookers : CallTimed(q) /\ DataTimed(q)

LEMMA KeyAtIn ==
    ASSUME LookupTypeOK, NEW q \in Lookers
    PROVE  KeyAt(q) \in LookupKeys /\ KeyAt(q) = Of(q).key
           /\ Of(q).ttl = TtlOf(KeyAt(q)) /\ Of(q).ttl \in Nat \ {0}
<1>1. lookup[q].service \in DOMAIN Service
  BY DEF LookupTypeOK, LookupRecord
<1>2. QED
  BY <1>1, KeyOf DEF KeyAt, Of

LEMMA LookupIsFresh == LookupInv => LookupFresh
<1> SUFFICES ASSUME LookupInv, NEW q \in Lookers, lookup[q].pc = "answered"
             PROVE  /\ lookup[q].age < Of(q).ttl
                    /\ \/ lookup[q].data >= lookup[q].floor
                       \/ <<lookup[q].by, Of(q).key>> \in crossed
  BY DEF LookupFresh
<1>1. CallTimed(q) /\ LookupTypeOK
  BY DEF LookupInv
<1>2. QED
  BY <1>1, KeyAtIn DEF CallTimed, Alone

LEMMA LookupInitial == LookupInit => LookupInv
<1> SUFFICES ASSUME LookupInit
             PROVE  LookupInv
  OBVIOUS
<1>1. NoLookup \in LookupRecord /\ NoLookup.pc = "idle"
  BY ServiceDomain DEF NoLookup, LookupRecord, LookupPc
<1>2. NoEntry \in EntryRecord /\ NoEntry.data = NoData
  BY DEF NoEntry, EntryRecord
<1>3. LookupTypeOK
  <2>1. family \subseteq DOMAIN Service
    BY FamiliesAssumption DEF LookupInit
  <2>2. QED
    BY <1>1, <1>2, <2>1 DEF LookupInit, LookupTypeOK
<1>4. /\ \A q \in Lookers : lookup[q].pc = "idle"
      /\ \A k \in LookupKeys : lookupCache[k].data = NoData /\ newest[k] = 0
      /\ lookupNow = 0
  BY <1>1, <1>2 DEF LookupInit
<1>5. \A k \in LookupKeys : EntryTimed(k) /\ KeyOrdered(k)
  BY <1>4 DEF EntryTimed, KeyOrdered, Fetches
<1>6. \A q \in Lookers : CallTimed(q) /\ DataTimed(q)
  BY <1>4 DEF CallTimed, DataTimed, Working
<1>7. QED
  BY <1>3, <1>5, <1>6 DEF LookupInv

-----------------------------------------------------------------------------
KeyIn(c) == Service[c.service].key

(* Call q becomes c, at the same time.                                     *)
LookupBecomes(q, c) ==
    /\ q \in Lookers /\ c \in LookupRecord
    /\ lookup' = [lookup EXCEPT ![q] = c]
    /\ family' = family /\ lookupNow' = lookupNow

LEMMA LookupBecame ==
    ASSUME LookupInv, NEW q, NEW c, LookupBecomes(q, c)
    PROVE  /\ lookup' \in [Lookers -> LookupRecord] /\ q \in Lookers
           /\ lookup'[q] = c /\ KeyAt(q)' = KeyIn(c)
           /\ \A p \in Lookers : p # q =>
                lookup'[p] = lookup[p] /\ KeyAt(p)' = KeyAt(p)
           /\ KeyIn(c) \in LookupKeys
<1>1. LookupTypeOK
  BY DEF LookupInv
<1>2. /\ lookup' \in [Lookers -> LookupRecord] /\ q \in Lookers
      /\ lookup'[q] = c
      /\ \A p \in Lookers : p # q => lookup'[p] = lookup[p]
  BY <1>1 DEF LookupBecomes, LookupTypeOK
<1>3. c.service \in DOMAIN Service
  BY DEF LookupBecomes, LookupRecord
<1>4. KeyIn(c) \in LookupKeys
  BY <1>3, KeyOf DEF KeyIn
<1>5. QED
  BY <1>2, <1>4 DEF KeyAt, KeyIn

(* A call goes on; nothing is stored and nothing answered from Redis.      *)
LEMMA LookupGoesOn ==
    ASSUME LookupInv, NEW q, NEW c, LookupBecomes(q, c),
           newest' = newest, lookupCache' = lookupCache,
           crossed \subseteq crossed',
           c.pc # "answered",
           c.pc \in Working => c.floor <= newest[KeyIn(c)],
           c.pc \in {"body", "store"} =>
             \/ c.data = lookupNow
             \/ /\ lookup[q].pc \in {"body", "store"}
                /\ c.data = lookup[q].data /\ c.service = lookup[q].service,
           c.pc \in {"fetch", "body", "store"} =>
             \/ Fetches(q) /\ c.service = lookup[q].service
             \/ \A p \in Lookers \ {q} :
                  Fetches(p) /\ KeyAt(p) = KeyIn(c) =>
                    ~Alone(p, KeyIn(c))' /\ ~Alone(q, KeyIn(c))'
    PROVE  LookupInv'
<1>1. /\ LookupTypeOK /\ \A k \in LookupKeys : EntryTimed(k)
      /\ \A k \in LookupKeys : KeyOrdered(k)
      /\ \A p \in Lookers : CallTimed(p) /\ DataTimed(p)
  BY DEF LookupInv
<1>2. /\ lookup' \in [Lookers -> LookupRecord] /\ q \in Lookers
      /\ lookup'[q] = c /\ KeyAt(q)' = KeyIn(c)
      /\ \A p \in Lookers : p # q =>
           lookup'[p] = lookup[p] /\ KeyAt(p)' = KeyAt(p)
      /\ KeyIn(c) \in LookupKeys
  BY LookupBecame
<1>3. family' = family /\ lookupNow' = lookupNow /\ lookupNow \in Nat
  BY <1>1 DEF LookupBecomes, LookupTypeOK
<1>4. LookupTypeOK'
  BY <1>1, <1>2, <1>3 DEF LookupTypeOK
<1>5. \A k \in LookupKeys : EntryTimed(k)'
  BY <1>1, <1>3 DEF EntryTimed
<1>6. c.pc \in {"body", "store"} => c.data \in Nat /\ c.data <= lookupNow
  <2>1. CallTimed(q) /\ DataTimed(q)
    BY <1>1, <1>2
  <2>2. QED
    BY <1>3, <2>1 DEF CallTimed, DataTimed
<1>7. ASSUME NEW p \in Lookers
      PROVE  CallTimed(p)' /\ DataTimed(p)'
  <2>1. CASE p = q
    BY <1>2, <1>3, <1>6, <2>1 DEF CallTimed, DataTimed
  <2>2. CASE p # q
    <3>1. CallTimed(p) /\ DataTimed(p)
      BY <1>1
    <3>2. lookup'[p] = lookup[p] /\ KeyAt(p)' = KeyAt(p)
      BY <1>2, <2>2
    <3>3. CallTimed(p)'
      BY <3>1, <3>2 DEF CallTimed, Alone
    <3>4. DataTimed(p)'
      BY <1>3, <3>1, <3>2 DEF DataTimed
    <3>5. QED
      BY <3>3, <3>4
  <2>3. QED
    BY <2>1, <2>2
<1>8. \A p, k : Alone(p, k)' => Alone(p, k)
  BY DEF Alone
<1>9. ASSUME NEW k \in LookupKeys
      PROVE  KeyOrdered(k)'
  <2>1. KeyOrdered(k) /\ EntryTimed(k)
    BY <1>1
  <2>2. ASSUME NEW p \in Lookers, Fetches(p)', KeyAt(p)' = k, p # q,
               Fetches(q)', KeyAt(q)' = k
        PROVE  ~Alone(p, k)' /\ ~Alone(q, k)'
    <3>1. Fetches(p) /\ KeyAt(p) = k
      BY <1>2, <2>2 DEF Fetches
    <3>2. c.pc \in {"fetch", "body", "store"} /\ KeyIn(c) = k
      BY <1>2, <2>2 DEF Fetches
    <3>3. CASE Fetches(q) /\ c.service = lookup[q].service
      <4>1. KeyAt(q) = k
        BY <3>2, <3>3 DEF KeyAt, KeyIn
      <4>2. ~Alone(p, k) /\ ~Alone(q, k)
        BY <1>2, <2>1, <2>2, <3>1, <3>3, <4>1 DEF KeyOrdered
      <4>3. QED
        BY <1>8, <4>2
    <3>4. QED
      BY <2>2, <3>1, <3>2, <3>3
  <2>3. ASSUME NEW p \in Lookers, NEW r \in Lookers, Fetches(p)', Fetches(r)',
               p # r, KeyAt(p)' = k, KeyAt(r)' = k
        PROVE  ~Alone(p, k)'
    <3>1. CASE p # q /\ r # q
      <4>1. Fetches(p) /\ Fetches(r) /\ KeyAt(p) = k /\ KeyAt(r) = k
        BY <1>2, <2>3, <3>1 DEF Fetches
      <4>2. ~Alone(p, k)
        BY <2>1, <2>3, <4>1 DEF KeyOrdered
      <4>3. QED
        BY <1>8, <4>2
    <3>2. QED
      BY <2>2, <2>3, <3>1
  <2>4. ASSUME NEW p \in Lookers, lookup'[p].pc \in {"body", "store"},
               KeyAt(p)' = k, Alone(p, k)'
        PROVE  /\ newest[k] <= lookup'[p].data
               /\ lookupCache[k].data # NoData =>
                    lookupCache[k].data <= lookup'[p].data
    <3>1. Alone(p, k)
      BY <1>8, <2>4
    <3>2. CASE p # q
      BY <1>2, <2>1, <2>4, <3>1, <3>2 DEF KeyOrdered
    <3>3. CASE p = q /\ c.data = lookupNow
      BY <1>2, <2>1, <3>3 DEF EntryTimed
    <3>4. CASE p = q /\ c.data # lookupNow
      <4>1. /\ lookup[q].pc \in {"body", "store"} /\ c.data = lookup[q].data
            /\ KeyAt(q) = k
        BY <1>2, <2>4, <3>4 DEF KeyAt, KeyIn
      <4>2. QED
        BY <1>2, <2>1, <3>1, <3>4, <4>1 DEF KeyOrdered
    <3>5. QED
      BY <3>2, <3>3, <3>4
  <2>5. lookupCache[k].data # NoData /\ Alone(lookupCache[k].by, k)' =>
          newest[k] <= lookupCache[k].data
    BY <1>8, <2>1 DEF KeyOrdered
  <2>6. QED
    BY <2>3, <2>4, <2>5 DEF KeyOrdered
<1>10. QED
  BY <1>4, <1>5, <1>7, <1>9 DEF LookupInv

(* A call ends with what Redis holds of key k, stored by u of old or now.  *)
LookupEnding(q, c, k, u) ==
    /\ LookupBecomes(q, c) /\ k = KeyIn(c) /\ k = KeyAt(q)
    /\ c.pc \in {"answered", "refused"}
    /\ crossed' = crossed
    /\ lookupCache' \in [LookupKeys -> EntryRecord]
    /\ newest' \in [LookupKeys -> Nat]
    /\ \A j \in LookupKeys : j # k =>
         newest'[j] = newest[j] /\ lookupCache'[j] = lookupCache[j]
    /\ newest'[k] >= newest[k]
    /\ EntryTimed(k)' /\ lookupCache'[k].by = u
    /\ Alone(u, k) => newest'[k] <= lookupCache'[k].data
    /\ c.pc = "answered" =>
         /\ c.data \in Nat /\ c.age < TtlOf(k) /\ c.by = u
         /\ Alone(u, k) => c.data >= c.floor
    /\ \A p \in Lookers \ {q} :
         lookup[p].pc \in {"body", "store"} /\ KeyAt(p) = k /\ Alone(p, k) =>
           newest'[k] <= lookup[p].data /\ lookupCache'[k].data <= lookup[p].data

LEMMA LookupEnds ==
    ASSUME LookupInv, NEW q, NEW c, NEW k \in LookupKeys, NEW u \in Nat,
           LookupEnding(q, c, k, u)
    PROVE  LookupInv'
<1> USE DEF LookupEnding
<1>1. /\ LookupTypeOK /\ \A j \in LookupKeys : EntryTimed(j)
      /\ \A j \in LookupKeys : KeyOrdered(j)
      /\ \A p \in Lookers : CallTimed(p) /\ DataTimed(p)
  BY DEF LookupInv
<1>2. /\ lookup' \in [Lookers -> LookupRecord] /\ q \in Lookers
      /\ lookup'[q] = c /\ KeyAt(q)' = k
      /\ \A p \in Lookers : p # q =>
           lookup'[p] = lookup[p] /\ KeyAt(p)' = KeyAt(p)
  BY LookupBecame
<1>3. family' = family /\ lookupNow' = lookupNow /\ lookupNow \in Nat
  BY <1>1 DEF LookupBecomes, LookupTypeOK
<1>4. LookupTypeOK'
  BY <1>1, <1>2, <1>3 DEF LookupTypeOK
<1>5. ASSUME NEW j \in LookupKeys
      PROVE  EntryTimed(j)'
  <2>1. CASE j = k
    BY <2>1
  <2>2. CASE j # k
    BY <1>1, <1>3, <2>2 DEF EntryTimed
  <2>3. QED
    BY <2>1, <2>2
<1>6. \A j \in LookupKeys : newest[j] <= newest'[j] /\ newest[j] \in Nat
                            /\ newest'[j] \in Nat
  BY <1>1, <1>4 DEF LookupTypeOK
<1>7. ASSUME NEW p \in Lookers
      PROVE  CallTimed(p)' /\ DataTimed(p)'
  <2>1. CASE p = q
    BY <1>2, <2>1 DEF CallTimed, DataTimed, Working, Alone
  <2>2. CASE p # q
    <3>1. CallTimed(p) /\ DataTimed(p)
      BY <1>1
    <3>2. lookup'[p] = lookup[p] /\ KeyAt(p)' = KeyAt(p)
      BY <1>2, <2>2
    <3>3. KeyAt(p) \in LookupKeys /\ lookup[p].floor \in Nat
      BY <1>1, KeyAtIn DEF LookupTypeOK, LookupRecord
    <3>4. lookup[p].pc \in Working => lookup[p].floor <= newest'[KeyAt(p)]
      BY <1>6, <3>1, <3>3 DEF CallTimed
    <3>5. CallTimed(p)'
      BY <3>1, <3>2, <3>4 DEF CallTimed, Alone
    <3>6. DataTimed(p)'
      BY <1>3, <3>1, <3>2 DEF DataTimed
    <3>7. QED
      BY <3>5, <3>6
  <2>3. QED
    BY <2>1, <2>2
<1>8. ~Fetches(q)'
  BY <1>2 DEF Fetches
<1>9. ASSUME NEW j \in LookupKeys
      PROVE  KeyOrdered(j)'
  <2>1. KeyOrdered(j)
    BY <1>1
  <2>2. ASSUME NEW p \in Lookers, Fetches(p)', KeyAt(p)' = j
        PROVE  /\ Fetches(p) /\ KeyAt(p) = j /\ p # q
               /\ lookup'[p] = lookup[p]
    BY <1>2, <1>8, <2>2 DEF Fetches
  <2>3. \A p, r \in Lookers :
          /\ Fetches(p)' /\ Fetches(r)' /\ p # r
          /\ KeyAt(p)' = j /\ KeyAt(r)' = j
          => ~Alone(p, j)
    BY <2>1, <2>2 DEF KeyOrdered
  <2>4. ASSUME NEW p \in Lookers, lookup'[p].pc \in {"body", "store"},
               KeyAt(p)' = j, Alone(p, j)
        PROVE  /\ newest'[j] <= lookup'[p].data
               /\ lookupCache'[j].data # NoData =>
                    lookupCache'[j].data <= lookup'[p].data
    <3>1. Fetches(p)'
      BY <2>4 DEF Fetches
    <3>2. KeyAt(p) = j /\ p # q /\ lookup'[p] = lookup[p]
      BY <2>2, <2>4, <3>1
    <3>3. CASE j = k
      BY <2>4, <3>2, <3>3
    <3>4. CASE j # k
      BY <2>1, <2>4, <3>2, <3>4 DEF KeyOrdered
    <3>5. QED
      BY <3>3, <3>4
  <2>5. lookupCache'[j].data # NoData /\ Alone(lookupCache'[j].by, j) =>
          newest'[j] <= lookupCache'[j].data
    <3>1. CASE j = k
      BY <3>1
    <3>2. CASE j # k
      BY <2>1, <3>2 DEF KeyOrdered
    <3>3. QED
      BY <3>1, <3>2
  <2>6. \A p, i : Alone(p, i)' <=> Alone(p, i)
    BY DEF Alone
  <2>7. QED
    BY <2>3, <2>4, <2>5, <2>6 DEF KeyOrdered
<1>10. QED
  BY <1>4, <1>5, <1>7, <1>9 DEF LookupInv

(* The steps.                                                              *)
LEMMA NoLookupIs == NoLookup \in LookupRecord
BY ServiceDomain DEF NoLookup, LookupRecord, LookupPc

LEMMA AskingIs ==
    ASSUME LookupInv, NEW s \in DOMAIN Service, NEW b \in BOOLEAN
    PROVE  /\ Asking(s, b) \in LookupRecord /\ Asking(s, b).pc = "read"
           /\ Asking(s, b).floor = newest[KeyIn(Asking(s, b))]
<1>1. newest[Service[s].key] \in Nat
  BY KeyOf DEF LookupInv, LookupTypeOK
<1>2. PICK n \in Nat : n = newest[Service[s].key]
  BY <1>1
<1>3. PICK c : c = [NoLookup EXCEPT !.pc = "read", !.service = s,
                                     !.refuses = b, !.floor = n]
  OBVIOUS
<1>4. Asking(s, b) = c
  BY <1>2, <1>3, Zenon DEF Asking
<1>5. c \in LookupRecord /\ c.pc = "read" /\ c.floor = n /\ c.service = s
  BY <1>3, NoLookupIs DEF LookupRecord, LookupPc
<1>6. QED
  BY <1>2, <1>4, <1>5 DEF KeyIn

LEMMA EndedIs ==
    ASSUME NEW s \in DOMAIN Service, NEW pc \in LookupPc
    PROVE  /\ [NoLookup EXCEPT !.pc = pc, !.service = s] \in LookupRecord
           /\ [NoLookup EXCEPT !.pc = pc, !.service = s].pc = pc
BY NoLookupIs DEF LookupRecord

LEMMA LookupStart ==
    ASSUME LookupInv, NEW q \in Lookers, StartLookup(q)
    PROVE  LookupInv'
<1>1. /\ family' = family /\ lookupCache' = lookupCache
      /\ lookupNow' = lookupNow /\ newest' = newest /\ crossed' = crossed
  BY DEF StartLookup
<1>2. PICK s \in family :
        \/ lookup' = [lookup EXCEPT ![q] = Asking(s, Service[s].refuses)]
        \/ lookup' = [lookup EXCEPT ![q] =
                        [NoLookup EXCEPT !.pc = "skipped", !.service = s]]
  BY DEF StartLookup
<1>3. s \in DOMAIN Service /\ Service[s].refuses \in BOOLEAN
  BY KeyOf DEF LookupInv, LookupTypeOK
<1>4. ASSUME NEW c \in LookupRecord, lookup' = [lookup EXCEPT ![q] = c],
             c.pc \in {"read", "skipped"},
             c.pc = "read" => c.floor = newest[KeyIn(c)]
      PROVE  LookupInv'
  <2>1. LookupBecomes(q, c)
    BY <1>1, <1>4 DEF LookupBecomes
  <2>2. c.pc \in Working => c.floor <= newest[KeyIn(c)]
    <3>1. c.service \in DOMAIN Service
      BY DEF LookupRecord
    <3>2. newest[KeyIn(c)] \in Nat
      BY <3>1, KeyOf DEF KeyIn, LookupInv, LookupTypeOK
    <3>3. QED
      BY <1>4, <3>2 DEF Working
  <2>3. QED
    BY <1>1, <1>4, <2>1, <2>2, LookupGoesOn
<1>5. CASE lookup' = [lookup EXCEPT ![q] = Asking(s, Service[s].refuses)]
  BY <1>3, <1>4, <1>5, AskingIs
<1>6. CASE lookup' = [lookup EXCEPT ![q] =
                        [NoLookup EXCEPT !.pc = "skipped", !.service = s]]
  BY <1>3, <1>4, <1>6, EndedIs DEF LookupPc
<1>7. QED
  BY <1>2, <1>5, <1>6

(* Where the catch block leads.                                            *)
LEMMA LookupFails ==
    ASSUME LookupInv, NEW q \in Lookers, LookupFailed(q),
           family' = family, lookupNow' = lookupNow, newest' = newest,
           lookupCache' = lookupCache, crossed \subseteq crossed'
    PROVE  LookupInv'
<1>1. PICK s \in DOMAIN Service : s = lookup[q].service
  BY DEF LookupInv, LookupTypeOK, LookupRecord
<1>2. PICK how \in OnErrors : how = Of(q).onError
  BY <1>1, KeyOf DEF Of
<1>3. PICK b \in BOOLEAN : b = Of(q).refuses
  BY <1>1, KeyOf DEF Of
<1>4. ASSUME NEW c \in LookupRecord, lookup' = [lookup EXCEPT ![q] = c],
             c.pc \in {"read", "throw", "fallback", "open"},
             c.pc = "read" => c.floor = newest[KeyIn(c)]
      PROVE  LookupInv'
  <2>1. LookupBecomes(q, c)
    BY <1>4 DEF LookupBecomes
  <2>2. c.pc \in Working => c.floor <= newest[KeyIn(c)]
    <3>1. c.service \in DOMAIN Service
      BY DEF LookupRecord
    <3>2. newest[KeyIn(c)] \in Nat
      BY <3>1, KeyOf DEF KeyIn, LookupInv, LookupTypeOK
    <3>3. QED
      BY <1>4, <3>2 DEF Working
  <2>3. QED
    BY <1>4, <2>1, <2>2, LookupGoesOn
<1>5. CASE how \in DOMAIN Service
  <2>1. lookup' = [lookup EXCEPT ![q] = Asking(how, b)]
    BY <1>2, <1>3, <1>5 DEF LookupFailed
  <2>2. QED
    BY <1>4, <1>5, <2>1, AskingIs
<1>6. CASE how \notin DOMAIN Service
  <2>1. lookup' = [lookup EXCEPT ![q] =
                     [NoLookup EXCEPT !.pc = how, !.service = s]]
    BY <1>1, <1>2, <1>6 DEF LookupFailed
  <2>2. how \in {"throw", "fallback", "open"}
    BY <1>6, ServiceDomain DEF OnErrors
  <2>3. how \in LookupPc
    BY <2>2 DEF LookupPc
  <2>4. PICK c : c = [NoLookup EXCEPT !.pc = how, !.service = s]
    OBVIOUS
  <2>5. c \in LookupRecord /\ c.pc = how
    BY <2>3, <2>4, EndedIs
  <2>6. lookup' = [lookup EXCEPT ![q] = c]
    BY <2>1, <2>4
  <2>7. QED
    BY <1>4, <2>2, <2>5, <2>6
<1>7. QED
  BY <1>5, <1>6

(* A call whose place alone changes.                                       *)
LEMMA LookupPlace ==
    ASSUME LookupInv, NEW q \in Lookers, NEW pc \in LookupPc,
           lookup' = [lookup EXCEPT ![q].pc = pc],
           family' = family, lookupNow' = lookupNow
    PROVE  \E c \in LookupRecord :
             /\ LookupBecomes(q, c) /\ c.pc = pc
             /\ c.service = lookup[q].service /\ c.data = lookup[q].data
             /\ c.floor = lookup[q].floor
<1>1. lookup[q] \in LookupRecord
  BY DEF LookupInv, LookupTypeOK
<1>2. PICK c : c = [lookup[q] EXCEPT !.pc = pc]
  OBVIOUS
<1>3. /\ c \in LookupRecord /\ c.pc = pc
      /\ c.service = lookup[q].service /\ c.data = lookup[q].data
      /\ c.floor = lookup[q].floor
  BY <1>1, <1>2 DEF LookupRecord
<1>4. lookup' = [lookup EXCEPT ![q] = c]
  BY <1>2
<1>5. QED
  BY <1>3, <1>4 DEF LookupBecomes

LEMMA LookupRefuses ==
    ASSUME LookupInv, NEW q \in Lookers,
           lookup' = [lookup EXCEPT ![q] =
                        [lookup[q] EXCEPT !.pc = "refused", !.data = NoData]],
           family' = family, lookupNow' = lookupNow
    PROVE  \E c \in LookupRecord :
             /\ LookupBecomes(q, c) /\ c.pc = "refused"
             /\ c.service = lookup[q].service
<1>1. lookup[q] \in LookupRecord
  BY DEF LookupInv, LookupTypeOK
<1>2. PICK c : c = [lookup[q] EXCEPT !.pc = "refused", !.data = NoData]
  OBVIOUS
<1>3. c \in LookupRecord /\ c.pc = "refused" /\ c.service = lookup[q].service
  BY <1>1, <1>2 DEF LookupRecord, LookupPc
<1>4. lookup' = [lookup EXCEPT ![q] = c]
  BY <1>2
<1>5. QED
  BY <1>3, <1>4 DEF LookupBecomes

LEMMA LookupEnters ==
    ASSUME LookupInv, NEW q \in Lookers, Enters(q),
           family' = family, lookupNow' = lookupNow, newest' = newest,
           lookupCache' = lookupCache, lookup[q].pc \in {"read", "count"}
    PROVE  LookupInv'
<1>1. PICK c \in LookupRecord :
        /\ LookupBecomes(q, c) /\ c.pc = "fetch"
        /\ c.service = lookup[q].service /\ c.floor = lookup[q].floor
  <2>1. lookup' = [lookup EXCEPT ![q].pc = "fetch"] /\ "fetch" \in LookupPc
    BY DEF Enters, LookupPc
  <2>2. QED
    BY <2>1, LookupPlace
<1>2. KeyIn(c) = KeyAt(q) /\ KeyAt(q) = Of(q).key
  BY <1>1 DEF KeyIn, KeyAt, Of
<1>3. c.floor <= newest[KeyIn(c)]
  BY <1>1, <1>2 DEF LookupInv, CallTimed, Working
<1>4. PICK others :
        /\ others = {p \in Lookers \ {q} : Fetching(p, Of(q).key)}
        /\ crossed' = crossed \cup
             IF others = {} THEN {} ELSE {<<p, Of(q).key>> : p \in others \cup {q}}
  BY Zenon DEF Enters
<1>5. ASSUME NEW p \in Lookers \ {q}, Fetches(p), KeyAt(p) = KeyIn(c)
      PROVE  ~Alone(p, KeyIn(c))' /\ ~Alone(q, KeyIn(c))'
  <2>1. Fetching(p, Of(q).key)
    BY <1>2, <1>5 DEF Fetching, Fetches, KeyAt, Of
  <2>2. p \in others
    BY <1>4, <2>1
  <2>3. <<p, Of(q).key>> \in crossed' /\ <<q, Of(q).key>> \in crossed'
    BY <1>4, <2>2
  <2>4. QED
    BY <1>1, <1>2, <2>3, LookupBecame DEF Alone
<1>6. crossed \subseteq crossed'
  BY <1>4
<1>7. QED
  BY <1>1, <1>3, <1>5, <1>6, LookupGoesOn

LEMMA LookupCount ==
    ASSUME LookupInv, NEW q \in Lookers, CountIpCall(q)
    PROVE  LookupInv'
BY LookupEnters DEF CountIpCall

LEMMA LookupFetched ==
    ASSUME LookupInv, NEW q \in Lookers, FetchAnswered(q)
    PROVE  LookupInv'
<1>1. /\ family' = family /\ lookupCache' = lookupCache
      /\ lookupNow' = lookupNow /\ newest' = newest /\ crossed' = crossed
      /\ lookup[q].pc = "fetch"
  BY DEF FetchAnswered
<1>2. CASE LookupFailed(q)
  BY <1>1, <1>2, LookupFails
<1>3. CASE lookup' = [lookup EXCEPT ![q] =
                        [lookup[q] EXCEPT !.pc = "body", !.data = lookupNow]]
  <2>1. lookup[q] \in LookupRecord /\ lookupNow \in Nat
    BY DEF LookupInv, LookupTypeOK
  <2>2. PICK c : c = [lookup[q] EXCEPT !.pc = "body", !.data = lookupNow]
    OBVIOUS
  <2>3. /\ c \in LookupRecord /\ c.pc = "body" /\ c.data = lookupNow
        /\ c.service = lookup[q].service /\ c.floor = lookup[q].floor
    BY <2>1, <2>2 DEF LookupRecord, LookupPc
  <2>4. LookupBecomes(q, c)
    BY <1>1, <1>3, <2>2, <2>3 DEF LookupBecomes
  <2>5. KeyIn(c) = KeyAt(q) /\ Fetches(q)
    BY <1>1, <2>3 DEF KeyIn, KeyAt, Fetches
  <2>6. c.floor <= newest[KeyIn(c)]
    BY <1>1, <2>3, <2>5 DEF LookupInv, CallTimed, Working
  <2>7. QED
    BY <1>1, <2>3, <2>4, <2>5, <2>6, LookupGoesOn
<1>4. QED
  BY <1>2, <1>3 DEF FetchAnswered

LEMMA LookupBody ==
    ASSUME LookupInv, NEW q \in Lookers, BodyRead(q)
    PROVE  LookupInv'
<1>1. /\ family' = family /\ lookupCache' = lookupCache
      /\ lookupNow' = lookupNow /\ newest' = newest /\ crossed' = crossed
      /\ lookup[q].pc = "body"
  BY DEF BodyRead
<1>2. CASE LookupFailed(q)
  BY <1>1, <1>2, LookupFails
<1>3. CASE lookup' = [lookup EXCEPT ![q].pc = "store"]
  <2>1. PICK c \in LookupRecord :
          /\ LookupBecomes(q, c) /\ c.pc = "store"
          /\ c.service = lookup[q].service /\ c.data = lookup[q].data
          /\ c.floor = lookup[q].floor
    BY <1>1, <1>3, LookupPlace DEF LookupPc
  <2>2. KeyIn(c) = KeyAt(q) /\ Fetches(q)
    BY <1>1, <2>1 DEF KeyIn, KeyAt, Fetches
  <2>3. c.floor <= newest[KeyIn(c)]
    BY <1>1, <2>1, <2>2 DEF LookupInv, CallTimed, Working
  <2>4. QED
    BY <1>1, <2>1, <2>2, <2>3, LookupGoesOn
<1>4. CASE lookup' = [lookup EXCEPT ![q] =
                        [lookup[q] EXCEPT !.pc = "refused", !.data = NoData]]
  <2>1. PICK c \in LookupRecord : LookupBecomes(q, c) /\ c.pc = "refused"
    BY <1>1, <1>4, LookupRefuses
  <2>2. QED
    BY <1>1, <2>1, LookupGoesOn DEF Working
<1>5. QED
  BY <1>2, <1>3, <1>4 DEF BodyRead

(* What is answered from Redis, or stored there and answered.              *)
LookupAnswering(q, d, t, u, k) ==
    /\ Answered(q, d, t, u) /\ k = KeyAt(q) /\ lookup[q].pc \in Working
    /\ family' = family /\ lookupNow' = lookupNow /\ crossed' = crossed
    /\ t <= lookupNow /\ lookupNow - t < TtlOf(k) /\ d <= lookupNow
    /\ lookupCache' \in [LookupKeys -> EntryRecord]
    /\ \A j \in LookupKeys : j # k => lookupCache'[j] = lookupCache[j]
    /\ lookupCache'[k].data = d /\ lookupCache'[k].stored = t
    /\ lookupCache'[k].expires = t + TtlOf(k) /\ lookupCache'[k].by = u
    /\ Alone(u, k) => newest[k] <= d
    /\ \A p \in Lookers \ {q} :
         lookup[p].pc \in {"body", "store"} /\ KeyAt(p) = k /\ Alone(p, k) =>
           d <= lookup[p].data

LEMMA LookupAnswers ==
    ASSUME LookupInv, NEW q \in Lookers, NEW d \in Nat, NEW t \in Nat,
           NEW u \in Nat, NEW k \in LookupKeys,
           LookupAnswering(q, d, t, u, k)
    PROVE  LookupInv'
<1> USE DEF LookupAnswering
<1>1. LookupTypeOK /\ EntryTimed(k) /\ CallTimed(q)
  BY DEF LookupInv
<1>2. /\ newest \in [LookupKeys -> Nat] /\ newest[k] \in Nat
      /\ lookup[q] \in LookupRecord /\ lookupNow \in Nat
  BY <1>1 DEF LookupTypeOK
<1>3. k = Of(q).key
  BY DEF KeyAt, Of
<1>4. newest[k] <= lookupNow
  BY <1>1 DEF EntryTimed
<1>5. lookup[q].floor \in Nat /\ lookup[q].floor <= newest[k]
  BY <1>1, <1>2 DEF CallTimed, LookupRecord
<1>6. ASSUME NEW p \in Lookers \ {q}, lookup[p].pc \in {"body", "store"},
             KeyAt(p) = k, Alone(p, k)
      PROVE  newest[k] <= lookup[p].data /\ d <= lookup[p].data
  <2>1. KeyOrdered(k)
    BY DEF LookupInv
  <2>2. QED
    BY <1>6, <2>1 DEF KeyOrdered
<1>7. CASE /\ lookup' = [lookup EXCEPT ![q] =
                [lookup[q] EXCEPT !.pc = "answered", !.data = d,
                                  !.age = lookupNow - t, !.by = u]]
           /\ newest' = [newest EXCEPT ![k] = IF d > newest[k] THEN d
                                              ELSE newest[k]]
  <2>1. PICK age \in Int : age = lookupNow - t
    BY <1>2
  <2>2. PICK c : c = [lookup[q] EXCEPT !.pc = "answered", !.data = d,
                                       !.age = age, !.by = u]
    OBVIOUS
  <2>3. /\ c \in LookupRecord /\ c.pc = "answered" /\ c.data = d
        /\ c.age = age /\ c.by = u /\ c.service = lookup[q].service
        /\ c.floor = lookup[q].floor
    BY <1>2, <2>2 DEF LookupRecord, LookupPc
  <2>4. LookupBecomes(q, c)
    BY <1>7, <2>1, <2>2, <2>3 DEF LookupBecomes
  <2>5. k = KeyIn(c)
    BY <2>3 DEF KeyAt, KeyIn
  <2>6. PICK n \in Nat : n = IF d > newest[k] THEN d ELSE newest[k]
    BY <1>2
  <2>7. /\ newest' \in [LookupKeys -> Nat] /\ newest'[k] = n
        /\ \A j \in LookupKeys : j # k => newest'[j] = newest[j]
    BY <1>2, <1>7, <2>6
  <2>8. n >= newest[k] /\ n <= lookupNow /\ n >= d
        /\ (newest[k] <= d => n = d)
    BY <1>2, <1>4, <2>6
  <2>9. EntryTimed(k)'
    BY <2>7, <2>8 DEF EntryTimed
  <2>10. Alone(u, k) => n = d /\ newest[k] <= d
    BY <2>8
  <2>11. c.age < TtlOf(k) /\ (Alone(u, k) => c.data >= c.floor)
    BY <1>2, <1>5, <2>1, <2>3, <2>10
  <2>12. \A p \in Lookers \ {q} :
           lookup[p].pc \in {"body", "store"} /\ KeyAt(p) = k /\ Alone(p, k) =>
             newest'[k] <= lookup[p].data /\ lookupCache'[k].data <= lookup[p].data
    BY <1>6, <2>6, <2>7
  <2>13. Alone(u, k) => newest'[k] <= lookupCache'[k].data
    BY <2>7, <2>10
  <2>14. \A j \in LookupKeys : j # k =>
           newest'[j] = newest[j] /\ lookupCache'[j] = lookupCache[j]
    BY <2>7
  <2>15. newest'[k] >= newest[k] /\ c.data \in Nat /\ c.by = u
         /\ c.pc \in {"answered", "refused"}
    BY <2>3, <2>7, <2>8
  <2>16. QED
    <3>1. LookupEnding(q, c, k, u)
      BY <2>4, <2>5, <2>7, <2>9, <2>11, <2>12, <2>13, <2>14, <2>15 DEF LookupEnding
    <3>2. QED
      BY <3>1, LookupEnds
<1>8. CASE /\ lookup' = [lookup EXCEPT ![q] =
                [lookup[q] EXCEPT !.pc = "refused", !.data = NoData]]
           /\ newest' = newest
  <2>1. PICK c \in LookupRecord : /\ LookupBecomes(q, c) /\ c.pc = "refused"
                                  /\ c.service = lookup[q].service
    BY <1>8, LookupRefuses
  <2>2. k = KeyIn(c)
    BY <2>1 DEF KeyAt, KeyIn
  <2>3. EntryTimed(k)'
    BY <1>4, <1>8 DEF EntryTimed
  <2>4. ASSUME NEW p \in Lookers \ {q}, lookup[p].pc \in {"body", "store"},
               KeyAt(p) = k, Alone(p, k)
        PROVE  newest'[k] <= lookup[p].data /\ lookupCache'[k].data <= lookup[p].data
    BY <1>8, <1>6, <2>4
  <2>5. Alone(u, k) => newest'[k] <= lookupCache'[k].data
    BY <1>8
  <2>6. \A j \in LookupKeys : j # k =>
          newest'[j] = newest[j] /\ lookupCache'[j] = lookupCache[j]
    BY <1>8
  <2>7. newest'[k] >= newest[k] /\ newest' \in [LookupKeys -> Nat]
        /\ c.pc \in {"answered", "refused"} /\ c.pc # "answered"
    BY <1>2, <1>8, <2>1
  <2>8. QED
    <3>1. LookupEnding(q, c, k, u)
      BY <2>1, <2>2, <2>3, <2>4, <2>5, <2>6, <2>7 DEF LookupEnding
    <3>2. QED
      BY <3>1, LookupEnds
<1>9. QED
  BY <1>3, <1>7, <1>8 DEF Answered

LEMMA LookupRead ==
    ASSUME LookupInv, NEW q \in Lookers, ReadLookupCache(q)
    PROVE  LookupInv'
<1>1. /\ family' = family /\ lookupCache' = lookupCache
      /\ lookupNow' = lookupNow /\ lookup[q].pc = "read"
  BY DEF ReadLookupCache
<1>2. LookupTypeOK /\ CallTimed(q)
  BY DEF LookupInv
<1>3. PICK k \in LookupKeys : k = KeyAt(q) /\ k = Of(q).key
  BY <1>2, KeyAtIn
<1>4. ASSUME NEW c \in LookupRecord, LookupBecomes(q, c),
             c.pc \in {"count", "throw"}, newest' = newest,
             c.service = lookup[q].service, c.floor = lookup[q].floor,
             crossed \subseteq crossed'
      PROVE  LookupInv'
  <2>1. KeyIn(c) = k
    BY <1>3, <1>4 DEF KeyIn, KeyAt
  <2>2. c.floor <= newest[KeyIn(c)]
    BY <1>1, <1>2, <1>3, <1>4, <2>1 DEF CallTimed, Working
  <2>3. QED
    BY <1>1, <1>4, <2>2, LookupGoesOn
<1>5. CASE /\ lookupCache[k].data # NoData /\ lookupNow < lookupCache[k].expires
           /\ Answered(q, lookupCache[k].data, lookupCache[k].stored,
                       lookupCache[k].by)
           /\ UNCHANGED crossed
  <2>1. PICK d \in Nat, t \in Nat, u \in Nat :
          /\ d = lookupCache[k].data /\ t = lookupCache[k].stored
          /\ u = lookupCache[k].by
    BY <1>2, <1>5 DEF LookupTypeOK, EntryRecord
  <2>2. /\ d <= lookupNow /\ t <= lookupNow
        /\ lookupCache[k].expires = t + TtlOf(k)
    BY <1>5, <2>1 DEF LookupInv, EntryTimed
  <2>3. TtlOf(k) \in Nat /\ lookupNow \in Nat
    BY <1>2, <1>3, KeyAtIn DEF LookupTypeOK
  <2>4. lookupNow - t < TtlOf(k)
    BY <1>5, <2>1, <2>2, <2>3
  <2>5. /\ Alone(u, k) => newest[k] <= d
        /\ \A p \in Lookers \ {q} :
             lookup[p].pc \in {"body", "store"} /\ KeyAt(p) = k /\ Alone(p, k) =>
               d <= lookup[p].data
    BY <1>5, <2>1 DEF LookupInv, KeyOrdered
  <2>6. Answered(q, d, t, u) /\ crossed' = crossed
    BY <1>5, <2>1
  <2>7. /\ lookupCache' \in [LookupKeys -> EntryRecord]
        /\ \A j \in LookupKeys : j # k => lookupCache'[j] = lookupCache[j]
        /\ lookupCache'[k].data = d /\ lookupCache'[k].stored = t
        /\ lookupCache'[k].expires = t + TtlOf(k) /\ lookupCache'[k].by = u
    BY <1>1, <1>2, <2>1, <2>2 DEF LookupTypeOK
  <2>8. lookup[q].pc \in Working
    BY <1>1 DEF Working
  <2>9. QED
    <3>1. LookupAnswering(q, d, t, u, k)
      BY <1>1, <1>3, <2>2, <2>4, <2>5, <2>6, <2>7, <2>8 DEF LookupAnswering
    <3>2. QED
      BY <3>1, LookupAnswers
<1>6. CASE UNCHANGED newest /\ Enters(q)
  BY <1>1, <1>6, LookupEnters
<1>7. CASE /\ UNCHANGED newest /\ UNCHANGED crossed
           /\ \/ LookupFailed(q)
              \/ \E pc \in {"count", "throw"} :
                   lookup' = [lookup EXCEPT ![q].pc = pc]
  <2>1. newest' = newest /\ crossed \subseteq crossed'
    BY <1>7
  <2>2. CASE LookupFailed(q)
    BY <1>1, <2>1, <2>2, LookupFails
  <2>3. ASSUME NEW pc \in {"count", "throw"},
               lookup' = [lookup EXCEPT ![q].pc = pc]
        PROVE  LookupInv'
    <3>1. family' = family /\ lookupNow' = lookupNow /\ pc \in LookupPc
      BY <1>1 DEF LookupPc
    <3>2. PICK c \in LookupRecord :
            /\ LookupBecomes(q, c) /\ c.pc = pc
            /\ c.service = lookup[q].service /\ c.floor = lookup[q].floor
      BY <2>3, <3>1, LookupPlace
    <3>3. QED
      BY <1>4, <2>1, <3>2
  <2>4. QED
    BY <1>7, <2>2, <2>3
<1>8. QED
  BY <1>3, <1>5, <1>6, <1>7 DEF ReadLookupCache

LEMMA LookupStored ==
    ASSUME LookupInv, NEW q \in Lookers, StoreLookup(q)
    PROVE  LookupInv'
<1>1. StoreAs(q, Of(q).ttl)
  BY DEF StoreLookup
<1>2. /\ family' = family /\ lookupNow' = lookupNow /\ crossed' = crossed
      /\ lookup[q].pc = "store"
  BY <1>1 DEF StoreAs
<1>3. LookupTypeOK /\ CallTimed(q) /\ DataTimed(q)
  BY DEF LookupInv
<1>4. PICK k \in LookupKeys : k = KeyAt(q) /\ k = Of(q).key
  BY <1>3, KeyAtIn
<1>5. PICK ttl \in Nat \ {0} : ttl = Of(q).ttl /\ ttl = TtlOf(k)
  BY <1>3, <1>4, KeyAtIn
<1>6. PICK d \in Nat : d = lookup[q].data
  BY <1>2, <1>3 DEF CallTimed
<1>7. d <= lookupNow /\ lookupNow \in Nat
  BY <1>2, <1>3, <1>6 DEF DataTimed, LookupTypeOK
<1>8. CASE /\ lookupCache' = [lookupCache EXCEPT ![k] =
                [data |-> d, expires |-> lookupNow + ttl, stored |-> lookupNow,
                 by |-> q]]
           /\ Answered(q, d, lookupNow, q)
  <2>1. PICK u \in Nat : u = q
    BY LookupAssumption
  <2>2. PICK e : e = [data |-> d, expires |-> lookupNow + ttl,
                      stored |-> lookupNow, by |-> u]
    OBVIOUS
  <2>3. e \in EntryRecord /\ e.data = d /\ e.stored = lookupNow
        /\ e.expires = lookupNow + ttl /\ e.by = u
    BY <1>7, <2>2 DEF EntryRecord
  <2>4. /\ lookupCache' \in [LookupKeys -> EntryRecord]
        /\ lookupCache'[k] = e
        /\ \A j \in LookupKeys : j # k => lookupCache'[j] = lookupCache[j]
    BY <1>3, <1>8, <2>1, <2>2, <2>3 DEF LookupTypeOK
  <2>5. /\ Alone(u, k) => newest[k] <= d
        /\ \A p \in Lookers \ {q} :
             lookup[p].pc \in {"body", "store"} /\ KeyAt(p) = k /\ Alone(p, k) =>
               d <= lookup[p].data
    <3>1. KeyOrdered(k)
      BY DEF LookupInv
    <3>2. Alone(q, k) => newest[k] <= d
      BY <1>2, <1>4, <1>6, <3>1 DEF KeyOrdered
    <3>3. Fetches(q)
      BY <1>2 DEF Fetches
    <3>4. \A p \in Lookers \ {q} :
            Fetches(p) /\ KeyAt(p) = k => ~Alone(p, k)
      BY <1>4, <3>1, <3>3 DEF KeyOrdered
    <3>5. QED
      BY <2>1, <3>2, <3>4 DEF Fetches
  <2>6. lookupNow - lookupNow < TtlOf(k) /\ lookupNow <= lookupNow
    BY <1>5, <1>7
  <2>7. lookup[q].pc \in Working
    BY <1>2 DEF Working
  <2>8. /\ lookupCache'[k].data = d /\ lookupCache'[k].stored = lookupNow
        /\ lookupCache'[k].expires = lookupNow + TtlOf(k)
        /\ lookupCache'[k].by = u
    BY <1>5, <2>3, <2>4
  <2>9. Answered(q, d, lookupNow, u)
    BY <1>8, <2>1
  <2>10. QED
    <3>1. LookupAnswering(q, d, lookupNow, u, k)
      BY <1>2, <1>4, <1>7, <2>4, <2>5, <2>6, <2>7, <2>8, <2>9 DEF LookupAnswering
    <3>2. QED
      BY <1>7, <3>1, LookupAnswers
<1>9. CASE LookupFailed(q) /\ UNCHANGED <<lookupCache, newest>>
  BY <1>2, <1>9, LookupFails
<1>10. QED
  BY <1>1, <1>4, <1>5, <1>6, <1>8, <1>9 DEF StoreAs

LEMMA LookupTicks ==
    ASSUME LookupInv, LookupTick
    PROVE  LookupInv'
<1>1. /\ LookupTypeOK /\ \A k \in LookupKeys : EntryTimed(k)
      /\ \A k \in LookupKeys : KeyOrdered(k)
      /\ \A p \in Lookers : CallTimed(p) /\ DataTimed(p)
  BY DEF LookupInv
<1>2. /\ family' = family /\ lookupCache' = lookupCache /\ newest' = newest
      /\ crossed' = crossed /\ lookupNow' = lookupNow + 1
      /\ lookupNow \in Nat
  BY <1>1 DEF LookupTick, LookupTypeOK
<1>3. lookup' = [q \in Lookers |->
                   IF lookup[q].pc = "fetch"
                   THEN [lookup[q] EXCEPT !.waited = 1] ELSE lookup[q]]
  BY DEF LookupTick
<1>4. ASSUME NEW p \in Lookers
      PROVE  /\ lookup'[p] \in LookupRecord /\ lookup'[p].pc = lookup[p].pc
             /\ lookup'[p].service = lookup[p].service
             /\ lookup'[p].data = lookup[p].data
             /\ lookup'[p].floor = lookup[p].floor
             /\ lookup'[p].age = lookup[p].age
             /\ lookup'[p].by = lookup[p].by
  <2>1. lookup[p] \in LookupRecord
    BY <1>1 DEF LookupTypeOK
  <2>2. PICK c : c = [lookup[p] EXCEPT !.waited = 1]
    OBVIOUS
  <2>3. /\ c \in LookupRecord /\ c.pc = lookup[p].pc
        /\ c.service = lookup[p].service /\ c.data = lookup[p].data
        /\ c.floor = lookup[p].floor /\ c.age = lookup[p].age
        /\ c.by = lookup[p].by
    BY <2>1, <2>2 DEF LookupRecord
  <2>4. lookup'[p] = c \/ lookup'[p] = lookup[p]
    BY <1>3, <2>2
  <2>5. QED
    BY <2>1, <2>3, <2>4
<1>5. \A p \in Lookers : KeyAt(p)' = KeyAt(p)
  BY <1>4 DEF KeyAt
<1>6. DOMAIN lookup' = Lookers /\ lookup' = [p \in Lookers |-> lookup'[p]]
  BY <1>3
<1>7. LookupTypeOK'
  <2>1. lookup' \in [Lookers -> LookupRecord]
    BY <1>4, <1>6
  <2>2. QED
    BY <1>1, <1>2, <2>1 DEF LookupTypeOK
<1>8. ASSUME NEW k \in LookupKeys
      PROVE  EntryTimed(k)'
  <2>1. /\ newest[k] \in Nat /\ lookupCache[k].stored \in Nat
        /\ lookupCache[k].data # NoData => lookupCache[k].data \in Nat
    BY <1>1 DEF LookupTypeOK, EntryRecord
  <2>2. EntryTimed(k)
    BY <1>1
  <2>3. QED
    BY <1>2, <2>1, <2>2 DEF EntryTimed
<1>9. \A k \in LookupKeys : KeyOrdered(k)'
  BY <1>1, <1>2, <1>4, <1>5 DEF KeyOrdered, Fetches, Alone
<1>10. ASSUME NEW p \in Lookers
       PROVE  CallTimed(p)' /\ DataTimed(p)'
  <2>1. CallTimed(p) /\ DataTimed(p)
    BY <1>1
  <2>2. CallTimed(p)'
    BY <1>2, <1>4, <1>5, <2>1 DEF CallTimed, Alone
  <2>3. lookup[p].pc \in {"body", "store"} => lookup[p].data \in Nat
    BY <2>1 DEF CallTimed
  <2>4. DataTimed(p)'
    BY <1>2, <1>4, <2>1, <2>3 DEF DataTimed
  <2>5. QED
    BY <2>2, <2>4
<1>11. QED
  BY <1>7, <1>8, <1>9, <1>10 DEF LookupInv

LEMMA LookupIdle ==
    ASSUME LookupInv, UNCHANGED lookupVars
    PROVE  LookupInv'
<1>1. /\ family' = family /\ lookup' = lookup /\ lookupCache' = lookupCache
      /\ lookupNow' = lookupNow /\ newest' = newest /\ crossed' = crossed
  BY DEF lookupVars
<1>2. LookupTypeOK'
  BY <1>1 DEF LookupInv, LookupTypeOK
<1>3. \A k \in LookupKeys : EntryTimed(k)'
  BY <1>1 DEF LookupInv, EntryTimed
<1>4. \A k \in LookupKeys : KeyOrdered(k)'
  BY <1>1 DEF LookupInv, KeyOrdered, Fetches, KeyAt, Alone
<1>5. \A p \in Lookers : CallTimed(p)' /\ DataTimed(p)'
  BY <1>1 DEF LookupInv, CallTimed, DataTimed, KeyAt, Alone
<1>6. QED
  BY <1>2, <1>3, <1>4, <1>5 DEF LookupInv

(* For any number of calls and failures of Redis, whatever the times to    *)
(* live: a datum out of Redis has been there for less than its time to     *)
(* live, and nobody is given an older datum than the key had given before  *)
(* he asked, unless the call that stored it was not alone in fetching the  *)
(* key.  (public-api.service.js, currency and IP validators.)              *)
THEOREM LookupsAreFresh == LookupSpec => []LookupFresh
<1>1. LookupInit => LookupInv
  BY LookupInitial
<1>2. LookupInv /\ [LookupNext]_lookupVars => LookupInv'
  BY LookupIdle, LookupStart, LookupRead, LookupCount, LookupFetched,
     LookupBody, LookupStored, LookupTicks DEF LookupNext
<1>3. LookupInv => LookupFresh
  BY LookupIsFresh
<1>4. QED
  BY <1>1, <1>2, <1>3, PTL DEF LookupSpec

-----------------------------------------------------------------------------
(* Sessions: what Redis keeps of an account.                               *)

Ops == {"none", "login", "view", "logout", "refresh", "update", "forgot",
        "otp", "change", "resend", "email"}

SessionPc ==
    {"idle", "storeToken", "fill", "dropCopy", "issue", "writeProfile", "mail",
     "dropOtp", "mark", "savePassword", "dropMark", "dropToken",
     "storeVerify", "saveVerified", "dropVerify", "done", "cut"}

(* Who a value comes from: 0 stands for the requests before.               *)
Sources == AuthRequests \cup {0}

CopyRecord == [profile : Sources \cup {None}, isVerified : BOOLEAN]

CacheRecord == [copy : CopyRecord, by : Sources, since : SUBSET AuthRequests]

RequestRecord ==
    [op : Ops, pc : SessionPc, copy : CopyRecord, password : Sources,
     key : Sources \cup {None}, overtaken : BOOLEAN,
     ended : SUBSET AuthRequests]

SessionTypeOK ==
    /\ account \in [profile : Sources, password : Sources, isVerified : BOOLEAN]
    /\ redis \in [Keys -> Sources \cup {None}]
    /\ userCache \in CacheRecord
    /\ authReq \in [AuthRequests -> RequestRecord]

(* Whose place it is.                                                      *)
PlaceSound(c) ==
    /\ c.pc = "storeToken" => c.op = "login"
    /\ c.pc = "fill" => c.op \in {"login", "view"}
    /\ c.pc = "dropCopy" => c.op \in {"logout", "update", "change"}
    /\ c.pc \in {"savePassword", "dropMark", "dropToken"} => c.op = "change"
    /\ c.pc \in {"dropOtp", "mark"} => c.op = "otp"
    /\ c.pc = "writeProfile" => c.op = "update"
    /\ c.pc = "issue" => c.op = "refresh"
    /\ c.pc = "mail" => c.op = "forgot"
    /\ c.pc = "storeVerify" => c.op = "resend"
    /\ c.pc \in {"saveVerified", "dropVerify"} => c.op = "email"

(* What a request is about to store is what the account is, unless it was  *)
(* overtaken.                                                              *)
HeldSound(c) ==
    c.pc \in {"storeToken", "fill"} /\ ~c.overtaken =>
        c.copy = AccountCopy /\ c.password = account.password

(* A code, and a mark, that was used is gone, and comes of a request that  *)
(* sets no other.                                                          *)
CodeSound(c) ==
    /\ c.op = "otp" =>
         /\ c.key \in Sources
         /\ c.key # 0 => authReq[c.key].pc # "idle"
         /\ c.pc \in {"mark", "done", "cut"} => redis["otp"] # c.key
    /\ c.op = "change" =>
         /\ c.key \in Sources
         /\ c.key # 0 => authReq[c.key].pc = "done"
         /\ c.pc \in {"dropCopy", "dropToken", "done"} =>
              redis["otp_verified"] # c.key

KeysSound ==
    /\ redis["otp"] \in AuthRequests => authReq[redis["otp"]].pc # "idle"
    /\ redis["otp_verified"] \in AuthRequests =>
         authReq[redis["otp_verified"]].pc = "done"

(* A session that was ended is not the one stored.                         *)
TokenSound(c) ==
    (c.op = "logout" \/ (c.op = "change" /\ c.pc = "done")) =>
        redis["refresh"] \notin c.ended \cup {0}

(* What had ended when a request began used other codes, and ended other   *)
(* sessions.                                                               *)
EndedSound(c) ==
    \A r \in c.ended :
        /\ authReq[r].pc = "done"
        /\ authReq[r].op = c.op /\ c.op \in {"otp", "change"} =>
             authReq[r].key # c.key
        /\ c.op = "refresh" /\ authReq[r].op \in {"logout", "change"} =>
             c.key \notin authReq[r].ended \cup {0}

RequestSound(c) ==
    /\ PlaceSound(c) /\ HeldSound(c) /\ CodeSound(c) /\ TokenSound(c)
    /\ EndedSound(c)

CacheSound ==
    /\ userCache.by # 0 => /\ userCache.by \in AuthRequests
                           /\ authReq[userCache.by].pc = "done"
    /\ \A w \in userCache.since : authReq[w].pc # "idle"

SessionInv ==
    /\ SessionTypeOK
    /\ \A r \in AuthRequests : RequestSound(authReq[r])
    /\ KeysSound /\ CacheSound /\ UserCopyFresh /\ ResetRevokes

LEMMA SourcesNat ==
    /\ AuthRequests \subseteq Nat \ {0} /\ None \notin Sources
    /\ 0 \notin AuthRequests /\ None \notin AuthRequests /\ 0 # None
BY SessionAssumption DEF Sources, None

LEMMA SessionsAreSound == SessionInv => SessionSound
<1> SUFFICES ASSUME SessionInv
             PROVE  SessionSound
  OBVIOUS
<1>1. \A r \in AuthRequests : EndedSound(authReq[r])
  BY DEF SessionInv, RequestSound
<1>2. UsedOnce
  <2>1. SUFFICES ASSUME NEW op \in {"otp", "change"},
                        NEW r \in AuthRequests, NEW s \in AuthRequests,
                        authReq[r].op = op, authReq[s].op = op,
                        authReq[r].key = authReq[s].key
                 PROVE  r \notin authReq[s].ended /\ s \notin authReq[r].ended
    BY DEF UsedOnce, Requests
  <2>2. QED
    BY <1>1, <2>1 DEF EndedSound
<1>3. EndedForGood
  <2>1. SUFFICES ASSUME NEW r \in AuthRequests, authReq[r].op = "refresh",
                        NEW q \in AuthRequests,
                        authReq[q].op \in {"logout", "change"},
                        q \in authReq[r].ended
                 PROVE  ~(\/ authReq[r].key = 0
                          \/ authReq[r].key \in authReq[q].ended)
    BY DEF EndedForGood, Requests
  <2>2. QED
    BY <1>1, <2>1 DEF EndedSound
<1>4. QED
  BY <1>2, <1>3 DEF SessionInv, SessionSound

LEMMA SessionInitial == SessionsInit => SessionInv
<1> SUFFICES ASSUME SessionsInit
             PROVE  SessionInv
  OBVIOUS
<1>1. NoCopy \in CopyRecord /\ IdleRequest \in RequestRecord
  BY DEF NoCopy, CopyRecord, IdleRequest, RequestRecord, Ops, SessionPc, Sources
<1>2. IdleRequest.op = "none" /\ IdleRequest.pc = "idle" /\ IdleRequest.ended = {}
  BY DEF IdleRequest
<1>3. SessionTypeOK
  <2>1. account \in [profile : Sources, password : Sources, isVerified : BOOLEAN]
    BY DEF SessionsInit, Sources
  <2>2. redis \in [Keys -> Sources \cup {None}]
    BY DEF SessionsInit, Sources
  <2>3. userCache \in CacheRecord
    BY <1>1 DEF SessionsInit, EmptyCache, CacheRecord, Sources
  <2>4. authReq \in [AuthRequests -> RequestRecord]
    BY <1>1 DEF SessionsInit
  <2>5. QED
    BY <2>1, <2>2, <2>3, <2>4 DEF SessionTypeOK
<1>4. \A r \in AuthRequests :
        /\ authReq[r].op = "none" /\ authReq[r].pc = "idle"
        /\ authReq[r].ended = {}
  BY <1>2 DEF SessionsInit
<1>5. \A r \in AuthRequests : RequestSound(authReq[r])
  BY <1>4 DEF RequestSound, PlaceSound, HeldSound, CodeSound, TokenSound,
              EndedSound
<1>6. KeysSound
  <2>1. redis["otp"] \in {0, None} /\ redis["otp_verified"] \in {0, None}
    BY DEF SessionsInit, Keys
  <2>2. QED
    BY <2>1, SourcesNat DEF KeysSound
<1>7. CacheSound /\ UserCopyFresh
  BY DEF SessionsInit, EmptyCache, CacheSound, UserCopyFresh
<1>8. ResetRevokes
  BY <1>4 DEF ResetRevokes, Requests
<1>9. QED
  BY <1>3, <1>5, <1>6, <1>7, <1>8 DEF SessionInv

-----------------------------------------------------------------------------
(* What a step of a request r does to each part.                           *)
Kept(s) ==
    /\ authReq'[s].op = authReq[s].op /\ authReq'[s].key = authReq[s].key
    /\ authReq'[s].ended = authReq[s].ended /\ authReq'[s].copy = authReq[s].copy
    /\ authReq'[s].password = authReq[s].password
    /\ authReq[s].overtaken => authReq'[s].overtaken

Others(r) ==
    \A s \in AuthRequests \ {r} : Kept(s) /\ authReq'[s].pc = authReq[s].pc

From(r, a, b) == authReq[r].pc = a /\ authReq'[r].pc = b

Opens(op, pc, key) ==
    \/ op = "login" /\ pc = "storeToken"
    \/ op = "view" /\ pc = "fill"
    \/ op = "logout" /\ pc = "dropCopy"
    \/ op = "refresh" /\ pc = "issue" /\ key = redis["refresh"]
    \/ op = "update" /\ pc = "writeProfile"
    \/ op = "forgot" /\ pc = "mail"
    \/ op = "otp" /\ pc = "dropOtp" /\ key = redis["otp"] /\ key # None
    \/ /\ op = "change" /\ pc = "savePassword"
       /\ key = redis["otp_verified"] /\ key # None
    \/ op = "resend" /\ pc = "storeVerify"
    \/ op = "email" /\ pc = "saveVerified"

Begun(r) ==
    /\ authReq[r].pc = "idle"
    /\ authReq'[r].copy = AccountCopy /\ authReq'[r].password = account.password
    /\ authReq'[r].ended = Ended
    /\ Opens(authReq'[r].op, authReq'[r].pc, authReq'[r].key)

Follows(op, a, b) ==
    \/ a = "storeToken" /\ b = "fill"
    \/ a = "dropCopy" /\ b = "dropToken" /\ op = "change"
    \/ a = "dropCopy" /\ b = "done" /\ op # "change"
    \/ /\ a \in {"fill", "issue", "mail", "mark", "dropToken", "storeVerify", "dropVerify"}
       /\ b = "done"
    \/ a = "writeProfile" /\ b = "dropCopy"
    \/ a = "dropOtp" /\ b = "mark"
    \/ a = "savePassword" /\ b = "dropMark"
    \/ a = "dropMark" /\ b = "dropCopy"
    \/ a = "saveVerified" /\ b = "dropVerify"
    \/ a \in {"dropCopy", "dropMark", "dropToken", "dropVerify", "mark"} /\ b = "cut"

Went(r) == Kept(r) /\ Follows(authReq[r].op, authReq[r].pc, authReq'[r].pc)

RedisMoves(r, a, b) ==
    /\ redis' \in [Keys -> Sources \cup {None}]
    /\ \/ redis'["refresh"] \in {redis["refresh"], None}
       \/ redis'["refresh"] = r /\ a = "storeToken" /\ b = "fill"
    /\ \/ redis'["otp"] \in {redis["otp"], None}
       \/ redis'["otp"] = r /\ a = "idle"
    /\ \/ redis'["otp_verified"] \in {redis["otp_verified"], None}
       \/ redis'["otp_verified"] = r /\ a = "mark" /\ b = "done"
    /\ a = "idle" /\ b = "dropCopy" => redis'["refresh"] = None
    /\ a = "dropToken" /\ b = "done" => redis'["refresh"] = None
    /\ a = "dropOtp" /\ b = "mark" => redis'["otp"] = None
    /\ a = "dropMark" /\ b = "dropCopy" => redis'["otp_verified"] = None

AccountMoves(r) ==
    \/ account' = account
    \/ /\ \A s \in AuthRequests :
            authReq'[s].pc \in {"storeToken", "fill"} => authReq'[s].overtaken
       /\ \/ /\ authReq[r].pc = "writeProfile" /\ authReq'[r].pc = "dropCopy"
             /\ account'.password = account.password /\ r \in userCache'.since
          \/ /\ authReq[r].pc = "savePassword" /\ authReq'[r].pc = "dropMark"
             /\ account'.profile = account.profile /\ account'.password = r
             /\ account'.isVerified = account.isVerified
          \/ /\ authReq[r].pc = "saveVerified" /\ r \in userCache'.since
             /\ account'.password = account.password
             /\ account'.profile = account.profile

CacheMoves(r) ==
    /\ \/ userCache'.copy = userCache.copy /\ userCache'.by = userCache.by
          /\ userCache.since \subseteq userCache'.since
       \/ userCache'.copy = NoCopy /\ userCache'.by = 0
       \/ /\ From(r, "fill", "done") /\ account' = account
          /\ userCache'.copy = authReq[r].copy /\ userCache'.by = r
    /\ userCache'.since \subseteq userCache.since \cup {r}
    /\ From(r, "dropCopy", "done") => userCache'.copy = NoCopy

RequestMoves(r) ==
    /\ Others(r) /\ (Begun(r) \/ Went(r))
    /\ RedisMoves(r, authReq[r].pc, authReq'[r].pc) /\ AccountMoves(r) /\ CacheMoves(r)

(* A request that has begun never begins again, and one done stays so.     *)
LEMMA RequestsPersist ==
    ASSUME NEW r \in AuthRequests, RequestMoves(r)
    PROVE  \A s \in AuthRequests :
             /\ authReq[s].pc # "idle" => Kept(s) /\ authReq'[s].pc # "idle"
             /\ authReq[s].pc = "done" => s # r /\ authReq'[s].pc = "done"
             /\ s # r => Kept(s) /\ authReq'[s].pc = authReq[s].pc
<1>1. \A s \in AuthRequests : s # r => Kept(s) /\ authReq'[s].pc = authReq[s].pc
  BY DEF RequestMoves, Others
<1>2. authReq[r].pc # "done"
  BY DEF RequestMoves, Begun, Opens, Went, Follows, From
<1>3. authReq[r].pc # "idle" => Kept(r) /\ authReq'[r].pc # "idle"
  BY DEF RequestMoves, Begun, Opens, Went, Follows, From
<1>4. QED
  BY <1>1, <1>2, <1>3

(* Where a request of an operation may come from.                          *)
LEMMA CameFrom ==
    ASSUME NEW c, NEW b, PlaceSound(c), Follows(c.op, c.pc, b)
    PROVE  /\ c.op = "otp" /\ b \in {"mark", "done", "cut"} =>
                \/ c.pc = "mark"
                \/ c.pc = "dropOtp" /\ b = "mark"
           /\ c.op = "change" /\ b \in {"dropCopy", "dropToken", "done"} =>
                \/ c.pc \in {"dropCopy", "dropToken"}
                \/ c.pc = "dropMark" /\ b = "dropCopy"
           /\ c.op = "change" /\ b = "done" => c.pc = "dropToken"
<1>1. PICK a : a = c.pc
  OBVIOUS
<1>2. PICK op : op = c.op
  OBVIOUS
<1>3. /\ a = "storeToken" => op = "login"
      /\ a = "fill" => op \in {"login", "view"}
      /\ a = "dropCopy" => op # "otp"
      /\ a \in {"savePassword", "dropMark", "dropToken"} => op = "change"
      /\ a \in {"dropOtp", "mark"} => op = "otp"
      /\ a = "writeProfile" => op = "update"
      /\ a = "issue" => op = "refresh"
      /\ a = "mail" => op = "forgot"
      /\ a = "storeVerify" => op = "resend"
      /\ a \in {"saveVerified", "dropVerify"} => op = "email"
  BY <1>1, <1>2 DEF PlaceSound
<1>4. Follows(op, a, b)
  BY <1>1, <1>2
<1>5. op = "otp" /\ b \in {"mark", "done", "cut"} =>
        \/ a = "mark"
        \/ a = "dropOtp" /\ b = "mark"
  BY <1>3, <1>4 DEF Follows
<1>6. op = "change" /\ b \in {"dropCopy", "dropToken", "done"} =>
        \/ a \in {"dropCopy", "dropToken"}
        \/ a = "dropMark" /\ b = "dropCopy"
  BY <1>3, <1>4 DEF Follows
<1>7. op = "change" /\ b = "done" => a = "dropToken"
  BY <1>3, <1>4 DEF Follows
<1>8. QED
  BY <1>1, <1>2, <1>5, <1>6, <1>7

LEMMA PlaceMoves ==
    ASSUME SessionInv, NEW r \in AuthRequests, RequestMoves(r), NEW s \in AuthRequests
    PROVE  PlaceSound(authReq[s])'
<1>1. PlaceSound(authReq[s])
  BY DEF SessionInv, RequestSound
<1>2. CASE s # r
  <2>1. authReq'[s].op = authReq[s].op /\ authReq'[s].pc = authReq[s].pc
    BY <1>2 DEF RequestMoves, Others, Kept
  <2>2. QED
    BY <1>1, <2>1 DEF PlaceSound
<1>3. CASE s = r /\ Begun(r)
  BY <1>3 DEF Begun, Opens, PlaceSound
<1>4. CASE s = r /\ Went(r)
  BY <1>1, <1>4 DEF Went, Follows, From, Kept, PlaceSound
<1>5. QED
  BY <1>2, <1>3, <1>4 DEF RequestMoves

LEMMA HeldMoves ==
    ASSUME SessionInv, NEW r \in AuthRequests, RequestMoves(r), NEW s \in AuthRequests
    PROVE  HeldSound(authReq[s])'
<1>1. HeldSound(authReq[s])
  BY DEF SessionInv, RequestSound
<1> SUFFICES ASSUME authReq'[s].pc \in {"storeToken", "fill"}, ~authReq'[s].overtaken
             PROVE  authReq'[s].copy = AccountCopy' /\ authReq'[s].password = account'.password
  BY DEF HeldSound
<1>2. account' = account /\ AccountCopy' = AccountCopy
  BY DEF RequestMoves, AccountMoves, AccountCopy
<1>3. CASE s = r /\ Begun(r)
  BY <1>2, <1>3 DEF Begun, Opens
<1>4. CASE s # r \/ Went(r)
  <2>1. Kept(s) /\ authReq[s].pc \in {"storeToken", "fill"}
    BY <1>4 DEF RequestMoves, Others, Went, Follows, From
  <2>2. QED
    BY <1>1, <1>2, <2>1 DEF HeldSound, Kept
<1>5. QED
  BY <1>3, <1>4 DEF RequestMoves

(* The codes: a request that takes one takes what Redis holds of it.       *)
LEMMA CodeMoves ==
    ASSUME SessionInv, NEW r \in AuthRequests, RequestMoves(r), NEW s \in AuthRequests
    PROVE  CodeSound(authReq[s])'
<1>1. CodeSound(authReq[s]) /\ PlaceSound(authReq[s]) /\ KeysSound
  BY DEF SessionInv, RequestSound
<1>2. \A q \in AuthRequests :
        /\ authReq[q].pc # "idle" => authReq'[q].pc # "idle"
        /\ authReq[q].pc = "done" => authReq'[q].pc = "done"
  BY RequestsPersist
<1>3. redis \in [Keys -> Sources \cup {None}] /\ Sources = AuthRequests \cup {0}
      /\ None \notin Sources
  BY SourcesNat DEF SessionInv, SessionTypeOK, Sources
<1>4. /\ redis["otp"] \in Sources \cup {None}
      /\ redis["otp_verified"] \in Sources \cup {None}
  BY <1>3 DEF Keys
<1>5. CASE s = r /\ Begun(r)
  <2>1. ASSUME authReq'[s].op = "otp"
        PROVE  /\ authReq'[s].key = redis["otp"] /\ redis["otp"] # None
               /\ authReq'[s].pc = "dropOtp"
    BY <1>5, <2>1 DEF Begun, Opens
  <2>2. ASSUME authReq'[s].op = "change"
        PROVE  /\ authReq'[s].key = redis["otp_verified"] /\ redis["otp_verified"] # None
               /\ authReq'[s].pc = "savePassword"
    BY <1>5, <2>2 DEF Begun, Opens
  <2>3. QED
    BY <1>1, <1>2, <1>3, <1>4, <2>1, <2>2 DEF CodeSound, KeysSound
<1>6. CASE s # r \/ Went(r)
  <2>1. Kept(s)
    BY <1>6 DEF RequestMoves, Others, Went, Follows
  <2>2. ASSUME authReq'[s].op = "otp"
        PROVE  /\ authReq'[s].key \in Sources
               /\ authReq'[s].key # 0 => authReq'[authReq'[s].key].pc # "idle"
               /\ authReq'[s].pc \in {"mark", "done", "cut"} =>
                    redis'["otp"] # authReq'[s].key
    <3>1. PICK k : k = authReq[s].key
      OBVIOUS
    <3>2. /\ authReq[s].op = "otp" /\ authReq'[s].key = k /\ k \in Sources
          /\ k # 0 => k \in AuthRequests /\ authReq[k].pc # "idle"
      BY <1>1, <1>3, <2>1, <2>2, <3>1 DEF CodeSound, Kept
    <3>3. ASSUME authReq'[s].pc \in {"mark", "done", "cut"}
          PROVE  redis'["otp"] # k
      <4>1. CASE authReq[s].pc \in {"mark", "done", "cut"}
        <5>1. redis["otp"] # k
          BY <1>1, <3>1, <3>2, <4>1 DEF CodeSound
        <5>2. \/ redis'["otp"] \in {redis["otp"], None}
              \/ redis'["otp"] = r /\ authReq[r].pc = "idle"
          BY DEF RequestMoves, RedisMoves, From
        <5>3. r # 0
          BY SourcesNat
        <5>4. QED
          BY <1>3, <3>2, <5>1, <5>2, <5>3
      <4>2. CASE authReq[s].pc \notin {"mark", "done", "cut"}
        <5>1. s = r /\ Went(r)
          BY <1>6, <3>3, <4>2 DEF RequestMoves, Others
        <5>2. From(r, "dropOtp", "mark")
          BY <1>1, <3>2, <3>3, <4>2, <5>1, CameFrom DEF Went, From
        <5>3. redis'["otp"] = None
          BY <5>2 DEF RequestMoves, RedisMoves, From
        <5>4. QED
          BY <1>3, <3>2, <5>3
      <4>3. QED
        BY <4>1, <4>2
    <3>4. QED
      BY <1>2, <3>2, <3>3
  <2>3. ASSUME authReq'[s].op = "change"
        PROVE  /\ authReq'[s].key \in Sources
               /\ authReq'[s].key # 0 => authReq'[authReq'[s].key].pc = "done"
               /\ authReq'[s].pc \in {"dropCopy", "dropToken", "done"} =>
                    redis'["otp_verified"] # authReq'[s].key
    <3>1. PICK k : k = authReq[s].key
      OBVIOUS
    <3>2. /\ authReq[s].op = "change" /\ authReq'[s].key = k /\ k \in Sources
          /\ k # 0 => k \in AuthRequests /\ authReq[k].pc = "done"
      BY <1>1, <1>3, <2>1, <2>3, <3>1 DEF CodeSound, Kept
    <3>3. ASSUME authReq'[s].pc \in {"dropCopy", "dropToken", "done"}
          PROVE  redis'["otp_verified"] # k
      <4>1. CASE authReq[s].pc \in {"dropCopy", "dropToken", "done"}
        <5>1. redis["otp_verified"] # k
          BY <1>1, <3>1, <3>2, <4>1 DEF CodeSound
        <5>2. \/ redis'["otp_verified"] \in {redis["otp_verified"], None}
              \/ redis'["otp_verified"] = r /\ authReq[r].pc = "mark"
          BY DEF RequestMoves, RedisMoves, From
        <5>3. r # 0
          BY SourcesNat
        <5>4. QED
          BY <1>3, <3>2, <5>1, <5>2, <5>3
      <4>2. CASE authReq[s].pc \notin {"dropCopy", "dropToken", "done"}
        <5>1. s = r /\ Went(r)
          BY <1>6, <3>3, <4>2 DEF RequestMoves, Others
        <5>2. From(r, "dropMark", "dropCopy")
          BY <1>1, <3>2, <3>3, <4>2, <5>1, CameFrom DEF Went, From
        <5>3. redis'["otp_verified"] = None
          BY <5>2 DEF RequestMoves, RedisMoves, From
        <5>4. QED
          BY <1>3, <3>2, <5>3
      <4>3. QED
        BY <4>1, <4>2
    <3>4. QED
      BY <1>2, <3>2, <3>3
  <2>4. QED
    BY <2>2, <2>3 DEF CodeSound
<1>7. QED
  BY <1>5, <1>6 DEF RequestMoves

LEMMA KeysMove ==
    ASSUME SessionInv, NEW r \in AuthRequests, RequestMoves(r)
    PROVE  KeysSound'
<1>1. KeysSound
  BY DEF SessionInv
<1>2. \A q \in AuthRequests :
        /\ authReq[q].pc # "idle" => authReq'[q].pc # "idle"
        /\ authReq[q].pc = "done" => authReq'[q].pc = "done"
  BY RequestsPersist
<1>3. \/ redis'["otp"] \in {redis["otp"], None}
      \/ redis'["otp"] = r /\ authReq'[r].pc # "idle"
  BY DEF RequestMoves, RedisMoves, Begun, Opens, Went, Follows, From
<1>4. \/ redis'["otp_verified"] \in {redis["otp_verified"], None}
      \/ redis'["otp_verified"] = r /\ authReq'[r].pc = "done"
  BY DEF RequestMoves, RedisMoves, From
<1>5. None \notin AuthRequests
  BY SourcesNat
<1>6. QED
  BY <1>1, <1>2, <1>3, <1>4, <1>5 DEF KeysSound

LEMMA TokenMoves ==
    ASSUME SessionInv, NEW r \in AuthRequests, RequestMoves(r), NEW s \in AuthRequests
    PROVE  TokenSound(authReq[s])'
<1>1. TokenSound(authReq[s]) /\ PlaceSound(authReq[s]) /\ EndedSound(authReq[s])
  BY DEF SessionInv, RequestSound
<1>2. authReq'[s].ended \subseteq AuthRequests /\ None \notin authReq'[s].ended \cup {0}
  <2>1. authReq[s].ended \subseteq AuthRequests
    BY DEF SessionInv, SessionTypeOK, RequestRecord
  <2>2. authReq'[s].ended \in {authReq[s].ended, Ended}
    BY DEF RequestMoves, Others, Begun, Opens, Went, Follows, Kept
  <2>3. QED
    BY <2>1, <2>2, SourcesNat DEF Ended
<1> SUFFICES ASSUME authReq'[s].op = "logout"
                    \/ (authReq'[s].op = "change" /\ authReq'[s].pc = "done")
             PROVE  redis'["refresh"] \notin authReq'[s].ended \cup {0}
  BY DEF TokenSound
<1>3. CASE s = r /\ Begun(r)
  <2>1. redis'["refresh"] = None
    BY <1>3 DEF Begun, Opens, RequestMoves, RedisMoves
  <2>2. QED
    BY <1>2, <2>1
<1>4. CASE s # r \/ Went(r)
  <2>1. Kept(s) /\ (s # r => authReq'[s].pc = authReq[s].pc)
    BY <1>4 DEF RequestMoves, Others, Went, Follows
  <2>2. CASE authReq[s].op = "logout"
             \/ (authReq[s].op = "change" /\ authReq[s].pc = "done")
    <3>1. redis["refresh"] \notin authReq'[s].ended \cup {0}
      BY <1>1, <2>1, <2>2 DEF TokenSound, Kept
    <3>2. \/ redis'["refresh"] \in {redis["refresh"], None}
          \/ redis'["refresh"] = r /\ authReq[r].pc = "storeToken"
      BY DEF RequestMoves, RedisMoves, From
    <3>3. r # 0 /\ (authReq[r].pc = "storeToken" => r \notin authReq'[s].ended)
      BY <1>1, <2>1, SourcesNat DEF EndedSound, Kept
    <3>4. QED
      BY <1>2, <3>1, <3>2, <3>3
  <2>3. CASE ~(authReq[s].op = "logout"
               \/ (authReq[s].op = "change" /\ authReq[s].pc = "done"))
    <3>1. authReq[s].op = "change" /\ s = r /\ Went(r) /\ authReq'[r].pc = "done"
      BY <1>4, <2>1, <2>3 DEF Kept
    <3>2. From(r, "dropToken", "done")
      BY <1>1, <3>1, CameFrom DEF Went, From
    <3>3. redis'["refresh"] = None
      BY <3>2 DEF RequestMoves, RedisMoves, From
    <3>4. QED
      BY <1>2, <3>3
  <2>4. QED
    BY <2>2, <2>3
<1>5. QED
  BY <1>3, <1>4 DEF RequestMoves

LEMMA EndedMoves ==
    ASSUME SessionInv, NEW r \in AuthRequests, RequestMoves(r), NEW s \in AuthRequests
    PROVE  EndedSound(authReq[s])'
<1>1. \A q \in AuthRequests : authReq[q].pc = "done" =>
        /\ q # r /\ authReq'[q].pc = "done" /\ authReq'[q].op = authReq[q].op
        /\ authReq'[q].key = authReq[q].key /\ authReq'[q].ended = authReq[q].ended
  BY RequestsPersist DEF Kept
<1>2. EndedSound(authReq[s]) /\ authReq[s].ended \subseteq AuthRequests
  BY DEF SessionInv, RequestSound, SessionTypeOK, RequestRecord
<1>3. CASE s = r /\ Begun(r)
  <2>1. authReq'[s].ended = Ended
    BY <1>3 DEF Begun, Opens
  <2> SUFFICES ASSUME NEW q \in AuthRequests, authReq[q].pc = "done"
               PROVE  /\ authReq'[q].pc = "done"
                      /\ authReq'[q].op = authReq'[s].op
                         /\ authReq'[s].op \in {"otp", "change"} =>
                           authReq'[q].key # authReq'[s].key
                      /\ authReq'[s].op = "refresh"
                         /\ authReq'[q].op \in {"logout", "change"} =>
                           authReq'[s].key \notin authReq'[q].ended \cup {0}
    BY <2>1 DEF EndedSound, Ended
  <2>2. CodeSound(authReq[q]) /\ TokenSound(authReq[q])
    BY DEF SessionInv, RequestSound
  <2>3. authReq[q].op = "otp" => redis["otp"] # authReq[q].key
    BY <2>2 DEF CodeSound
  <2>4. authReq[q].op = "change" => redis["otp_verified"] # authReq[q].key
    BY <2>2 DEF CodeSound
  <2>5. authReq[q].op \in {"logout", "change"} =>
          redis["refresh"] \notin authReq[q].ended \cup {0}
    BY <2>2 DEF TokenSound
  <2>6. /\ authReq'[s].op = "otp" => authReq'[s].key = redis["otp"]
        /\ authReq'[s].op = "change" => authReq'[s].key = redis["otp_verified"]
        /\ authReq'[s].op = "refresh" => authReq'[s].key = redis["refresh"]
    BY <1>3 DEF Begun, Opens
  <2>7. QED
    BY <1>1, <2>3, <2>4, <2>5, <2>6
<1>4. CASE s # r \/ Went(r)
  <2>1. /\ authReq'[s].op = authReq[s].op /\ authReq'[s].key = authReq[s].key
        /\ authReq'[s].ended = authReq[s].ended
    BY <1>4 DEF RequestMoves, Others, Went, Follows, Kept
  <2>2. QED
    BY <1>1, <1>2, <2>1 DEF EndedSound
<1>5. QED
  BY <1>3, <1>4 DEF RequestMoves

LEMMA CacheMovesSound ==
    ASSUME SessionInv, NEW r \in AuthRequests, RequestMoves(r)
    PROVE  CacheSound'
<1>1. CacheSound
  BY DEF SessionInv
<1>2. \A q \in AuthRequests : authReq[q].pc = "done" => authReq'[q].pc = "done"
  BY RequestsPersist
<1>3. userCache'.by \in {userCache.by, 0}
      \/ (userCache'.by = r /\ authReq'[r].pc = "done")
  BY DEF RequestMoves, CacheMoves, From
<1>4. \A w \in userCache'.since : authReq'[w].pc # "idle"
  <2>1. userCache.since \subseteq AuthRequests
    BY DEF SessionInv, SessionTypeOK, CacheRecord
  <2>2. \A w \in userCache.since : authReq'[w].pc # "idle"
    BY <1>1, <2>1, RequestsPersist DEF CacheSound
  <2>3. authReq'[r].pc # "idle"
    BY DEF RequestMoves, Begun, Opens, Went, Follows
  <2>4. QED
    BY <2>2, <2>3 DEF RequestMoves, CacheMoves
<1>5. QED
  BY <1>1, <1>2, <1>3, <1>4 DEF CacheSound

(* The copy: whoever made it other than the account is there to be named.  *)
LEMMA CopyMoves ==
    ASSUME SessionInv, SessionTypeOK', NEW r \in AuthRequests, RequestMoves(r)
    PROVE  UserCopyFresh'
<1>1. UserCopyFresh /\ CacheSound /\ HeldSound(authReq[r]) /\ PlaceSound(authReq[r])
  BY DEF SessionInv, RequestSound
<1>2. \A s \in AuthRequests :
        /\ authReq[s].pc # "idle" => Kept(s)
        /\ authReq[s].pc = "done" => Kept(s)
        /\ s # r => Kept(s) /\ authReq'[s].pc = authReq[s].pc
  BY RequestsPersist
<1> SUFFICES ASSUME userCache'.copy # NoCopy
             PROVE  \/ userCache'.copy = AccountCopy'
                    \/ userCache'.by # 0 /\ authReq'[userCache'.by].overtaken
                    \/ \E p \in AuthRequests : /\ p \in userCache'.since
                                               /\ authReq'[p].op = "update"
                                               /\ authReq'[p].pc \in {"dropCopy", "cut"}
                    \/ /\ \E w \in userCache'.since : authReq'[w].op = "email"
                       /\ userCache'.copy.profile = account'.profile
  BY DEF UserCopyFresh, Requests, NoCopy
<1>3. CASE From(r, "fill", "done") /\ account' = account
           /\ userCache'.copy = authReq[r].copy /\ userCache'.by = r
  <2>1. Kept(r) /\ AccountCopy' = AccountCopy /\ r # 0
    BY <1>2, <1>3, SourcesNat DEF From, AccountCopy
  <2>2. CASE authReq[r].overtaken
    BY <1>3, <2>1, <2>2 DEF Kept
  <2>3. CASE ~authReq[r].overtaken
    BY <1>1, <1>3, <2>1, <2>3 DEF HeldSound, From
  <2>4. QED
    BY <2>2, <2>3
<1>4. CASE userCache'.copy = userCache.copy /\ userCache'.by = userCache.by
           /\ userCache.since \subseteq userCache'.since
  <2>1. \/ userCache.copy = AccountCopy
        \/ userCache.by # 0 /\ authReq[userCache.by].overtaken
        \/ \E p \in AuthRequests : /\ p \in userCache.since
                                   /\ authReq[p].op = "update"
                                   /\ authReq[p].pc \in {"dropCopy", "cut"}
        \/ /\ \E w \in userCache.since : authReq[w].op = "email"
           /\ userCache.copy.profile = account.profile
    BY <1>1, <1>4 DEF UserCopyFresh, Requests
  <2>2. ASSUME NEW p \in AuthRequests, p \in userCache.since, authReq[p].op = "update",
               authReq[p].pc \in {"dropCopy", "cut"}
        PROVE  /\ p \in userCache'.since /\ authReq'[p].op = "update"
               /\ authReq'[p].pc \in {"dropCopy", "cut"}
    <3>1. Kept(p) /\ (p # r => authReq'[p].pc = authReq[p].pc)
      BY <1>2, <2>2
    <3>2. CASE p = r
      <4>1. ~From(r, "dropCopy", "done")
        BY <1>4 DEF RequestMoves, CacheMoves
      <4>2. authReq'[r].pc = "cut"
        BY <2>2, <3>2, <4>1 DEF RequestMoves, Begun, Opens, Went, Follows, From
      <4>3. QED
        BY <1>4, <2>2, <3>1, <3>2, <4>2 DEF Kept
    <3>3. QED
      BY <1>4, <2>2, <3>1, <3>2 DEF Kept
  <2>3. ASSUME userCache.by # 0, authReq[userCache.by].overtaken
        PROVE  userCache'.by # 0 /\ authReq'[userCache'.by].overtaken
    BY <1>1, <1>2, <1>4, <2>3 DEF CacheSound, Kept
  <2>4. ASSUME NEW w \in userCache.since, authReq[w].op = "email"
        PROVE  w \in userCache'.since /\ authReq'[w].op = "email"
    <3>1. userCache.since \subseteq AuthRequests
      BY DEF SessionInv, SessionTypeOK, CacheRecord
    <3>2. Kept(w)
      BY <1>1, <1>2, <2>4, <3>1 DEF CacheSound
    <3>3. QED
      BY <1>4, <2>4, <3>2 DEF Kept
  <2>5. CASE account'.profile = account.profile
             /\ account'.isVerified = account.isVerified
    <3>1. AccountCopy' = AccountCopy
      BY <2>5 DEF AccountCopy
    <3>2. QED
      BY <1>4, <2>1, <2>2, <2>3, <2>4, <2>5, <3>1
  <2>6. CASE authReq[r].pc = "writeProfile" /\ authReq'[r].pc = "dropCopy"
             /\ r \in userCache'.since
    <3>1. authReq'[r].op = "update"
      BY <1>1, <1>2, <2>6 DEF PlaceSound, Kept
    <3>2. QED
      BY <2>6, <3>1
  <2>7. CASE authReq[r].pc = "saveVerified" /\ account'.profile = account.profile
             /\ r \in userCache'.since
    <3>1. AccountCopy.profile = account.profile
      BY DEF AccountCopy
    <3>2. authReq'[r].op = "email"
      BY <1>1, <1>2, <2>7 DEF PlaceSound, Kept
    <3>3. QED
      BY <1>4, <2>1, <2>2, <2>3, <2>7, <3>1, <3>2
  <2>8. QED
    BY <2>5, <2>6, <2>7 DEF RequestMoves, AccountMoves
<1>5. QED
  BY <1>3, <1>4 DEF RequestMoves, CacheMoves

(* The session: a new password finds none but that of a login under way,   *)
(* until the request that saved it has ended the one there is.             *)
LEMMA ResetMoves ==
    ASSUME SessionInv, SessionTypeOK', NEW r \in AuthRequests, RequestMoves(r)
    PROVE  ResetRevokes'
<1>1. ResetRevokes /\ HeldSound(authReq[r]) /\ PlaceSound(authReq[r])
  BY DEF SessionInv, RequestSound
<1>2. \A s \in AuthRequests :
        /\ authReq[s].pc # "idle" => Kept(s)
        /\ s # r => Kept(s) /\ authReq'[s].pc = authReq[s].pc
  BY RequestsPersist
<1> SUFFICES ASSUME NEW s \in AuthRequests, authReq'[s].op = "login",
                    authReq'[s].pc \in {"fill", "done"}, redis'["refresh"] = s,
                    authReq'[s].password # account'.password,
                    ~authReq'[s].overtaken
             PROVE  /\ account'.password \in AuthRequests
                    /\ authReq'[account'.password].op = "change"
                    /\ authReq'[account'.password].pc
                         \in {"dropMark", "dropCopy", "dropToken", "cut"}
  BY DEF ResetRevokes, Requests
<1>3. s # None
  BY SourcesNat
<1>4. authReq[s].pc # "idle" /\ Kept(s)
  <2>1. ~(s = r /\ Begun(r))
    BY DEF Begun, Opens
  <2>2. s # r \/ Went(r)
    BY <2>1 DEF RequestMoves
  <2>3. s # r => authReq[s].pc # "idle"
    BY <1>2
  <2>4. s = r => authReq[s].pc # "idle"
    BY <2>2 DEF Went, Follows, From
  <2>5. QED
    BY <1>2, <2>3, <2>4
<1>5. authReq[s].op = "login" /\ authReq[s].password = authReq'[s].password
      /\ ~authReq[s].overtaken
  BY <1>4 DEF Kept
<1>6. CASE From(r, "storeToken", "fill") /\ s = r
  <2>1. authReq[s].password = account.password /\ account' # account
    BY <1>1, <1>5, <1>6 DEF HeldSound, From
  <2>2. QED
    BY <1>6, <2>1 DEF RequestMoves, AccountMoves, From
<1>7. CASE ~(From(r, "storeToken", "fill") /\ s = r)
  <2>1. redis["refresh"] = s
    BY <1>3, <1>7 DEF RequestMoves, RedisMoves, From
  <2>2. authReq[s].pc \in {"fill", "done"}
    <3>1. CASE s # r
      BY <1>2, <3>1
    <3>2. CASE s = r
      <4>1. Went(r)
        BY <1>4, <3>2 DEF RequestMoves, Begun, Opens
      <4>2. authReq[r].op = "login" /\ PlaceSound(authReq[r])
        BY <1>1, <1>5, <3>2
      <4>3. From(r, "fill", "done")
        BY <1>7, <3>2, <4>1, <4>2 DEF Went, Follows, From, PlaceSound
      <4>4. QED
        BY <3>2, <4>3 DEF From
    <3>3. QED
      BY <3>1, <3>2
  <2>3. CASE account'.password = account.password
    <3>1. PICK p \in AuthRequests :
            /\ p = account.password /\ authReq[p].op = "change"
            /\ authReq[p].pc \in {"dropMark", "dropCopy", "dropToken", "cut"}
      BY <1>1, <1>5, <2>1, <2>2, <2>3 DEF ResetRevokes, Requests
    <3>2. Kept(p) /\ (p # r => authReq'[p].pc = authReq[p].pc)
      BY <1>2, <3>1
    <3>3. CASE p = r
      <4>1. ~From(r, "dropToken", "done")
        BY <1>3 DEF RequestMoves, RedisMoves, From
      <4>2. authReq[r].op = "change" /\ authReq[r].pc # "idle"
        BY <3>1, <3>3
      <4>3. authReq'[r].pc \in {"dropMark", "dropCopy", "dropToken", "cut"}
        BY <3>1, <3>3, <4>1, <4>2 DEF RequestMoves, Begun, Opens, Went, Follows, From
      <4>4. QED
        BY <2>3, <3>1, <3>2, <3>3, <4>3 DEF Kept
    <3>4. QED
      BY <2>3, <3>1, <3>2, <3>3 DEF Kept
  <2>4. CASE account'.password # account.password
    <3>1. /\ authReq[r].pc = "savePassword" /\ authReq'[r].pc = "dropMark"
          /\ account'.password = r
      BY <2>4 DEF RequestMoves, AccountMoves
    <3>2. authReq'[r].op = "change"
      BY <1>1, <1>2, <3>1 DEF PlaceSound, Kept
    <3>3. QED
      BY <3>1, <3>2
  <2>5. QED
    BY <2>3, <2>4
<1>8. QED
  BY <1>6, <1>7

LEMMA RequestMovesSound ==
    ASSUME SessionInv, SessionTypeOK', NEW r \in AuthRequests, RequestMoves(r)
    PROVE  SessionInv'
<1>1. \A s \in AuthRequests : RequestSound(authReq[s])'
  <2> SUFFICES ASSUME NEW s \in AuthRequests
               PROVE  RequestSound(authReq[s])'
    OBVIOUS
  <2>1. QED
    BY PlaceMoves, HeldMoves, CodeMoves, TokenMoves, EndedMoves DEF RequestSound
<1>2. KeysSound' /\ CacheSound' /\ UserCopyFresh' /\ ResetRevokes'
  BY KeysMove, CacheMovesSound, CopyMoves, ResetMoves
<1>3. QED
  BY <1>1, <1>2 DEF SessionInv

(* The changes a step makes to the requests.                               *)
LEMMA BeginsMoves ==
    ASSUME SessionTypeOK, NEW r \in AuthRequests, NEW op \in Ops,
           NEW pc \in SessionPc, NEW key \in Sources \cup {None},
           Begins(r, op, pc, Holds(key))
    PROVE  /\ authReq' \in [AuthRequests -> RequestRecord] /\ Others(r)
           /\ authReq[r].pc = "idle" /\ authReq'[r].op = op /\ authReq'[r].pc = pc
           /\ authReq'[r].key = key /\ authReq'[r].copy = AccountCopy
           /\ authReq'[r].password = account.password /\ authReq'[r].ended = Ended
<1>1. /\ AccountCopy \in CopyRecord /\ account.password \in Sources
      /\ Ended \in SUBSET AuthRequests
  BY DEF SessionTypeOK, AccountCopy, CopyRecord, Ended
<1>2. PICK a : a = AccountCopy
  OBVIOUS
<1>3. PICK e : e = Ended
  OBVIOUS
<1>4. Holds(key).copy = a /\ Holds(key).key = key
  BY <1>2 DEF Holds
<1>5. PICK new : new = [authReq[r] EXCEPT !.op = op, !.pc = pc, !.copy = a,
                          !.key = key, !.password = account.password, !.ended = e]
  OBVIOUS
<1>6. authReq' = [authReq EXCEPT ![r] = new] /\ authReq[r].pc = "idle"
  BY <1>2, <1>3, <1>4, <1>5 DEF Begins
<1>7. authReq \in [AuthRequests -> RequestRecord] /\ authReq[r] \in RequestRecord
  BY DEF SessionTypeOK
<1>8. /\ new \in RequestRecord /\ new.op = op /\ new.pc = pc /\ new.key = key
      /\ new.copy = a /\ new.password = account.password /\ new.ended = e
  BY <1>1, <1>2, <1>3, <1>5, <1>7 DEF RequestRecord
<1>9. /\ authReq' \in [AuthRequests -> RequestRecord] /\ authReq'[r] = new
      /\ \A s \in AuthRequests \ {r} : authReq'[s] = authReq[s]
  BY <1>6, <1>7, <1>8
<1>10. QED
  BY <1>2, <1>3, <1>6, <1>8, <1>9 DEF Others, Kept

LEMMA GoesMoves ==
    ASSUME SessionTypeOK, NEW r \in AuthRequests, NEW pc \in SessionPc, Goes(r, pc)
    PROVE  /\ authReq' \in [AuthRequests -> RequestRecord] /\ Others(r) /\ Kept(r)
           /\ authReq'[r].pc = pc
<1>1. authReq \in [AuthRequests -> RequestRecord] /\ authReq[r] \in RequestRecord
  BY DEF SessionTypeOK
<1>2. PICK new : new = [authReq[r] EXCEPT !.pc = pc]
  OBVIOUS
<1>3. authReq' = [authReq EXCEPT ![r] = new]
  BY <1>2 DEF Goes
<1>4. /\ new \in RequestRecord /\ new.pc = pc /\ new.op = authReq[r].op
      /\ new.key = authReq[r].key /\ new.ended = authReq[r].ended
      /\ new.copy = authReq[r].copy /\ new.password = authReq[r].password
      /\ new.overtaken = authReq[r].overtaken
  BY <1>1, <1>2 DEF RequestRecord
<1>5. /\ authReq' \in [AuthRequests -> RequestRecord] /\ authReq'[r] = new
      /\ \A s \in AuthRequests \ {r} : authReq'[s] = authReq[s]
  BY <1>1, <1>3, <1>4
<1>6. QED
  BY <1>4, <1>5 DEF Others, Kept

LEMMA OvertakesMoves ==
    ASSUME SessionTypeOK, NEW r \in AuthRequests, NEW pc \in SessionPc,
           authReq' = Overtakes([authReq EXCEPT ![r].pc = pc])
    PROVE  /\ authReq' \in [AuthRequests -> RequestRecord] /\ Others(r) /\ Kept(r)
           /\ authReq'[r].pc = pc
           /\ \A s \in AuthRequests :
                authReq'[s].pc \in {"storeToken", "fill"} => authReq'[s].overtaken
<1>1. authReq \in [AuthRequests -> RequestRecord] /\ authReq[r] \in RequestRecord
  BY DEF SessionTypeOK
<1>2. PICK new : new = [authReq[r] EXCEPT !.pc = pc]
  OBVIOUS
<1>3. /\ new \in RequestRecord /\ new.pc = pc /\ new.op = authReq[r].op
      /\ new.key = authReq[r].key /\ new.ended = authReq[r].ended
      /\ new.copy = authReq[r].copy /\ new.password = authReq[r].password
      /\ new.overtaken = authReq[r].overtaken
  BY <1>1, <1>2 DEF RequestRecord
<1>4. PICK reqs : reqs = [authReq EXCEPT ![r].pc = pc]
  OBVIOUS
<1>5. /\ reqs \in [AuthRequests -> RequestRecord] /\ reqs[r] = new
      /\ \A s \in AuthRequests \ {r} : reqs[s] = authReq[s]
  BY <1>1, <1>2, <1>3, <1>4
<1>6. \A s \in AuthRequests :
        /\ reqs[s] \in RequestRecord /\ reqs[s].op = authReq[s].op
        /\ reqs[s].key = authReq[s].key /\ reqs[s].ended = authReq[s].ended
        /\ reqs[s].copy = authReq[s].copy /\ reqs[s].password = authReq[s].password
        /\ authReq[s].overtaken => reqs[s].overtaken
  BY <1>3, <1>5
<1>7. authReq' = [s \in AuthRequests |-> IF reqs[s].pc \in {"storeToken", "fill"}
                                        THEN [reqs[s] EXCEPT !.overtaken = TRUE]
                                        ELSE reqs[s]]
  BY <1>4 DEF Overtakes
<1>8. ASSUME NEW s \in AuthRequests
      PROVE  /\ authReq'[s] \in RequestRecord /\ authReq'[s].pc = reqs[s].pc
             /\ authReq'[s].op = reqs[s].op /\ authReq'[s].key = reqs[s].key
             /\ authReq'[s].ended = reqs[s].ended /\ authReq'[s].copy = reqs[s].copy
             /\ authReq'[s].password = reqs[s].password
             /\ reqs[s].overtaken => authReq'[s].overtaken
             /\ reqs[s].pc \in {"storeToken", "fill"} => authReq'[s].overtaken
  <2>1. reqs[s] \in RequestRecord
    BY <1>6
  <2>2. CASE reqs[s].pc \in {"storeToken", "fill"}
    <3>1. authReq'[s] = [reqs[s] EXCEPT !.overtaken = TRUE]
      BY <1>7, <2>2
    <3>2. QED
      BY <2>1, <3>1 DEF RequestRecord
  <2>3. CASE reqs[s].pc \notin {"storeToken", "fill"}
    <3>1. authReq'[s] = reqs[s]
      BY <1>7, <2>3
    <3>2. QED
      BY <2>1, <2>3, <3>1
  <2>4. QED
    BY <2>2, <2>3
<1>9. authReq' \in [AuthRequests -> RequestRecord]
  <2>1. DOMAIN authReq' = AuthRequests
        /\ authReq' = [s \in AuthRequests |-> authReq'[s]]
    BY <1>7
  <2>2. QED
    BY <1>8, <2>1
<1>10. reqs[r].pc = pc /\ \A s \in AuthRequests \ {r} : reqs[s].pc = authReq[s].pc
  BY <1>3, <1>5
<1>11. \A s \in AuthRequests : Kept(s)
  <2> SUFFICES ASSUME NEW s \in AuthRequests
               PROVE  Kept(s)
    OBVIOUS
  <2>1. authReq[s].overtaken => authReq'[s].overtaken
    <3>1. authReq[s].overtaken => reqs[s].overtaken
      BY <1>6
    <3>2. reqs[s].overtaken => authReq'[s].overtaken
      BY <1>8
    <3>3. QED
      BY <3>1, <3>2
  <2>2. /\ authReq'[s].op = authReq[s].op /\ authReq'[s].key = authReq[s].key
        /\ authReq'[s].ended = authReq[s].ended /\ authReq'[s].copy = authReq[s].copy
        /\ authReq'[s].password = authReq[s].password
    <3>1. /\ authReq'[s].op = reqs[s].op /\ authReq'[s].key = reqs[s].key
          /\ authReq'[s].ended = reqs[s].ended /\ authReq'[s].copy = reqs[s].copy
          /\ authReq'[s].password = reqs[s].password
      BY <1>8
    <3>2. /\ reqs[s].op = authReq[s].op /\ reqs[s].key = authReq[s].key
          /\ reqs[s].ended = authReq[s].ended /\ reqs[s].copy = authReq[s].copy
          /\ reqs[s].password = authReq[s].password
      BY <1>6
    <3>3. QED
      BY <3>1, <3>2
  <2>3. QED
    BY <2>1, <2>2 DEF Kept
<1>12. \A s \in AuthRequests : authReq'[s].pc = reqs[s].pc
  BY <1>8
<1>13. Others(r) /\ authReq'[r].pc = pc
  BY <1>10, <1>11, <1>12 DEF Others
<1>14. QED
  BY <1>8, <1>9, <1>11, <1>12, <1>13

LEMMA RedisSets ==
    ASSUME SessionTypeOK, NEW k \in Keys, NEW v \in Sources \cup {None},
           redis' = [redis EXCEPT ![k] = v]
    PROVE  /\ redis' \in [Keys -> Sources \cup {None}] /\ redis'[k] = v
           /\ \A l \in Keys \ {k} : redis'[l] = redis[l]
BY DEF SessionTypeOK

LEMMA CacheRewritten ==
    ASSUME SessionTypeOK, NEW r \in AuthRequests, Rewritten(r)
    PROVE  /\ userCache' \in CacheRecord /\ r \in userCache'.since
           /\ userCache'.copy = userCache.copy /\ userCache'.by = userCache.by
           /\ userCache'.since = userCache.since \cup {r}
<1>1. userCache \in CacheRecord
  BY DEF SessionTypeOK
<1>2. PICK since : since = userCache.since \cup {r}
  OBVIOUS
<1>3. userCache' = [userCache EXCEPT !.since = since] /\ since \in SUBSET AuthRequests
  BY <1>1, <1>2 DEF Rewritten, CacheRecord
<1>4. QED
  BY <1>1, <1>2, <1>3 DEF CacheRecord

LEMMA RedisStays ==
    ASSUME SessionTypeOK, redis' = redis
    PROVE  /\ redis' \in [Keys -> Sources \cup {None}]
           /\ \A l \in Keys : redis'[l] = redis[l]
BY DEF SessionTypeOK

(* The first step of a request, and one that changes only where it is.     *)
LEMMA BeginsRequest ==
    ASSUME SessionInv, NEW r \in AuthRequests, NEW op \in Ops, NEW pc \in SessionPc,
           NEW key \in Sources \cup {None}, Begins(r, op, pc, Holds(key)),
           Opens(op, pc, key), RedisMoves(r, "idle", pc),
           account' = account, userCache' = userCache
    PROVE  SessionTypeOK' /\ RequestMoves(r)
<1>1. SessionTypeOK
  BY DEF SessionInv
<1>2. /\ authReq' \in [AuthRequests -> RequestRecord] /\ Others(r)
      /\ authReq[r].pc = "idle" /\ authReq'[r].op = op /\ authReq'[r].pc = pc
      /\ authReq'[r].key = key /\ authReq'[r].copy = AccountCopy
      /\ authReq'[r].password = account.password /\ authReq'[r].ended = Ended
  BY <1>1, BeginsMoves
<1>3. SessionTypeOK'
  BY <1>1, <1>2 DEF SessionTypeOK, RedisMoves
<1>4. Begun(r) /\ RedisMoves(r, authReq[r].pc, authReq'[r].pc)
  BY <1>2 DEF Begun
<1>5. AccountMoves(r) /\ CacheMoves(r)
  BY <1>2 DEF AccountMoves, CacheMoves, From
<1>6. QED
  BY <1>2, <1>3, <1>4, <1>5 DEF RequestMoves

LEMMA GoesRequest ==
    ASSUME SessionInv, NEW r \in AuthRequests, NEW a, NEW b \in SessionPc,
           authReq[r].pc = a, Goes(r, b), Follows(authReq[r].op, a, b),
           RedisMoves(r, a, b), ~(a = "dropCopy" /\ b = "done"),
           account' = account, userCache' = userCache
    PROVE  SessionTypeOK' /\ RequestMoves(r)
<1>1. SessionTypeOK
  BY DEF SessionInv
<1>2. /\ authReq' \in [AuthRequests -> RequestRecord] /\ Others(r) /\ Kept(r)
      /\ authReq'[r].pc = b
  BY <1>1, GoesMoves
<1>3. SessionTypeOK'
  BY <1>1, <1>2 DEF SessionTypeOK, RedisMoves
<1>4. Went(r) /\ RedisMoves(r, authReq[r].pc, authReq'[r].pc)
  BY <1>2 DEF Went
<1>5. AccountMoves(r) /\ CacheMoves(r)
  BY <1>2 DEF AccountMoves, CacheMoves, From
<1>6. QED
  BY <1>2, <1>3, <1>4, <1>5 DEF RequestMoves

(* One that writes the document.                                           *)
LEMMA WritesRequest ==
    ASSUME SessionInv, NEW r \in AuthRequests, NEW a, NEW b \in SessionPc,
           authReq[r].pc = a, Follows(authReq[r].op, a, b), a # "dropCopy",
           authReq' = Overtakes([authReq EXCEPT ![r].pc = b]),
           RedisMoves(r, a, b),
           account' \in [profile : Sources, password : Sources, isVerified : BOOLEAN],
           userCache' \in CacheRecord,
           userCache'.copy = userCache.copy, userCache'.by = userCache.by,
           userCache.since \subseteq userCache'.since,
           userCache'.since \subseteq userCache.since \cup {r},
           \/ /\ a = "writeProfile" /\ b = "dropCopy" /\ r \in userCache'.since
              /\ account'.password = account.password
           \/ /\ a = "savePassword" /\ b = "dropMark" /\ account'.password = r
              /\ account'.profile = account.profile
              /\ account'.isVerified = account.isVerified
           \/ /\ a = "saveVerified" /\ r \in userCache'.since
              /\ account'.password = account.password
              /\ account'.profile = account.profile
    PROVE  SessionTypeOK' /\ RequestMoves(r)
<1>1. SessionTypeOK
  BY DEF SessionInv
<1>2. /\ authReq' \in [AuthRequests -> RequestRecord] /\ Others(r) /\ Kept(r)
      /\ authReq'[r].pc = b
      /\ \A s \in AuthRequests :
           authReq'[s].pc \in {"storeToken", "fill"} => authReq'[s].overtaken
  BY <1>1, OvertakesMoves
<1>3. SessionTypeOK'
  BY <1>1, <1>2 DEF SessionTypeOK, RedisMoves
<1>4. Went(r) /\ RedisMoves(r, authReq[r].pc, authReq'[r].pc)
  BY <1>2 DEF Went
<1>5. AccountMoves(r)
  BY <1>2 DEF AccountMoves
<1>6. CacheMoves(r)
  BY DEF CacheMoves, From
<1>7. QED
  BY <1>2, <1>3, <1>4, <1>5, <1>6 DEF RequestMoves

(* What each operation does, in these terms.                               *)
LEMMA SessionStepMoves ==
    ASSUME SessionInv, NEW r \in AuthRequests, SessionStep(r)
    PROVE  SessionTypeOK' /\ RequestMoves(r)
<1>1. /\ account \in [profile : Sources, password : Sources, isVerified : BOOLEAN]
      /\ redis \in [Keys -> Sources \cup {None}]
      /\ userCache \in CacheRecord
      /\ authReq[r] \in RequestRecord
      /\ SessionTypeOK
  BY DEF SessionInv, SessionTypeOK
<1>2. /\ r \in Sources /\ 0 \in Sources /\ NoCopy \in CopyRecord
      /\ Keys = {"refresh", "otp", "otp_verified", "verify"}
  BY DEF Sources, NoCopy, CopyRecord, Keys
<1>3. PlaceSound(authReq[r])
  BY DEF SessionInv, RequestSound
<1>4. CASE Login(r)
  <2>1. /\ Begins(r, "login", "storeToken", Holds(None)) /\ redis' = redis
        /\ account' = account /\ userCache' = userCache
    BY <1>4 DEF Login
  <2>2. RedisMoves(r, "idle", "storeToken")
    BY <1>1, <1>2, <2>1, RedisStays DEF RedisMoves
  <2>3. None \in Sources \cup {None} /\ "login" \in Ops /\ "storeToken" \in SessionPc
    BY <1>1, <1>2 DEF Ops, SessionPc
  <2>4. QED
    BY <2>1, <2>2, <2>3, BeginsRequest DEF Opens
<1>5. CASE StoreToken(r)
  <2>1. /\ authReq[r].pc = "storeToken" /\ Goes(r, "fill")
        /\ redis' = [redis EXCEPT !["refresh"] = r]
        /\ account' = account /\ userCache' = userCache
    BY <1>5 DEF StoreToken, At
  <2>2. RedisMoves(r, "storeToken", "fill")
    BY <1>1, <1>2, <2>1, RedisSets DEF RedisMoves
  <2>3. QED
    BY <2>1, <2>2, GoesRequest DEF Follows, SessionPc
<1>6. CASE ReadUser(r)
  <2>1. /\ Begins(r, "view", "fill", Holds(None)) /\ redis' = redis
        /\ account' = account /\ userCache' = userCache
    BY <1>6 DEF ReadUser
  <2>2. RedisMoves(r, "idle", "fill")
    BY <1>1, <1>2, <2>1, RedisStays DEF RedisMoves
  <2>3. None \in Sources \cup {None} /\ "view" \in Ops /\ "fill" \in SessionPc
    BY <1>1, <1>2 DEF Ops, SessionPc
  <2>4. QED
    BY <2>1, <2>2, <2>3, BeginsRequest DEF Opens
<1>7. CASE FillUserCache(r)
  <2>1. /\ authReq[r].pc = "fill" /\ Goes(r, "done") /\ account' = account
        /\ redis' = redis
    BY <1>7 DEF FillUserCache, At
  <2>2. /\ authReq' \in [AuthRequests -> RequestRecord] /\ Others(r) /\ Kept(r)
        /\ authReq'[r].pc = "done"
    BY <1>1, <2>1, GoesMoves DEF SessionPc
  <2>3. authReq[r].copy \in CopyRecord /\ authReq[r].copy.isVerified \in BOOLEAN
        /\ account.isVerified \in BOOLEAN
    BY <1>1 DEF RequestRecord, CopyRecord
  <2>4. /\ userCache' \in CacheRecord
        /\ userCache'.copy = authReq[r].copy /\ userCache'.by = r
        /\ userCache'.since = {}
    BY <1>7, <1>2, <2>3 DEF FillUserCache, CacheRecord
  <2>5. Went(r)
    BY <2>1, <2>2 DEF Went, Follows
  <2>6. RedisMoves(r, authReq[r].pc, authReq'[r].pc)
    BY <1>1, <2>1, <2>2 DEF RedisMoves
  <2>7. CacheMoves(r) /\ AccountMoves(r)
    BY <2>1, <2>2, <2>4 DEF CacheMoves, AccountMoves, From
  <2>8. QED
    BY <1>1, <2>1, <2>2, <2>4, <2>5, <2>6, <2>7 DEF RequestMoves, SessionTypeOK
<1>8. CASE Logout(r)
  <2>1. /\ Begins(r, "logout", "dropCopy", Holds(None))
        /\ redis' = [redis EXCEPT !["refresh"] = None]
        /\ account' = account /\ userCache' = userCache
    BY <1>8 DEF Logout
  <2>2. RedisMoves(r, "idle", "dropCopy")
    BY <1>1, <1>2, <2>1, RedisSets DEF RedisMoves
  <2>3. None \in Sources \cup {None} /\ "logout" \in Ops /\ "dropCopy" \in SessionPc
    BY <1>1, <1>2 DEF Ops, SessionPc
  <2>4. QED
    BY <2>1, <2>2, <2>3, BeginsRequest DEF Opens
<1>9. CASE Refresh(r)
  <2>1. /\ Begins(r, "refresh", "issue", Holds(redis["refresh"])) /\ redis' = redis
        /\ account' = account /\ userCache' = userCache
    BY <1>9 DEF Refresh
  <2>2. RedisMoves(r, "idle", "issue")
    BY <1>1, <1>2, <2>1, RedisStays DEF RedisMoves
  <2>3. /\ redis["refresh"] \in Sources \cup {None}
        /\ "refresh" \in Ops /\ "issue" \in SessionPc
    BY <1>1, <1>2 DEF Ops, SessionPc
  <2>4. QED
    BY <2>1, <2>2, <2>3, BeginsRequest DEF Opens
<1>10. CASE IssueAccess(r)
  <2>1. /\ authReq[r].pc = "issue" /\ Goes(r, "done") /\ redis' = redis
        /\ account' = account /\ userCache' = userCache
    BY <1>10 DEF IssueAccess, At
  <2>2. RedisMoves(r, "issue", "done")
    BY <1>1, <1>2, <2>1, RedisStays DEF RedisMoves
  <2>3. QED
    BY <2>1, <2>2, GoesRequest DEF Follows, SessionPc
<1>11. CASE DropCopy(r)
  <2>1. PICK pc \in {"dropToken", "done"} :
          pc = IF authReq[r].op = "change" THEN "dropToken" ELSE "done"
    OBVIOUS
  <2>2. /\ authReq[r].pc = "dropCopy" /\ Goes(r, pc) /\ account' = account
        /\ redis' = redis
    BY <1>11, <2>1 DEF DropCopy, At
  <2>3. pc \in SessionPc
    BY <2>1 DEF SessionPc
  <2>4. /\ authReq' \in [AuthRequests -> RequestRecord] /\ Others(r) /\ Kept(r)
        /\ authReq'[r].pc = pc
    BY <1>1, <2>2, <2>3, GoesMoves
  <2>5. /\ userCache' \in CacheRecord
        /\ userCache'.copy = NoCopy /\ userCache'.by = 0 /\ userCache'.since = {}
    BY <1>11, <1>2 DEF DropCopy, EmptyCache, CacheRecord
  <2>6. Went(r)
    BY <2>1, <2>2, <2>4 DEF Went, Follows
  <2>7. RedisMoves(r, authReq[r].pc, authReq'[r].pc)
    BY <1>1, <2>1, <2>2, <2>4 DEF RedisMoves
  <2>8. CacheMoves(r) /\ AccountMoves(r)
    BY <2>2, <2>5 DEF CacheMoves, AccountMoves
  <2>9. QED
    BY <1>1, <2>2, <2>4, <2>5, <2>6, <2>7, <2>8 DEF RequestMoves, SessionTypeOK
<1>12. CASE BeginUpdate(r)
  <2>1. /\ Begins(r, "update", "writeProfile", Holds(None)) /\ redis' = redis
        /\ account' = account /\ userCache' = userCache
    BY <1>12 DEF BeginUpdate
  <2>2. RedisMoves(r, "idle", "writeProfile")
    BY <1>1, <1>2, <2>1, RedisStays DEF RedisMoves
  <2>3. None \in Sources \cup {None} /\ "update" \in Ops /\ "writeProfile" \in SessionPc
    BY <1>1, <1>2 DEF Ops, SessionPc
  <2>4. QED
    BY <2>1, <2>2, <2>3, BeginsRequest DEF Opens
<1>13. CASE WriteProfile(r)
  <2>1. authReq[r].pc = "writeProfile" /\ redis' = redis
    BY <1>13 DEF WriteProfile, At
  <2>2. authReq' = Overtakes([authReq EXCEPT ![r].pc = "dropCopy"])
    BY <1>13 DEF WriteProfile
  <2>3. /\ account' \in [profile : Sources, password : Sources, isVerified : BOOLEAN]
        /\ account'.password = account.password
    BY <1>13, <1>1, <1>2 DEF WriteProfile
  <2>4. /\ userCache' \in CacheRecord /\ r \in userCache'.since
        /\ userCache'.copy = userCache.copy /\ userCache'.by = userCache.by
        /\ userCache'.since = userCache.since \cup {r}
    BY <1>13, <1>1, CacheRewritten DEF WriteProfile
  <2>5. RedisMoves(r, "writeProfile", "dropCopy")
    BY <1>1, <2>1 DEF RedisMoves
  <2>6. Follows(authReq[r].op, "writeProfile", "dropCopy") /\ "dropCopy" \in SessionPc
    BY DEF Follows, SessionPc
  <2>7. QED
    BY <1>1, <2>1, <2>2, <2>3, <2>4, <2>5, <2>6, WritesRequest
<1>14. CASE Forgot(r)
  <2>1. /\ Begins(r, "forgot", "mail", Holds(r)) /\ redis' = [redis EXCEPT !["otp"] = r]
        /\ account' = account /\ userCache' = userCache
    BY <1>14 DEF Forgot
  <2>2. RedisMoves(r, "idle", "mail")
    BY <1>1, <1>2, <2>1, RedisSets DEF RedisMoves
  <2>3. r \in Sources \cup {None} /\ "forgot" \in Ops /\ "mail" \in SessionPc
    BY <1>1, <1>2 DEF Ops, SessionPc
  <2>4. QED
    BY <2>1, <2>2, <2>3, BeginsRequest DEF Opens
<1>15. CASE OtpMail(r)
  <2>1. /\ authReq[r].pc = "mail" /\ Goes(r, "done")
        /\ account' = account /\ userCache' = userCache
    BY <1>15 DEF OtpMail, At
  <2>2. CASE redis' = redis
    <3>1. RedisMoves(r, "mail", "done")
      BY <1>1, <2>2 DEF RedisMoves
    <3>2. QED
      BY <2>1, <3>1, GoesRequest DEF Follows, SessionPc
  <2>3. CASE redis' = [redis EXCEPT !["otp"] = None]
    <3>1. RedisMoves(r, "mail", "done")
      BY <1>1, <1>2, <2>3, RedisSets DEF RedisMoves
    <3>2. QED
      BY <2>1, <3>1, GoesRequest DEF Follows, SessionPc
  <2>4. QED
    BY <1>15, <2>2, <2>3 DEF OtpMail
<1>16. CASE BeginVerifyOtp(r)
  <2>1. /\ Begins(r, "otp", "dropOtp", Holds(redis["otp"])) /\ redis' = redis
        /\ account' = account /\ userCache' = userCache /\ redis["otp"] # None
    BY <1>16 DEF BeginVerifyOtp
  <2>2. RedisMoves(r, "idle", "dropOtp")
    BY <1>1, <1>2, <2>1, RedisStays DEF RedisMoves
  <2>3. redis["otp"] \in Sources \cup {None} /\ "otp" \in Ops /\ "dropOtp" \in SessionPc
    BY <1>1, <1>2 DEF Ops, SessionPc
  <2>4. QED
    BY <2>1, <2>2, <2>3, BeginsRequest DEF Opens
<1>17. CASE DropOtp(r)
  <2>1. /\ authReq[r].pc = "dropOtp" /\ Goes(r, "mark")
        /\ redis' = [redis EXCEPT !["otp"] = None]
        /\ account' = account /\ userCache' = userCache
    BY <1>17 DEF DropOtp, At
  <2>2. RedisMoves(r, "dropOtp", "mark")
    BY <1>1, <1>2, <2>1, RedisSets DEF RedisMoves
  <2>3. QED
    BY <2>1, <2>2, GoesRequest DEF Follows, SessionPc
<1>18. CASE Mark(r)
  <2>1. /\ authReq[r].pc = "mark" /\ Goes(r, "done")
        /\ redis' = [redis EXCEPT !["otp_verified"] = r]
        /\ account' = account /\ userCache' = userCache
    BY <1>18 DEF Mark, At
  <2>2. RedisMoves(r, "mark", "done")
    BY <1>1, <1>2, <2>1, RedisSets DEF RedisMoves
  <2>3. QED
    BY <2>1, <2>2, GoesRequest DEF Follows, SessionPc
<1>19. CASE BeginChange(r)
  <2>1. /\ Begins(r, "change", "savePassword", Holds(redis["otp_verified"]))
        /\ redis' = redis
        /\ account' = account /\ userCache' = userCache /\ redis["otp_verified"] # None
    BY <1>19 DEF BeginChange
  <2>2. RedisMoves(r, "idle", "savePassword")
    BY <1>1, <1>2, <2>1, RedisStays DEF RedisMoves
  <2>3. /\ redis["otp_verified"] \in Sources \cup {None}
        /\ "change" \in Ops /\ "savePassword" \in SessionPc
    BY <1>1, <1>2 DEF Ops, SessionPc
  <2>4. QED
    BY <2>1, <2>2, <2>3, BeginsRequest DEF Opens
<1>20. CASE SavePassword(r)
  <2>1. authReq[r].pc = "savePassword" /\ redis' = redis
    BY <1>20 DEF SavePassword, At
  <2>2. authReq' = Overtakes([authReq EXCEPT ![r].pc = "dropMark"])
    BY <1>20 DEF SavePassword
  <2>3. /\ account' \in [profile : Sources, password : Sources, isVerified : BOOLEAN]
        /\ account'.profile = account.profile /\ account'.password = r
        /\ account'.isVerified = account.isVerified
    BY <1>20, <1>1, <1>2 DEF SavePassword
  <2>4. userCache' = userCache
    BY <1>20, <1>1 DEF SavePassword
  <2>5. RedisMoves(r, "savePassword", "dropMark")
    BY <1>1, <2>1 DEF RedisMoves
  <2>6. Follows(authReq[r].op, "savePassword", "dropMark") /\ "dropMark" \in SessionPc
    BY DEF Follows, SessionPc
  <2>7. QED
    BY <1>1, <2>1, <2>2, <2>3, <2>4, <2>5, <2>6, WritesRequest
<1>21. CASE DropMark(r)
  <2>1. /\ authReq[r].pc = "dropMark" /\ Goes(r, "dropCopy")
        /\ redis' = [redis EXCEPT !["otp_verified"] = None]
        /\ account' = account /\ userCache' = userCache
    BY <1>21 DEF DropMark, At
  <2>2. RedisMoves(r, "dropMark", "dropCopy")
    BY <1>1, <1>2, <2>1, RedisSets DEF RedisMoves
  <2>3. QED
    BY <2>1, <2>2, GoesRequest DEF Follows, SessionPc
<1>22. CASE DropToken(r)
  <2>1. /\ authReq[r].pc = "dropToken" /\ Goes(r, "done")
        /\ redis' = [redis EXCEPT !["refresh"] = None]
        /\ account' = account /\ userCache' = userCache
    BY <1>22 DEF DropToken, At
  <2>2. RedisMoves(r, "dropToken", "done")
    BY <1>1, <1>2, <2>1, RedisSets DEF RedisMoves
  <2>3. QED
    BY <2>1, <2>2, GoesRequest DEF Follows, SessionPc
<1>23. CASE ResendVerification(r)
  <2>1. /\ Begins(r, "resend", "storeVerify", Holds(r)) /\ redis' = redis
        /\ account' = account /\ userCache' = userCache
    BY <1>23 DEF ResendVerification
  <2>2. RedisMoves(r, "idle", "storeVerify")
    BY <1>1, <1>2, <2>1, RedisStays DEF RedisMoves
  <2>3. r \in Sources \cup {None} /\ "resend" \in Ops /\ "storeVerify" \in SessionPc
    BY <1>1, <1>2 DEF Ops, SessionPc
  <2>4. QED
    BY <2>1, <2>2, <2>3, BeginsRequest DEF Opens
<1>24. CASE BeginVerifyEmail(r)
  <2>1. /\ Begins(r, "email", "saveVerified", Holds(redis["verify"])) /\ redis' = redis
        /\ account' = account /\ userCache' = userCache
    BY <1>24 DEF BeginVerifyEmail
  <2>2. RedisMoves(r, "idle", "saveVerified")
    BY <1>1, <1>2, <2>1, RedisStays DEF RedisMoves
  <2>3. /\ redis["verify"] \in Sources \cup {None}
        /\ "email" \in Ops /\ "saveVerified" \in SessionPc
    BY <1>1, <1>2 DEF Ops, SessionPc
  <2>4. QED
    BY <2>1, <2>2, <2>3, BeginsRequest DEF Opens
<1>25. CASE SaveVerified(r)
  <2>1. authReq[r].pc = "saveVerified" /\ redis' = redis
    BY <1>25 DEF SaveVerified, At
  <2>2. authReq' = Overtakes([authReq EXCEPT ![r].pc = "dropVerify"])
    BY <1>25 DEF SaveVerified
  <2>3. /\ account' \in [profile : Sources, password : Sources, isVerified : BOOLEAN]
        /\ account'.profile = account.profile
        /\ account'.password = account.password
    BY <1>25, <1>1, <1>2 DEF SaveVerified
  <2>4. /\ userCache' \in CacheRecord
        /\ r \in userCache'.since /\ userCache'.copy = userCache.copy
        /\ userCache'.by = userCache.by
        /\ userCache'.since = userCache.since \cup {r}
    BY <1>25, <1>1, CacheRewritten DEF SaveVerified
  <2>5. RedisMoves(r, "saveVerified", "dropVerify")
    BY <1>1, <2>1 DEF RedisMoves
  <2>6. /\ Follows(authReq[r].op, "saveVerified", "dropVerify")
        /\ "dropVerify" \in SessionPc
    BY DEF Follows, SessionPc
  <2>7. QED
    BY <1>1, <2>1, <2>2, <2>3, <2>4, <2>5, <2>6, WritesRequest
<1>26. CASE DropVerify(r)
  <2>1. /\ authReq[r].pc = "dropVerify" /\ Goes(r, "done")
        /\ redis' = [redis EXCEPT !["verify"] = None]
        /\ account' = account /\ userCache' = userCache
    BY <1>26 DEF DropVerify, At
  <2>2. RedisMoves(r, "dropVerify", "done")
    BY <1>1, <1>2, <2>1, RedisSets DEF RedisMoves
  <2>3. QED
    BY <2>1, <2>2, GoesRequest DEF Follows, SessionPc
<1>27. CASE CutRequest(r)
  <2>1. PICK a \in {"dropCopy", "dropMark", "dropToken", "dropVerify", "mark"} :
          authReq[r].pc = a
    BY <1>27 DEF CutRequest
  <2>2. /\ Goes(r, "cut") /\ redis' = redis
        /\ account' = account /\ userCache' = userCache
    BY <1>27 DEF CutRequest, Goes
  <2>3. RedisMoves(r, a, "cut")
    BY <1>1, <2>2 DEF RedisMoves
  <2>4. QED
    BY <2>1, <2>2, <2>3, GoesRequest DEF Follows, SessionPc
<1>28. CASE StoreVerify(r)
  <2>1. /\ authReq[r].pc = "storeVerify" /\ Goes(r, "done")
        /\ redis' = [redis EXCEPT !["verify"] = r]
        /\ account' = account /\ userCache' = userCache
    BY <1>28 DEF StoreVerify, At
  <2>2. RedisMoves(r, "storeVerify", "done")
    BY <1>1, <1>2, <2>1, RedisSets DEF RedisMoves
  <2>3. QED
    BY <2>1, <2>2, GoesRequest DEF Follows, SessionPc
<1>29. QED
  BY <1>4, <1>5, <1>6, <1>7, <1>8, <1>9, <1>10, <1>11, <1>12, <1>13,
     <1>14, <1>15, <1>16, <1>17, <1>18, <1>19, <1>20, <1>21, <1>22,
     <1>23, <1>24, <1>25, <1>26, <1>27, <1>28 DEF SessionStep

(* A key or the copy expires: only what was there may go.                  *)
LEMMA ExpireSound == SessionInv /\ Expire => SessionInv'
<1> SUFFICES ASSUME SessionInv, Expire
             PROVE  SessionInv'
  OBVIOUS
<1>1. /\ account' = account /\ AccountCopy' = AccountCopy /\ authReq' = authReq
      /\ \A k \in Keys : redis'[k] \in {redis[k], None}
      /\ redis' \in [Keys -> Sources \cup {None}]
  <2>1. account' = account /\ AccountCopy' = AccountCopy /\ authReq' = authReq
    BY DEF Expire, AccountCopy
  <2>2. redis \in [Keys -> Sources \cup {None}]
    BY DEF SessionInv, SessionTypeOK
  <2>3. CASE redis' = redis
    BY <2>1, <2>2, <2>3
  <2>4. CASE \E k \in Keys : redis' = [redis EXCEPT ![k] = None]
    BY <2>1, <2>2, <2>4
  <2>5. QED
    BY <2>3, <2>4 DEF Expire
<1>2. \/ userCache' = userCache
      \/ userCache'.copy = NoCopy /\ userCache'.by = 0 /\ userCache'.since = {}
  BY DEF Expire, EmptyCache
<1>3. SessionTypeOK'
  <2>1. userCache' \in CacheRecord
    <3>1. NoCopy \in CopyRecord /\ 0 \in Sources
      BY DEF NoCopy, CopyRecord, Sources
    <3>2. userCache \in CacheRecord
      BY DEF SessionInv, SessionTypeOK
    <3>3. userCache' = userCache
          \/ userCache' = EmptyCache
      BY DEF Expire
    <3>4. EmptyCache \in CacheRecord
      BY <3>1 DEF EmptyCache, CacheRecord
    <3>5. QED
      BY <3>2, <3>3, <3>4
  <2>2. QED
    BY <1>1, <2>1 DEF SessionInv, SessionTypeOK
<1>4. /\ redis'["otp"] \in {redis["otp"], None}
      /\ redis'["otp_verified"] \in {redis["otp_verified"], None}
      /\ redis'["refresh"] \in {redis["refresh"], None}
  BY <1>1 DEF Keys
<1>5. ASSUME NEW s \in AuthRequests
      PROVE  RequestSound(authReq[s])'
  <2>1. RequestSound(authReq[s]) /\ authReq[s].ended \subseteq AuthRequests
    BY DEF SessionInv, SessionTypeOK, RequestRecord
  <2>2. PlaceSound(authReq[s])' /\ HeldSound(authReq[s])' /\ EndedSound(authReq[s])'
    BY <1>1, <2>1 DEF RequestSound, PlaceSound, HeldSound, EndedSound
  <2>3. CodeSound(authReq[s])'
    <3>1. CodeSound(authReq[s]) /\ None \notin Sources
      BY <2>1, SourcesNat DEF RequestSound
    <3>2. QED
      BY <1>1, <1>4, <3>1 DEF CodeSound
  <2>4. TokenSound(authReq[s])'
    <3>1. TokenSound(authReq[s]) /\ None \notin authReq[s].ended \cup {0}
      BY <2>1, SourcesNat DEF RequestSound
    <3>2. QED
      BY <1>1, <1>4, <3>1 DEF TokenSound
  <2>5. QED
    BY <2>2, <2>3, <2>4 DEF RequestSound
<1>6. KeysSound' /\ CacheSound'
  BY <1>1, <1>2, <1>4, SourcesNat DEF SessionInv, KeysSound, CacheSound
<1>7. UserCopyFresh'
  BY <1>1, <1>2 DEF SessionInv, UserCopyFresh, Requests
<1>8. ResetRevokes'
  BY <1>1, <1>4, SourcesNat DEF SessionInv, ResetRevokes, Requests
<1>9. QED
  BY <1>3, <1>5, <1>6, <1>7, <1>8 DEF SessionInv

LEMMA SessionStutters == SessionInv /\ UNCHANGED sessionVars => SessionInv'
<1> SUFFICES ASSUME SessionInv, UNCHANGED sessionVars
             PROVE  SessionInv'
  OBVIOUS
<1>1. UNCHANGED <<account, redis, userCache, authReq>> /\ AccountCopy' = AccountCopy
  BY DEF sessionVars, AccountCopy
<1>2. SessionTypeOK'
  BY <1>1 DEF SessionInv, SessionTypeOK
<1>3. \A s \in AuthRequests : RequestSound(authReq[s])'
  BY <1>1 DEF SessionInv, RequestSound, PlaceSound, HeldSound, CodeSound, TokenSound,
              EndedSound
<1>4. KeysSound' /\ CacheSound' /\ UserCopyFresh' /\ ResetRevokes'
  BY <1>1 DEF SessionInv, KeysSound, CacheSound, UserCopyFresh, ResetRevokes, Requests
<1>5. QED
  BY <1>2, <1>3, <1>4 DEF SessionInv

(* For any number of requests of one account, that stop or find their keys *)
(* expired: the copy is the account's, unless a writer overtook the request*)
(* that stored it, an update has not dropped it (or stopped before it did),*)
(* or the email was verified since; a session opened with an old password  *)
(* ends with the request that set the present one, unless that one stopped *)
(* before or the account was saved while the login was under way; a code   *)
(* or a mark serves two requests only if neither had ended when the other  *)
(* began; and a session that a logout or a change found and ended gives no *)
(* token to a refresh that begins later.                                   *)
THEOREM SessionIsSound == SessionsSpec => []SessionSound
<1>1. SessionInv /\ [SessionsNext]_sessionVars => SessionInv'
  BY SessionStepMoves, RequestMovesSound, ExpireSound, SessionStutters DEF SessionsNext
<1>2. QED
  BY <1>1, SessionInitial, SessionsAreSound, PTL DEF SessionsSpec

-----------------------------------------------------------------------------
(* Events: what a user hears of a payout.                                  *)

Words == {"processing", "completed", "failed"}

PayerPc ==
    {"idle", "load", "mark", "tell processing", "pay", "complete", "settle",
     "tell completed", "fail", "tell failed", "ack", "nack"}

EventTypeOK ==
    /\ payment \in [record : Words \cup {"initiated"},
                    request : {"publish", "audit", "failed", "done", "gone"}]
    /\ payer \in [Payers -> [pc : PayerPc, linked : BOOLEAN]]
    /\ bus \in Seq(Words) /\ heard \in Seq(Words \cup {"initiated"})
    /\ muddled \in [lost : BOOLEAN, overlap : BOOLEAN, blind : BOOLEAN]

(* The last word of the workers, under way or heard.                       *)
Said(word) ==
    \/ bus # <<>> /\ bus[Len(bus)] = word
    \/ bus = <<>> /\ \E i \in DOMAIN heard : LastWord(i) /\ heard[i] = word

CompletedSaid ==
    \/ \E i \in DOMAIN bus : bus[i] = "completed"
    \/ \E i \in DOMAIN heard : heard[i] = "completed"

OneAtWork ==
    \A v, w \in Payers : payer[v].pc # "idle" /\ payer[w].pc # "idle" => v = w

(* What a handler knows of the record.                                     *)
PayerKnows(w) ==
    /\ payer[w].pc \in {"mark", "tell processing", "pay", "complete"} =>
         payment.record # "completed"
    /\ payer[w].pc \in {"settle", "tell completed", "ack"} =>
         payment.record = "completed"
    /\ payer[w].pc = "tell failed" => payment.record = "failed"
    /\ payer[w].pc = "nack" /\ ~muddled.lost =>
         payment.record = "failed" /\ Said("failed")

(* After "completed" nothing else is said, or is under way.                *)
NothingElse ==
    /\ \A i, j \in DOMAIN bus : bus[i] = "completed" /\ j > i => bus[j] = "completed"
    /\ \A i \in DOMAIN heard : heard[i] = "completed" =>
         LastWord(i) /\ \A j \in DOMAIN bus : bus[j] = "completed"

(* Completed is said once the record says it, at last, and at a time when  *)
(* no handler has anything to do.                                          *)
CompletedIsLast ==
    /\ NothingElse
    /\ CompletedSaid =>
         /\ payment.record = "completed"
         /\ \A w \in Payers : payer[w].pc \in {"idle", "load", "ack"}

(* A completed record is told, but for the handler that is about to; and   *)
(* what is told of a message out of the queue is the record.               *)
RecordIsSaid ==
    /\ payment.record = "completed"
       /\ (\A w \in Payers : payer[w].pc \in {"idle", "load", "ack"}) =>
         Said("completed")
    /\ envelope.at \in {"done", "dead", "timer"} => Said(payment.record)

EndedIsIdle ==
    envelope.at \in {"done", "dead", "timer"} =>
        \A w \in Payers : payer[w].pc = "idle"

EventsInv ==
    /\ EventTypeOK
    /\ ~muddled.overlap /\ ~muddled.blind =>
         /\ OneAtWork /\ EndedIsIdle /\ CompletedIsLast
         /\ \A w \in Payers : PayerKnows(w)
         /\ ~muddled.lost => RecordIsSaid

LEMMA EventsAreTold == EventsInv => EventsTell
<1> SUFFICES ASSUME EventsInv, ~muddled.overlap, ~muddled.blind
             PROVE  /\ \A i \in DOMAIN heard : heard[i] = "completed" =>
                         LastWord(i) /\ payment.record = "completed"
                    /\ Quiet /\ ~muddled.lost =>
                         \E i \in DOMAIN heard :
                           LastWord(i) /\ heard[i] = payment.record
  BY DEF EventsTell
<1>1. \A i \in DOMAIN heard : heard[i] = "completed" =>
        LastWord(i) /\ payment.record = "completed"
  BY DEF EventsInv, CompletedIsLast, NothingElse, CompletedSaid
<1>2. ASSUME Quiet, ~muddled.lost
      PROVE  \E i \in DOMAIN heard : LastWord(i) /\ heard[i] = payment.record
  BY <1>2 DEF EventsInv, RecordIsSaid, Said, Quiet
<1>3. QED
  BY <1>1, <1>2

LEMMA EventsInitial == PayoutEventsInit => EventsInv
<1> SUFFICES ASSUME PayoutEventsInit
             PROVE  EventsInv
  OBVIOUS
<1>1. IdlePayer \in [pc : PayerPc, linked : BOOLEAN] /\ IdlePayer.pc = "idle"
  BY DEF IdlePayer, PayerPc
<1>2. EventTypeOK
  BY <1>1 DEF PayoutEventsInit, EventTypeOK, Words
<1>3. \A w \in Payers : payer[w].pc = "idle"
  BY <1>1 DEF PayoutEventsInit
<1>4. payment.record = "initiated" /\ envelope.at = "unsent"
      /\ bus = <<>> /\ heard = <<>>
  BY DEF PayoutEventsInit
<1>5. OneAtWork /\ EndedIsIdle /\ \A w \in Payers : PayerKnows(w)
  BY <1>3 DEF OneAtWork, EndedIsIdle, PayerKnows
<1>6. CompletedIsLast
  BY <1>4 DEF CompletedIsLast, NothingElse, CompletedSaid
<1>7. RecordIsSaid
  BY <1>4 DEF RecordIsSaid
<1>8. QED
  BY <1>2, <1>5, <1>6, <1>7 DEF EventsInv

(* Where the words are: what is forwarded, published, or said by the       *)
(* gateway, leaves the last word what it was.                              *)
LEMMA GatewaySpeaks ==
    ASSUME EventTypeOK, heard' = Append(heard, "initiated"), bus' = bus
    PROVE  /\ heard' \in Seq(Words \cup {"initiated"})
           /\ \A word : Said(word) => Said(word)'
           /\ CompletedSaid' => CompletedSaid
           /\ NothingElse => NothingElse'
<1>1. heard \in Seq(Words \cup {"initiated"})
  BY DEF EventTypeOK
<1>2. /\ heard' \in Seq(Words \cup {"initiated"}) /\ Len(heard') = Len(heard) + 1
      /\ Len(heard) \in Nat /\ DOMAIN heard = 1..Len(heard)
      /\ DOMAIN heard' = 1..(Len(heard) + 1)
      /\ heard'[Len(heard) + 1] = "initiated"
      /\ \A i \in DOMAIN heard : heard'[i] = heard[i]
  BY <1>1
<1>3. ASSUME NEW i \in DOMAIN heard, LastWord(i)
      PROVE  i \in DOMAIN heard' /\ LastWord(i)' /\ heard'[i] = heard[i]
  BY <1>2, <1>3 DEF LastWord
<1>4. ASSUME NEW i \in DOMAIN heard', heard'[i] = "completed"
      PROVE  i \in DOMAIN heard /\ heard[i] = "completed"
  BY <1>2, <1>4
<1>5. CompletedSaid' => CompletedSaid
  BY <1>4 DEF CompletedSaid
<1>6. ASSUME NEW word, Said(word)
      PROVE  Said(word)'
  BY <1>3, <1>6 DEF Said
<1>7. NothingElse => NothingElse'
  BY <1>3, <1>4 DEF NothingElse
<1>8. QED
  BY <1>2, <1>5, <1>6, <1>7

LEMMA WordForwarded ==
    ASSUME EventTypeOK, bus # <<>>, heard' = Append(heard, Head(bus)), bus' = Tail(bus)
    PROVE  /\ heard' \in Seq(Words \cup {"initiated"}) /\ bus' \in Seq(Words)
           /\ \A word : Said(word) => Said(word)'
           /\ CompletedSaid' => CompletedSaid
           /\ NothingElse => NothingElse'
<1>1. heard \in Seq(Words \cup {"initiated"}) /\ bus \in Seq(Words)
  BY DEF EventTypeOK
<1>2. /\ Len(bus) \in Nat \ {0} /\ DOMAIN bus = 1..Len(bus)
      /\ Head(bus) = bus[1] /\ bus[1] \in Words
  BY <1>1
<1>3. /\ bus' \in Seq(Words) /\ Len(bus') = Len(bus) - 1
      /\ DOMAIN bus' = 1..(Len(bus) - 1)
      /\ \A i \in DOMAIN bus' : bus'[i] = bus[i + 1]
      /\ bus' = <<>> <=> Len(bus) = 1
  <2>1. bus' \in Seq(Words) /\ Len(bus') = Len(bus) - 1
    BY <1>1, <1>2
  <2>2. DOMAIN bus' = 1..(Len(bus) - 1)
    BY <1>2, <2>1
  <2>3. \A i \in DOMAIN bus' : bus'[i] = bus[i + 1]
    BY <1>1, <1>2, <2>2
  <2>4. bus' = <<>> <=> Len(bus) = 1
    BY <1>2, <2>1
  <2>5. QED
    BY <2>1, <2>2, <2>3, <2>4
<1>4. /\ heard' \in Seq(Words \cup {"initiated"}) /\ Len(heard') = Len(heard) + 1
      /\ Len(heard) \in Nat /\ DOMAIN heard = 1..Len(heard)
      /\ DOMAIN heard' = 1..(Len(heard) + 1)
      /\ heard'[Len(heard) + 1] = bus[1]
      /\ \A i \in DOMAIN heard : heard'[i] = heard[i]
  BY <1>1, <1>2
<1>5. PICK n \in Nat : n = Len(heard) + 1
  BY <1>4
<1>6. LastWord(n)' /\ n \in DOMAIN heard' /\ heard'[n] = bus[1]
  <2>1. heard'[n] # "initiated"
    BY <1>2, <1>4, <1>5 DEF Words
  <2>2. \A j \in DOMAIN heard' : ~(j > n)
    BY <1>4, <1>5
  <2>3. QED
    BY <1>4, <1>5, <2>1, <2>2 DEF LastWord
<1>7. ASSUME NEW word, Said(word)
      PROVE  Said(word)'
  <2>1. bus[Len(bus)] = word
    BY <1>7 DEF Said
  <2>2. CASE Len(bus) = 1
    <3>1. bus' = <<>> /\ heard'[n] = word
      BY <1>3, <1>6, <2>1, <2>2
    <3>2. QED
      BY <1>6, <3>1 DEF Said
  <2>3. CASE Len(bus) # 1
    <3>1. Len(bus') \in DOMAIN bus' /\ bus'[Len(bus')] = word
      BY <1>2, <1>3, <2>1, <2>3
    <3>2. QED
      BY <1>3, <2>3, <3>1 DEF Said
  <2>4. QED
    BY <2>2, <2>3
<1>8. CompletedSaid' => CompletedSaid
  <2>1. ASSUME NEW i \in DOMAIN bus', bus'[i] = "completed"
        PROVE  \E k \in DOMAIN bus : bus[k] = "completed"
    BY <1>2, <1>3, <2>1
  <2>2. ASSUME NEW i \in DOMAIN heard', heard'[i] = "completed"
        PROVE  \/ \E k \in DOMAIN bus : bus[k] = "completed"
               \/ \E k \in DOMAIN heard : heard[k] = "completed"
    BY <1>2, <1>4, <2>2
  <2>3. QED
    BY <2>1, <2>2 DEF CompletedSaid
<1>9. ASSUME NothingElse
      PROVE  NothingElse'
  <2>1. ASSUME NEW i \in DOMAIN bus', NEW j \in DOMAIN bus',
               bus'[i] = "completed", j > i
        PROVE  bus'[j] = "completed"
    <3>1. /\ i + 1 \in DOMAIN bus /\ j + 1 \in DOMAIN bus /\ j + 1 > i + 1
          /\ bus[i + 1] = "completed" /\ bus'[j] = bus[j + 1]
      BY <1>2, <1>3, <2>1
    <3>2. QED
      BY <1>9, <3>1 DEF NothingElse
  <2>2. ASSUME NEW i \in DOMAIN heard', heard'[i] = "completed"
        PROVE  LastWord(i)' /\ \A j \in DOMAIN bus' : bus'[j] = "completed"
    <3>1. bus[1] = "completed" /\ \A j \in DOMAIN bus : bus[j] = "completed"
      <4>1. CASE i = n
        <5>1. bus[1] = "completed" /\ 1 \in DOMAIN bus
          BY <1>2, <1>6, <2>2, <4>1
        <5>2. \A j \in DOMAIN bus : j = 1 \/ j > 1
          BY <1>2
        <5>3. QED
          BY <1>9, <5>1, <5>2 DEF NothingElse
      <4>2. CASE i # n
        <5>1. i \in DOMAIN heard /\ heard[i] = "completed"
          BY <1>4, <1>5, <2>2, <4>2
        <5>2. QED
          BY <1>2, <1>9, <5>1 DEF NothingElse
      <4>3. QED
        BY <4>1, <4>2
    <3>2. \A j \in DOMAIN bus' : bus'[j] = "completed"
      BY <1>2, <1>3, <3>1
    <3>3. LastWord(i)'
      <4>1. ASSUME NEW j \in DOMAIN heard', j > i
            PROVE  heard'[j] \in {"initiated", "completed"}
        <5>1. CASE j = n
          BY <1>6, <3>1, <5>1
        <5>2. CASE j # n
          <6>1. /\ i \in DOMAIN heard /\ heard[i] = "completed"
                /\ j \in DOMAIN heard /\ heard'[j] = heard[j]
            BY <1>4, <1>5, <2>2, <4>1, <5>2
          <6>2. LastWord(i)
            BY <1>9, <6>1 DEF NothingElse
          <6>3. QED
            BY <4>1, <6>1, <6>2 DEF LastWord
        <5>3. QED
          BY <5>1, <5>2
      <4>2. QED
        BY <2>2, <4>1 DEF LastWord
    <3>4. QED
      BY <3>2, <3>3
  <2>3. QED
    BY <2>1, <2>2 DEF NothingElse
<1>10. QED
  BY <1>3, <1>4, <1>7, <1>8, <1>9

(* What is published, once or twice.                                       *)
LEMMA WordPublished ==
    ASSUME EventTypeOK, NEW word \in Words, heard' = heard,
           bus' \in {Append(bus, word), Append(Append(bus, word), word)}
    PROVE  /\ bus' \in Seq(Words) /\ Said(word)'
           /\ CompletedSaid' => CompletedSaid \/ word = "completed"
           /\ ~CompletedSaid => NothingElse'
<1>1. bus \in Seq(Words)
  BY DEF EventTypeOK
<1>2. PICK new : new = bus'
  OBVIOUS
<1>3. /\ new \in Seq(Words) /\ Len(bus) \in Nat /\ DOMAIN bus = 1..Len(bus)
      /\ Len(new) \in {Len(bus) + 1, Len(bus) + 2} /\ DOMAIN new = 1..Len(new)
      /\ \A i \in DOMAIN bus : new[i] = bus[i]
      /\ \A i \in DOMAIN new : i > Len(bus) => new[i] = word
  <2>1. PICK one : one = Append(bus, word)
    OBVIOUS
  <2>2. /\ one \in Seq(Words) /\ Len(one) = Len(bus) + 1 /\ Len(bus) \in Nat
        /\ DOMAIN bus = 1..Len(bus) /\ DOMAIN one = 1..Len(one)
        /\ one[Len(bus) + 1] = word /\ \A i \in DOMAIN bus : one[i] = bus[i]
    BY <1>1, <2>1
  <2>3. CASE new = one
    BY <2>2, <2>3
  <2>4. CASE new = Append(one, word)
    <3>1. /\ new \in Seq(Words) /\ Len(new) = Len(one) + 1
          /\ DOMAIN new = 1..Len(new) /\ new[Len(one) + 1] = word
          /\ \A i \in DOMAIN one : new[i] = one[i]
      BY <2>2, <2>4
    <3>2. QED
      BY <2>2, <3>1
  <2>5. QED
    BY <1>2, <2>1, <2>3, <2>4
<1>4. PICK n : n = Len(bus)
  OBVIOUS
<1>5. PICK m : m = Len(new)
  OBVIOUS
<1>6. /\ n \in Nat /\ DOMAIN bus = 1..n /\ DOMAIN new = 1..m /\ m \in {n + 1, n + 2}
      /\ \A i \in 1..n : new[i] = bus[i]
      /\ \A i \in 1..m : i > n => new[i] = word
  <2>1. n \in Nat /\ DOMAIN bus = 1..n /\ DOMAIN new = 1..m
    BY <1>3, <1>4, <1>5
  <2>2. m = n + 1 \/ m = n + 2
    BY <1>3, <1>4, <1>5
  <2>3. \A i \in 1..n : new[i] = bus[i]
    BY <1>3, <2>1
  <2>4. \A i \in 1..m : i > n => new[i] = word
    BY <1>3, <1>4, <2>1
  <2>5. QED
    BY <2>1, <2>2, <2>3, <2>4
<1>7. Said(word)'
  <2>1. m \in 1..m /\ m > n
    BY <1>6
  <2>2. new[m] = word
    BY <1>6, <2>1
  <2>3. new # <<>> /\ new[Len(new)] = word
    BY <1>5, <1>6, <2>1, <2>2
  <2>4. QED
    BY <1>2, <2>3 DEF Said
<1>8. ASSUME NEW i \in 1..m, new[i] = "completed"
      PROVE  \/ i \in DOMAIN bus /\ bus[i] = "completed"
             \/ i > n /\ word = "completed"
  <2>1. CASE i > n
    BY <1>6, <1>8, <2>1
  <2>2. CASE ~(i > n)
    <3>1. i \in 1..n
      BY <1>6, <2>2
    <3>2. QED
      BY <1>6, <1>8, <3>1
  <2>3. QED
    BY <2>1, <2>2
<1>9. CompletedSaid' => CompletedSaid \/ word = "completed"
  BY <1>2, <1>6, <1>8 DEF CompletedSaid
<1>10. ASSUME ~CompletedSaid
      PROVE  NothingElse'
  <2>1. ASSUME NEW i \in 1..m, NEW j \in 1..m, new[i] = "completed", j > i
        PROVE  new[j] = "completed"
    <3>1. i > n /\ word = "completed"
      BY <1>8, <1>10, <2>1 DEF CompletedSaid
    <3>2. j > n
      BY <1>6, <2>1, <3>1
    <3>3. QED
      BY <1>6, <3>1, <3>2
  <2>2. \A i \in DOMAIN heard' : heard'[i] # "completed"
    BY <1>10 DEF CompletedSaid
  <2>3. QED
    BY <1>2, <1>6, <2>1, <2>2 DEF NothingElse
<1>11. QED
  BY <1>2, <1>3, <1>7, <1>9, <1>10

(* The speech is as it was.                                                *)
LEMMA SpeechStays ==
    ASSUME UNCHANGED <<bus, heard>>
    PROVE  /\ \A word : Said(word) <=> Said(word)'
           /\ CompletedSaid <=> CompletedSaid'
           /\ NothingElse <=> NothingElse'
BY DEF Said, CompletedSaid, NothingElse, LastWord

EndedAt == {"done", "dead", "timer"}

(* A step that leaves every handler where it is.                           *)
LEMMA HandlersStay ==
    ASSUME EventsInv, EventTypeOK',
           \A w \in Payers : payer'[w].pc = payer[w].pc,
           payment'.record = payment.record,
           muddled'.overlap = muddled.overlap, muddled'.blind = muddled.blind,
           ~muddled'.lost => ~muddled.lost /\ \A word : Said(word) => Said(word)',
           envelope'.at \in EndedAt => envelope.at \in EndedAt,
           CompletedSaid' => CompletedSaid,
           NothingElse => NothingElse'
    PROVE  EventsInv'
<1> SUFFICES ASSUME ~muddled.overlap, ~muddled.blind
             PROVE  /\ OneAtWork' /\ EndedIsIdle' /\ CompletedIsLast'
                    /\ \A w \in Payers : PayerKnows(w)'
                    /\ ~muddled'.lost => RecordIsSaid'
  BY DEF EventsInv
<1>1. OneAtWork' /\ EndedIsIdle'
  BY DEF EventsInv, OneAtWork, EndedIsIdle, EndedAt
<1>2. CompletedIsLast'
  BY DEF EventsInv, CompletedIsLast
<1>3. \A w \in Payers : PayerKnows(w)'
  BY DEF EventsInv, PayerKnows
<1>4. ~muddled'.lost => RecordIsSaid'
  BY DEF EventsInv, RecordIsSaid, EndedAt
<1>5. QED
  BY <1>1, <1>2, <1>3, <1>4

(* A step of the handler at work.                                          *)
LEMMA HandlerSteps ==
    ASSUME EventsInv, EventTypeOK', NEW w \in Payers,
           ~muddled.overlap, ~muddled.blind, payer[w].pc # "idle",
           \A v \in Payers \ {w} : payer'[v].pc = payer[v].pc,
           envelope'.at \in EndedAt =>
             payer'[w].pc = "idle" /\ (~muddled'.lost => Said(payment.record)'),
           ~muddled'.lost => ~muddled.lost,
           PayerKnows(w)', CompletedIsLast',
           ~muddled'.lost /\ payment'.record = "completed"
             /\ payer'[w].pc \in {"idle", "load", "ack"} => Said("completed")'
    PROVE  EventsInv'
<1>1. \A v \in Payers \ {w} : payer[v].pc = "idle" /\ payer'[v].pc = "idle"
  BY DEF EventsInv, OneAtWork
<1>2. OneAtWork' /\ EndedIsIdle'
  BY <1>1 DEF OneAtWork, EndedIsIdle, EndedAt
<1>3. \A v \in Payers : PayerKnows(v)'
  <2> SUFFICES ASSUME NEW v \in Payers, v # w
               PROVE  PayerKnows(v)'
    OBVIOUS
  <2>1. payer'[v].pc = "idle"
    BY <1>1
  <2>2. QED
    BY <2>1 DEF PayerKnows
<1>4. ~muddled'.lost => RecordIsSaid'
  BY DEF RecordIsSaid, EndedAt
<1>5. QED
  BY <1>2, <1>3, <1>4 DEF EventsInv

LEMMA PayerMoves ==
    ASSUME EventTypeOK, NEW w \in Payers, NEW pc \in PayerPc, PayerTo(w, pc)
    PROVE  /\ payer' \in [Payers -> [pc : PayerPc, linked : BOOLEAN]]
           /\ payer'[w].pc = pc
           /\ \A v \in Payers \ {w} : payer'[v].pc = payer[v].pc
<1>1. payer \in [Payers -> [pc : PayerPc, linked : BOOLEAN]]
  BY DEF EventTypeOK
<1>2. PICK new : new = [payer[w] EXCEPT !.pc = pc]
  OBVIOUS
<1>3. new \in [pc : PayerPc, linked : BOOLEAN] /\ new.pc = pc
  BY <1>1, <1>2
<1>4. payer' = [payer EXCEPT ![w] = new]
  BY <1>2 DEF PayerTo
<1>5. QED
  BY <1>1, <1>3, <1>4

LEMMA Muddles ==
    ASSUME EventTypeOK, NEW kind \in {"lost", "blind"}, Muddle(kind)
    PROVE  /\ muddled' \in [lost : BOOLEAN, overlap : BOOLEAN, blind : BOOLEAN]
           /\ muddled'.overlap = muddled.overlap
           /\ kind = "lost" => muddled'.lost /\ muddled'.blind = muddled.blind
           /\ kind = "blind" => muddled'.blind /\ muddled'.lost = muddled.lost
<1>1. muddled \in [lost : BOOLEAN, overlap : BOOLEAN, blind : BOOLEAN]
  BY DEF EventTypeOK
<1>2. CASE kind = "lost"
  BY <1>1, <1>2 DEF Muddle
<1>3. CASE kind = "blind"
  BY <1>1, <1>3 DEF Muddle
<1>4. QED
  BY <1>2, <1>3

-----------------------------------------------------------------------------
LEMMA PublishPaymentKeeps == EventsInv /\ PublishPayment => EventsInv'
<1> SUFFICES ASSUME EventsInv, PublishPayment
             PROVE  EventsInv'
  OBVIOUS
<1>1. UNCHANGED <<payer, bus, heard, muddled>>
  BY DEF PublishPayment
<1>2. /\ payment'.record = payment.record
      /\ payment' \in [record : Words \cup {"initiated"},
                       request : {"publish", "audit", "failed", "done", "gone"}]
  BY DEF EventsInv, EventTypeOK, PublishPayment
<1>3. EventTypeOK'
  BY <1>1, <1>2 DEF EventsInv, EventTypeOK
<1>4. envelope'.at \in EndedAt => envelope.at \in EndedAt
  BY DEF PublishPayment, EndedAt
<1>5. /\ \A word : Said(word) <=> Said(word)'
      /\ (CompletedSaid <=> CompletedSaid') /\ (NothingElse <=> NothingElse')
  BY <1>1, SpeechStays
<1>6. QED
  BY <1>1, <1>2, <1>3, <1>4, <1>5, HandlersStay

LEMMA EmitInitiatedKeeps == EventsInv /\ EmitInitiated => EventsInv'
<1> SUFFICES ASSUME EventsInv, EmitInitiated
             PROVE  EventsInv'
  OBVIOUS
<1>1. /\ UNCHANGED <<payer, bus, muddled, envelope>>
      /\ heard' = Append(heard, "initiated") /\ EventTypeOK
  BY DEF EmitInitiated, Emit, EventsInv
<1>2. /\ payment'.record = payment.record
      /\ payment' \in [record : Words \cup {"initiated"},
                       request : {"publish", "audit", "failed", "done", "gone"}]
  BY DEF EventsInv, EventTypeOK, EmitInitiated
<1>3. /\ heard' \in Seq(Words \cup {"initiated"})
      /\ \A word : Said(word) => Said(word)'
      /\ CompletedSaid' => CompletedSaid
      /\ NothingElse => NothingElse'
  BY <1>1, GatewaySpeaks
<1>4. EventTypeOK'
  BY <1>1, <1>2, <1>3 DEF EventTypeOK
<1>5. QED
  BY <1>1, <1>2, <1>3, <1>4, HandlersStay

LEMMA ForwardEventKeeps == EventsInv /\ ForwardEvent => EventsInv'
<1> SUFFICES ASSUME EventsInv, ForwardEvent
             PROVE  EventsInv'
  OBVIOUS
<1>1. /\ UNCHANGED <<payment, payer, muddled, envelope>> /\ EventTypeOK
      /\ bus # <<>> /\ heard' = Append(heard, Head(bus)) /\ bus' = Tail(bus)
  BY DEF ForwardEvent, Emit, EventsInv
<1>2. /\ heard' \in Seq(Words \cup {"initiated"}) /\ bus' \in Seq(Words)
      /\ \A word : Said(word) => Said(word)'
      /\ CompletedSaid' => CompletedSaid
      /\ NothingElse => NothingElse'
  BY <1>1, WordForwarded
<1>3. EventTypeOK'
  BY <1>1, <1>2 DEF EventTypeOK
<1>4. QED
  BY <1>1, <1>2, <1>3, HandlersStay

LEMMA LoseEventsKeeps == EventsInv /\ LoseEvents => EventsInv'
<1> SUFFICES ASSUME EventsInv, LoseEvents
             PROVE  EventsInv'
  OBVIOUS
<1>1. UNCHANGED <<payer, heard, envelope>> /\ bus' = <<>> /\ EventTypeOK
  BY DEF LoseEvents, EventsInv
<1>2. /\ payment'.record = payment.record
      /\ payment' \in [record : Words \cup {"initiated"},
                       request : {"publish", "audit", "failed", "done", "gone"}]
  BY DEF EventsInv, EventTypeOK, LoseEvents
<1>3. /\ muddled' \in [lost : BOOLEAN, overlap : BOOLEAN, blind : BOOLEAN]
      /\ muddled'.overlap = muddled.overlap /\ muddled'.blind = muddled.blind
      /\ muddled'.lost
  BY <1>1, Muddles DEF LoseEvents
<1>4. EventTypeOK'
  BY <1>1, <1>2, <1>3 DEF EventTypeOK
<1>5. CompletedSaid' => CompletedSaid
  BY <1>1 DEF CompletedSaid
<1>6. NothingElse => NothingElse'
  BY <1>1 DEF NothingElse, LastWord
<1>7. QED
  BY <1>1, <1>2, <1>3, <1>4, <1>5, <1>6, HandlersStay

LEMMA ResendEnvelopeKeeps == EventsInv /\ ResendEnvelope => EventsInv'
<1> SUFFICES ASSUME EventsInv, ResendEnvelope
             PROVE  EventsInv'
  OBVIOUS
<1>1. UNCHANGED <<payment, payer, bus, heard, muddled>>
  BY DEF ResendEnvelope
<1>2. EventTypeOK'
  BY <1>1 DEF EventsInv, EventTypeOK
<1>3. envelope'.at \in EndedAt => envelope.at \in EndedAt
  BY DEF ResendEnvelope, EndedAt
<1>4. /\ \A word : Said(word) <=> Said(word)'
      /\ (CompletedSaid <=> CompletedSaid') /\ (NothingElse <=> NothingElse')
  BY <1>1, SpeechStays
<1>5. QED
  BY <1>1, <1>2, <1>3, <1>4, HandlersStay

-----------------------------------------------------------------------------
(* A handler, once it begins alone, and with the record loaded.            *)
LEMMA TakeEnvelopeKeeps ==
    ASSUME EventsInv, NEW w \in Payers, TakeEnvelope(w)
    PROVE  EventsInv'
<1>1. /\ UNCHANGED <<payment, bus, heard>> /\ EventTypeOK
      /\ payer[w].pc = "idle" /\ envelope'.at = "held"
  BY DEF TakeEnvelope, EventsInv, PayerAt
<1>2. /\ payer' \in [Payers -> [pc : PayerPc, linked : BOOLEAN]]
      /\ payer'[w].pc = "load"
      /\ \A v \in Payers \ {w} : payer'[v].pc = payer[v].pc
  BY <1>1, PayerMoves DEF TakeEnvelope, PayerPc
<1>3. PICK others \in BOOLEAN :
        others = (muddled.overlap \/ \E v \in Payers : payer[v].pc # "idle")
  OBVIOUS
<1>4. muddled' = [muddled EXCEPT !.overlap = others]
  <2>1. muddled' = [muddled EXCEPT !.overlap =
                      muddled.overlap \/ \E v \in Payers : payer[v].pc # "idle"]
    BY DEF TakeEnvelope, PayerAt
  <2>2. QED
    BY <1>3, <2>1
<1>5. /\ muddled' \in [lost : BOOLEAN, overlap : BOOLEAN, blind : BOOLEAN]
      /\ muddled'.overlap = others /\ muddled'.blind = muddled.blind
      /\ muddled'.lost = muddled.lost
  BY <1>1, <1>4 DEF EventTypeOK
<1>6. EventTypeOK'
  BY <1>1, <1>2, <1>5 DEF EventTypeOK
<1>7. CASE muddled'.overlap
  BY <1>6, <1>7 DEF EventsInv
<1>8. CASE ~muddled'.overlap
  <2> SUFFICES ASSUME ~muddled.blind
               PROVE  EventsInv'
    BY <1>5, <1>6 DEF EventsInv
  <2>1. ~muddled.overlap /\ \A v \in Payers : payer[v].pc = "idle"
    BY <1>3, <1>5, <1>8
  <2>2. OneAtWork' /\ EndedIsIdle'
    BY <1>1, <1>2, <2>1 DEF OneAtWork, EndedIsIdle
  <2>3. \A v \in Payers : payer'[v].pc \in {"idle", "load"}
    BY <1>2, <2>1
  <2>4. \A v \in Payers : PayerKnows(v)'
    BY <2>3 DEF PayerKnows
  <2>5. /\ \A word : Said(word) <=> Said(word)'
        /\ (CompletedSaid <=> CompletedSaid') /\ (NothingElse <=> NothingElse')
    BY <1>1, SpeechStays
  <2>6. CompletedIsLast'
    BY <1>1, <2>1, <2>3, <2>5 DEF EventsInv, CompletedIsLast
  <2>7. ~muddled'.lost => RecordIsSaid'
    BY <1>1, <1>5, <2>1, <2>5 DEF EventsInv, RecordIsSaid
  <2>8. QED
    BY <1>6, <2>2, <2>4, <2>6, <2>7 DEF EventsInv
<1>9. QED
  BY <1>7, <1>8

(* What holds of the speech while a handler is at work.                    *)
LEMMA HandlerAtWork ==
    ASSUME EventsInv, ~muddled.overlap, ~muddled.blind,
           NEW w \in Payers, payer[w].pc # "idle"
    PROVE  /\ envelope.at \notin EndedAt /\ CompletedIsLast /\ PayerKnows(w)
           /\ \A v \in Payers \ {w} : payer[v].pc = "idle"
           /\ payer[w].pc \notin {"load", "ack"} => ~CompletedSaid
           /\ ~muddled.lost /\ payment.record = "completed"
              /\ payer[w].pc \in {"load", "ack"} => Said("completed")
<1>1. /\ EndedIsIdle /\ OneAtWork /\ CompletedIsLast /\ PayerKnows(w)
      /\ ~muddled.lost => RecordIsSaid
  BY DEF EventsInv
<1>2. \A v \in Payers \ {w} : payer[v].pc = "idle"
  BY <1>1 DEF OneAtWork
<1>3. envelope.at \notin EndedAt
  BY <1>1 DEF EndedIsIdle, EndedAt
<1>4. payer[w].pc \notin {"load", "ack"} => ~CompletedSaid
  BY <1>1 DEF CompletedIsLast
<1>5. ~muddled.lost /\ payment.record = "completed"
      /\ payer[w].pc \in {"load", "ack"} => Said("completed")
  BY <1>1, <1>2 DEF RecordIsSaid
<1>6. QED
  BY <1>1, <1>2, <1>3, <1>4, <1>5

(* A step of a handler that says nothing, to pc and with the record as it  *)
(* leaves it.                                                              *)
LEMMA HandlerQuiet ==
    ASSUME EventsInv, EventTypeOK', NEW w \in Payers, NEW pc \in PayerPc,
           ~muddled.overlap, ~muddled.blind, payer[w].pc # "idle",
           payer'[w].pc = pc, pc # "idle", UNCHANGED <<envelope, bus, heard>>,
           \A v \in Payers \ {w} : payer'[v].pc = payer[v].pc,
           ~muddled'.lost => ~muddled.lost,
           CompletedSaid => payment'.record = "completed" /\ pc \in {"load", "ack"},
           pc \in {"load", "ack"} /\ payment'.record = "completed" =>
             payer[w].pc \in {"load", "ack"} /\ payment.record = "completed",
           pc \in {"mark", "tell processing", "pay", "complete"} =>
             payment'.record # "completed",
           pc \in {"settle", "tell completed", "ack"} => payment'.record = "completed",
           pc = "tell failed" => payment'.record = "failed",
           pc = "nack" => muddled'.lost
    PROVE  EventsInv'
<1>1. /\ envelope.at \notin EndedAt /\ CompletedIsLast
      /\ \A v \in Payers \ {w} : payer[v].pc = "idle"
      /\ ~muddled.lost /\ payment.record = "completed"
         /\ payer[w].pc \in {"load", "ack"} => Said("completed")
  BY HandlerAtWork
<1>2. /\ \A word : Said(word) <=> Said(word)'
      /\ (CompletedSaid <=> CompletedSaid') /\ (NothingElse <=> NothingElse')
  BY SpeechStays
<1>3. PayerKnows(w)'
  BY DEF PayerKnows
<1>4. CompletedIsLast'
  <2>1. CompletedSaid => \A v \in Payers : payer'[v].pc \in {"idle", "load", "ack"}
    BY <1>1
  <2>2. QED
    BY <1>1, <1>2, <2>1 DEF CompletedIsLast
<1>5. ~muddled'.lost /\ payment'.record = "completed"
      /\ payer'[w].pc \in {"idle", "load", "ack"} => Said("completed")'
  BY <1>1, <1>2
<1>6. QED
  BY <1>1, <1>3, <1>4, <1>5, HandlerSteps

LEMMA LoadPaymentKeeps ==
    ASSUME EventsInv, NEW w \in Payers, LoadPayment(w)
    PROVE  EventsInv'
<1>1. /\ payer[w].pc = "load" /\ UNCHANGED <<payment, envelope, bus, heard>>
      /\ EventTypeOK
  BY DEF LoadPayment, PayerAt, EventsInv
<1>2. CASE UNCHANGED muddled
  <2>1. PICK pc \in PayerPc :
          /\ PayerTo(w, pc)
          /\ \/ payment.record = "completed" /\ pc = "ack"
             \/ payment.record = "processing" /\ pc = "fail"
             \/ payment.record \notin {"completed", "processing"} /\ pc = "mark"
             \/ pc = "tell failed" /\ muddled'.blind
    <3>1. CASE EventFault /\ PayerTo(w, "tell failed") /\ Muddle("blind")
      BY <1>1, <3>1, Muddles DEF PayerPc
    <3>2. CASE PayerTo(w, CASE payment.record = "completed" -> "ack"
                            [] payment.record = "processing" -> "fail"
                            [] OTHER -> "mark")
      BY <3>2 DEF PayerPc
    <3>3. QED
      BY <3>1, <3>2 DEF LoadPayment
  <2>2. /\ payer' \in [Payers -> [pc : PayerPc, linked : BOOLEAN]]
        /\ payer'[w].pc = pc
        /\ \A v \in Payers \ {w} : payer'[v].pc = payer[v].pc
    BY <1>1, <2>1, PayerMoves
  <2>3. EventTypeOK'
    BY <1>1, <1>2, <2>2 DEF EventTypeOK
  <2> SUFFICES ASSUME ~muddled.overlap, ~muddled.blind
               PROVE  EventsInv'
    BY <1>2, <2>3 DEF EventsInv
  <2>4. CompletedSaid => payment.record = "completed"
    BY DEF EventsInv, CompletedIsLast
  <2>5. QED
    BY <1>1, <1>2, <2>1, <2>2, <2>3, <2>4, HandlerQuiet
<1>3. CASE PayerTo(w, "tell failed") /\ Muddle("blind")
  <2>1. /\ muddled' \in [lost : BOOLEAN, overlap : BOOLEAN, blind : BOOLEAN]
        /\ muddled'.blind
    BY <1>1, <1>3, Muddles
  <2>2. payer' \in [Payers -> [pc : PayerPc, linked : BOOLEAN]]
    BY <1>1, <1>3, PayerMoves DEF PayerPc
  <2>3. EventTypeOK'
    BY <1>1, <2>1, <2>2 DEF EventTypeOK
  <2>4. QED
    BY <2>1, <2>3 DEF EventsInv
<1>4. QED
  BY <1>2, <1>3 DEF LoadPayment

(* The records of a handler, and what else it does between its words.      *)
LEMMA HandlerRecords ==
    ASSUME EventsInv, NEW w \in Payers,
           NEW from \in {"mark", "pay", "complete", "settle", "fail"},
           NEW to \in PayerPc, payer[w].pc = from, PayerTo(w, to),
           UNCHANGED <<envelope, bus, heard>>,
           payment' \in [record : Words \cup {"initiated"},
                         request : {"publish", "audit", "failed", "done", "gone"}],
           muddled' \in [lost : BOOLEAN, overlap : BOOLEAN, blind : BOOLEAN],
           muddled'.overlap = muddled.overlap, muddled'.blind = muddled.blind,
           ~muddled'.lost => ~muddled.lost,
           to \in {"tell processing", "complete", "settle", "tell completed", "fail",
                   "tell failed", "nack"},
           PayerKnows(w) =>
             /\ to \in {"tell processing", "complete"} => payment'.record # "completed"
             /\ to \in {"settle", "tell completed"} => payment'.record = "completed"
             /\ to = "tell failed" => payment'.record = "failed",
           to = "nack" => muddled'.lost
    PROVE  EventsInv'
<1>1. EventTypeOK
  BY DEF EventsInv
<1>2. /\ payer' \in [Payers -> [pc : PayerPc, linked : BOOLEAN]]
      /\ payer'[w].pc = to
      /\ \A v \in Payers \ {w} : payer'[v].pc = payer[v].pc
  BY <1>1, PayerMoves
<1>3. EventTypeOK'
  BY <1>1, <1>2 DEF EventTypeOK
<1> SUFFICES ASSUME ~muddled.overlap, ~muddled.blind
             PROVE  EventsInv'
  BY <1>3 DEF EventsInv
<1>4. payer[w].pc # "idle" /\ payer[w].pc \notin {"load", "ack"}
  OBVIOUS
<1>5. ~CompletedSaid /\ PayerKnows(w)
  BY <1>4, HandlerAtWork
<1>6. to # "idle" /\ to \notin {"mark", "pay", "load", "ack"}
  OBVIOUS
<1>7. QED
  BY <1>2, <1>3, <1>4, <1>5, <1>6, HandlerQuiet

LEMMA HandlerRecordsKeep ==
    ASSUME EventsInv, NEW w \in Payers,
           \/ MarkAsProcessing(w) \/ Pay(w) \/ MarkAsCompleted(w)
           \/ Settle(w) \/ MarkAsFailed(w)
    PROVE  EventsInv'
<1>1. /\ payment \in [record : Words \cup {"initiated"},
                      request : {"publish", "audit", "failed", "done", "gone"}]
      /\ muddled \in [lost : BOOLEAN, overlap : BOOLEAN, blind : BOOLEAN]
      /\ EventTypeOK
  BY DEF EventsInv, EventTypeOK
<1>2. ASSUME NEW status \in Words, payment' = [payment EXCEPT !.record = status]
      PROVE  /\ payment'.record = status
             /\ payment' \in [record : Words \cup {"initiated"},
                              request : {"publish", "audit", "failed", "done", "gone"}]
  BY <1>1, <1>2
<1>3. {"processing", "completed", "failed"} = Words
      /\ {"tell processing", "complete", "settle", "tell completed", "fail",
          "tell failed", "nack"} \subseteq PayerPc
  BY DEF Words, PayerPc
<1>4. CASE MarkAsProcessing(w)
  <2>1. payer[w].pc = "mark" /\ UNCHANGED <<envelope, bus, heard, muddled>>
    BY <1>4 DEF MarkAsProcessing, PayerAt
  <2>2. CASE Record(w, "processing", "tell processing")
    <3>1. PayerTo(w, "tell processing") /\ payment' = [payment EXCEPT !.record = "processing"]
      BY <2>2 DEF Record
    <3>2. QED
      BY <1>1, <1>2, <1>3, <2>1, <3>1, HandlerRecords
  <2>3. CASE PayerTo(w, "fail") /\ UNCHANGED payment
    BY <1>1, <1>3, <2>1, <2>3, HandlerRecords
  <2>4. QED
    BY <1>4, <2>2, <2>3 DEF MarkAsProcessing
<1>5. CASE Pay(w)
  <2>1. /\ payer[w].pc = "pay" /\ UNCHANGED <<payment, envelope, bus, heard, muddled>>
        /\ PayerKnows(w) => payment.record # "completed"
    BY <1>5 DEF Pay, PayerAt, PayerKnows
  <2>2. PICK then \in {"complete", "fail"} : PayerTo(w, then)
    BY <1>5 DEF Pay
  <2>3. /\ payment' = payment /\ muddled' = muddled
        /\ UNCHANGED <<envelope, bus, heard>>
        /\ PayerKnows(w) => payment'.record # "completed"
    BY <2>1
  <2>4. CASE PayerTo(w, "complete")
    BY <1>1, <1>3, <2>1, <2>3, <2>4, HandlerRecords
  <2>5. CASE PayerTo(w, "fail")
    BY <1>1, <1>3, <2>1, <2>3, <2>5, HandlerRecords
  <2>6. QED
    BY <2>2, <2>4, <2>5
<1>6. CASE MarkAsCompleted(w)
  <2>1. payer[w].pc = "complete" /\ UNCHANGED <<envelope, bus, heard, muddled>>
    BY <1>6 DEF MarkAsCompleted, PayerAt
  <2>2. CASE Record(w, "completed", "settle")
    <3>1. PayerTo(w, "settle") /\ payment' = [payment EXCEPT !.record = "completed"]
      BY <2>2 DEF Record
    <3>2. QED
      BY <1>1, <1>2, <1>3, <2>1, <3>1, HandlerRecords
  <2>3. CASE PayerTo(w, "fail") /\ UNCHANGED payment
    BY <1>1, <1>3, <2>1, <2>3, HandlerRecords
  <2>4. QED
    BY <1>6, <2>2, <2>3 DEF MarkAsCompleted
<1>7. CASE Settle(w)
  <2>1. /\ payer[w].pc = "settle" /\ UNCHANGED <<payment, envelope, bus, heard, muddled>>
        /\ PayerKnows(w) => payment.record = "completed"
    BY <1>7 DEF Settle, PayerAt, PayerKnows
  <2>2. PICK then \in {"tell completed", "fail"} : PayerTo(w, then)
    BY <1>7 DEF Settle
  <2>3. /\ payment' = payment /\ muddled' = muddled
        /\ UNCHANGED <<envelope, bus, heard>>
        /\ PayerKnows(w) => payment'.record = "completed"
    BY <2>1
  <2>4. CASE PayerTo(w, "tell completed")
    BY <1>1, <1>3, <2>1, <2>3, <2>4, HandlerRecords
  <2>5. CASE PayerTo(w, "fail")
    BY <1>1, <1>3, <2>1, <2>3, <2>5, HandlerRecords
  <2>6. QED
    BY <2>2, <2>4, <2>5
<1>8. CASE MarkAsFailed(w)
  <2>1. payer[w].pc = "fail" /\ UNCHANGED <<envelope, bus, heard>>
    BY <1>8 DEF MarkAsFailed, PayerAt
  <2>2. CASE Record(w, "failed", "tell failed") /\ UNCHANGED muddled
    <3>1. PayerTo(w, "tell failed") /\ payment' = [payment EXCEPT !.record = "failed"]
      BY <2>2 DEF Record
    <3>2. QED
      BY <1>1, <1>2, <1>3, <2>1, <2>2, <3>1, HandlerRecords
  <2>3. CASE PayerTo(w, "nack") /\ Muddle("lost") /\ UNCHANGED payment
    <3>1. /\ muddled' \in [lost : BOOLEAN, overlap : BOOLEAN, blind : BOOLEAN]
          /\ muddled'.overlap = muddled.overlap /\ muddled'.blind = muddled.blind
          /\ muddled'.lost
      BY <1>1, <2>3, Muddles
    <3>2. QED
      BY <1>1, <1>3, <2>1, <2>3, <3>1, HandlerRecords
  <2>4. QED
    BY <1>8, <2>2, <2>3 DEF MarkAsFailed
<1>9. QED
  BY <1>4, <1>5, <1>6, <1>7, <1>8

(* A handler speaks: of the record, and of nothing after "completed".      *)
LEMMA TellsKeeps ==
    ASSUME EventsInv, NEW w \in Payers, NEW at \in PayerPc, NEW event \in Words,
           NEW then \in PayerPc, Tells(w, at, event, then),
           \/ at = "tell processing" /\ event = "processing" /\ then = "pay"
           \/ at = "tell completed" /\ event = "completed" /\ then = "ack"
           \/ at = "tell failed" /\ event = "failed" /\ then = "nack"
    PROVE  EventsInv'
<1>1. /\ payer[w].pc = at /\ UNCHANGED <<payment, envelope, heard>> /\ EventTypeOK
  BY DEF Tells, PayerAt, EventsInv
<1>2. /\ payer' \in [Payers -> [pc : PayerPc, linked : BOOLEAN]]
      /\ payer'[w].pc = then
      /\ \A v \in Payers \ {w} : payer'[v].pc = payer[v].pc
  BY <1>1, PayerMoves DEF Tells
<1>3. CASE EventFault /\ Muddle("lost") /\ UNCHANGED bus
  <2>1. /\ muddled' \in [lost : BOOLEAN, overlap : BOOLEAN, blind : BOOLEAN]
        /\ muddled'.overlap = muddled.overlap /\ muddled'.blind = muddled.blind
        /\ muddled'.lost
    BY <1>1, <1>3, Muddles
  <2>2. EventTypeOK'
    BY <1>1, <1>2, <1>3, <2>1 DEF EventTypeOK
  <2> SUFFICES ASSUME ~muddled.overlap, ~muddled.blind
               PROVE  EventsInv'
    BY <2>1, <2>2 DEF EventsInv
  <2>3. /\ envelope.at \notin EndedAt /\ CompletedIsLast /\ PayerKnows(w)
        /\ ~CompletedSaid /\ \A v \in Payers \ {w} : payer[v].pc = "idle"
    BY <1>1, HandlerAtWork
  <2>4. CompletedIsLast'
    BY <1>1, <1>3, <2>3, SpeechStays DEF CompletedIsLast
  <2>5. PayerKnows(w)'
    BY <1>1, <1>2, <2>1, <2>3 DEF PayerKnows
  <2>6. QED
    BY <1>1, <1>2, <2>1, <2>2, <2>3, <2>4, <2>5, HandlerSteps
<1>4. CASE /\ bus' \in {Append(bus, event), Append(Append(bus, event), event)}
           /\ UNCHANGED muddled
  <2>1. /\ bus' \in Seq(Words) /\ Said(event)'
        /\ CompletedSaid' => CompletedSaid \/ event = "completed"
        /\ ~CompletedSaid => NothingElse'
    BY <1>1, <1>4, WordPublished
  <2>2. EventTypeOK'
    BY <1>1, <1>2, <1>4, <2>1 DEF EventTypeOK
  <2> SUFFICES ASSUME ~muddled.overlap, ~muddled.blind
               PROVE  EventsInv'
    BY <1>4, <2>2 DEF EventsInv
  <2>3. /\ envelope.at \notin EndedAt /\ PayerKnows(w)
        /\ ~CompletedSaid /\ \A v \in Payers \ {w} : payer[v].pc = "idle"
    BY <1>1, HandlerAtWork
  <2>4. /\ at = "tell processing" => payment'.record # "completed"
        /\ at = "tell completed" => payment'.record = "completed"
        /\ at = "tell failed" => payment'.record = "failed"
    BY <1>1, <2>3 DEF PayerKnows
  <2>5. CompletedIsLast'
    <3>1. CompletedSaid' => event = "completed"
      BY <2>1, <2>3
    <3>2. event = "completed" =>
            /\ payment'.record = "completed"
            /\ \A v \in Payers : payer'[v].pc \in {"idle", "load", "ack"}
      BY <1>2, <2>3, <2>4
    <3>3. QED
      BY <2>1, <2>3, <3>1, <3>2 DEF CompletedIsLast
  <2>6. PayerKnows(w)'
    BY <1>2, <2>1, <2>4 DEF PayerKnows
  <2>7. payer'[w].pc \in {"idle", "load", "ack"} => Said("completed")'
    BY <1>2, <2>1
  <2>8. QED
    BY <1>1, <1>2, <1>4, <2>2, <2>3, <2>5, <2>6, <2>7, HandlerSteps
<1>5. QED
  BY <1>3, <1>4 DEF Tells

LEMMA AnswerEnvelopeKeeps ==
    ASSUME EventsInv, NEW w \in Payers, AnswerEnvelope(w)
    PROVE  EventsInv'
<1>1. /\ payer[w].pc \in {"ack", "nack"} /\ UNCHANGED <<payment, bus, heard, muddled>>
      /\ EventTypeOK /\ PayerTo(w, "idle")
  BY DEF AnswerEnvelope, EventsInv
<1>2. /\ payer' \in [Payers -> [pc : PayerPc, linked : BOOLEAN]]
      /\ payer'[w].pc = "idle"
      /\ \A v \in Payers \ {w} : payer'[v].pc = payer[v].pc
  BY <1>1, PayerMoves DEF PayerPc
<1>3. EventTypeOK'
  BY <1>1, <1>2 DEF EventTypeOK
<1> SUFFICES ASSUME ~muddled.overlap, ~muddled.blind
             PROVE  EventsInv'
  BY <1>1, <1>3 DEF EventsInv
<1>4. /\ CompletedIsLast /\ PayerKnows(w)
      /\ \A v \in Payers \ {w} : payer[v].pc = "idle"
      /\ ~muddled.lost /\ payment.record = "completed"
         /\ payer[w].pc \in {"load", "ack"} => Said("completed")
  BY <1>1, HandlerAtWork
<1>5. /\ \A word : Said(word) <=> Said(word)'
      /\ (CompletedSaid <=> CompletedSaid') /\ (NothingElse <=> NothingElse')
  BY <1>1, SpeechStays
<1>6. ~muddled.lost => Said(payment.record)
  BY <1>1, <1>4 DEF PayerKnows
<1>7. ~muddled'.lost => Said(payment.record)'
  <2>1. PICK word : word = payment.record
    OBVIOUS
  <2>2. payment'.record = word
    BY <1>1, <2>1
  <2>3. ~muddled'.lost => Said(word)'
    BY <1>1, <1>5, <1>6, <2>1
  <2>4. QED
    BY <2>2, <2>3 DEF Said
<1>8. payment'.record = "completed" /\ ~muddled'.lost => Said("completed")'
  BY <1>1, <1>5, <1>6
<1>9. CompletedIsLast'
  <2>1. \A v \in Payers : payer'[v].pc \in {"idle", "load", "ack"}
    BY <1>2, <1>4
  <2>2. QED
    BY <1>1, <1>4, <1>5, <2>1 DEF CompletedIsLast
<1>10. PayerKnows(w)'
  BY <1>2 DEF PayerKnows
<1>11. QED
  BY <1>1, <1>2, <1>3, <1>7, <1>8, <1>9, <1>10, HandlerSteps

LEMMA CrashPayerKeeps ==
    ASSUME EventsInv, NEW w \in Payers, CrashPayer(w)
    PROVE  EventsInv'
<1>1. /\ UNCHANGED <<payment, bus, heard>> /\ EventTypeOK
      /\ payer' = [payer EXCEPT ![w] = IdlePayer]
      /\ payer \in [Payers -> [pc : PayerPc, linked : BOOLEAN]]
  BY DEF CrashPayer, EventsInv, EventTypeOK
<1>2. IdlePayer \in [pc : PayerPc, linked : BOOLEAN] /\ IdlePayer.pc = "idle"
  BY DEF IdlePayer, PayerPc
<1>3. /\ payer' \in [Payers -> [pc : PayerPc, linked : BOOLEAN]]
      /\ payer'[w].pc = "idle"
      /\ \A v \in Payers \ {w} : payer'[v].pc = payer[v].pc
  BY <1>1, <1>2
<1>4. PICK late \in BOOLEAN :
        late = (/\ payment.record = "completed"
                /\ payer[w].pc \in {"settle", "tell completed", "fail"})
  OBVIOUS
<1>5. muddled \in [lost : BOOLEAN, overlap : BOOLEAN, blind : BOOLEAN]
  BY <1>1 DEF EventTypeOK
<1>6. PICK lost \in BOOLEAN : lost = (muddled.lost \/ late)
  OBVIOUS
<1>7. muddled' = [muddled EXCEPT !.lost = lost]
  BY <1>4, <1>6 DEF CrashPayer
<1>8. /\ muddled' \in [lost : BOOLEAN, overlap : BOOLEAN, blind : BOOLEAN]
      /\ muddled'.overlap = muddled.overlap /\ muddled'.blind = muddled.blind
      /\ muddled'.lost = lost
  BY <1>5, <1>7
<1>9. EventTypeOK'
  BY <1>1, <1>3, <1>8 DEF EventTypeOK
<1>10. envelope'.at \in EndedAt => envelope.at \in EndedAt
  <2>1. CASE envelope' = envelope
    BY <2>1
  <2>2. CASE envelope' = [envelope EXCEPT !.by = {},
                 !.at = IF envelope.at = "timer" THEN "dead" ELSE "queue"]
    <3>1. CASE envelope.at = "timer"
      BY <3>1 DEF EndedAt
    <3>2. CASE envelope.at # "timer"
      BY <2>2, <3>2 DEF EndedAt
    <3>3. QED
      BY <3>1, <3>2
  <2>3. QED
    BY <2>1, <2>2 DEF CrashPayer
<1>11. /\ \A word : Said(word) <=> Said(word)'
       /\ (CompletedSaid <=> CompletedSaid') /\ (NothingElse <=> NothingElse')
  BY <1>1, SpeechStays
<1>12. CASE payer[w].pc = "idle"
  <2>1. \A v \in Payers : payer'[v].pc = payer[v].pc
    BY <1>3, <1>12
  <2>2. ~muddled'.lost => ~muddled.lost
    BY <1>6, <1>8
  <2>3. QED
    BY <1>1, <1>8, <1>9, <1>10, <1>11, <2>1, <2>2, HandlersStay
<1>13. CASE payer[w].pc # "idle"
  <2> SUFFICES ASSUME ~muddled.overlap, ~muddled.blind
               PROVE  EventsInv'
    BY <1>8, <1>9 DEF EventsInv
  <2>1. /\ CompletedIsLast /\ PayerKnows(w) /\ envelope'.at \notin EndedAt
        /\ \A v \in Payers \ {w} : payer[v].pc = "idle"
        /\ ~muddled.lost /\ payment.record = "completed"
           /\ payer[w].pc \in {"load", "ack"} => Said("completed")
    BY <1>10, <1>13, HandlerAtWork
  <2>2. ~muddled'.lost => ~muddled.lost /\ ~late
    BY <1>6, <1>8
  <2>3. ASSUME ~muddled'.lost, payment.record = "completed"
        PROVE  Said("completed")
    <3>1. payer[w].pc \notin {"settle", "tell completed", "fail"}
      BY <1>4, <2>2, <2>3
    <3>2. payer[w].pc \notin {"mark", "tell processing", "pay", "complete",
                              "tell failed", "nack"}
      BY <2>1, <2>2, <2>3 DEF PayerKnows
    <3>3. payer[w].pc \in PayerPc
      BY <1>1
    <3>4. payer[w].pc \in {"load", "ack"}
      BY <1>13, <3>1, <3>2, <3>3 DEF PayerPc
    <3>5. QED
      BY <2>1, <2>2, <2>3, <3>4
  <2>4. CompletedIsLast'
    <3>1. \A v \in Payers : payer'[v].pc = "idle"
      BY <1>3, <2>1
    <3>2. QED
      BY <1>1, <1>11, <2>1, <3>1 DEF CompletedIsLast
  <2>5. PayerKnows(w)'
    BY <1>3 DEF PayerKnows
  <2>6. ~muddled'.lost /\ payment'.record = "completed" => Said("completed")'
    BY <1>1, <1>11, <2>3
  <2>7. QED
    BY <1>3, <1>9, <1>13, <2>1, <2>2, <2>4, <2>5, <2>6, HandlerSteps
<1>14. QED
  BY <1>12, <1>13

LEMMA LosePayerChannelKeeps ==
    ASSUME EventsInv, NEW w \in Payers, LosePayerChannel(w)
    PROVE  EventsInv'
<1>1. /\ UNCHANGED <<payment, bus, heard, muddled>> /\ EventTypeOK
      /\ payer \in [Payers -> [pc : PayerPc, linked : BOOLEAN]]
  BY DEF LosePayerChannel, EventsInv, EventTypeOK
<1>2. PICK new : new = [payer[w] EXCEPT !.linked = FALSE]
  OBVIOUS
<1>3. new \in [pc : PayerPc, linked : BOOLEAN] /\ new.pc = payer[w].pc
  BY <1>1, <1>2
<1>4. payer' = [payer EXCEPT ![w] = new]
  BY <1>2 DEF LosePayerChannel
<1>5. /\ payer' \in [Payers -> [pc : PayerPc, linked : BOOLEAN]]
      /\ \A v \in Payers : payer'[v].pc = payer[v].pc
  BY <1>1, <1>3, <1>4
<1>6. EventTypeOK'
  BY <1>1, <1>5 DEF EventTypeOK
<1>7. envelope'.at \in EndedAt => envelope.at \in EndedAt
  <2>1. CASE envelope.at = "timer"
    BY <2>1 DEF EndedAt
  <2>2. CASE envelope.at # "timer"
    BY <2>2 DEF LosePayerChannel, EndedAt
  <2>3. QED
    BY <2>1, <2>2
<1>8. /\ \A word : Said(word) <=> Said(word)'
      /\ (CompletedSaid <=> CompletedSaid') /\ (NothingElse <=> NothingElse')
  BY <1>1, SpeechStays
<1>9. QED
  BY <1>1, <1>5, <1>6, <1>7, <1>8, HandlersStay

LEMMA EventsStutter == EventsInv /\ UNCHANGED eventVars => EventsInv'
<1> SUFFICES ASSUME EventsInv, UNCHANGED eventVars
             PROVE  EventsInv'
  OBVIOUS
<1>1. UNCHANGED <<payment, payer, envelope, bus, heard, muddled>>
  BY DEF eventVars
<1>2. EventTypeOK'
  BY <1>1 DEF EventsInv, EventTypeOK
<1>3. /\ \A word : Said(word) <=> Said(word)'
      /\ (CompletedSaid <=> CompletedSaid') /\ (NothingElse <=> NothingElse')
  BY <1>1, SpeechStays
<1>4. QED
  BY <1>1, <1>2, <1>3, HandlersStay

(* Whatever crashes, is redelivered or retried, and but for two handlers   *)
(* at once (which a lost channel leads to) and a handler that could not    *)
(* load the record: once "completed" is heard of a payout no worker says   *)
(* anything else, and the record says so too; and at rest the last word of *)
(* the workers is the record, if nothing was lost.  (processMessage,       *)
(* _publishWsEvent, the bridge.)                                           *)
THEOREM EventsAreTrue == PayoutEventsSpec => []EventsTell
<1>1. EventsInv /\ [PayoutEventsNext]_eventVars => EventsInv'
  <2> SUFFICES ASSUME EventsInv, PayoutEventsNext
               PROVE  EventsInv'
    BY EventsStutter
  <2>1. ASSUME NEW w \in Payers, PublishWsEvent(w)
        PROVE  EventsInv'
    BY <2>1, TellsKeeps DEF PublishWsEvent, PayerPc, Words
  <2>2. ASSUME NEW w \in Payers, PayerStep(w)
        PROVE  EventsInv'
    BY <2>1, <2>2, TakeEnvelopeKeeps, LoadPaymentKeeps, HandlerRecordsKeep,
       AnswerEnvelopeKeeps DEF PayerStep
  <2>3. QED
    BY <2>2, PublishPaymentKeeps, EmitInitiatedKeeps, ForwardEventKeeps,
       LoseEventsKeeps, ResendEnvelopeKeeps, CrashPayerKeeps,
       LosePayerChannelKeeps DEF PayoutEventsNext
<1>2. QED
  BY <1>1, EventsInitial, EventsAreTold, PTL DEF PayoutEventsSpec

=============================================================================
