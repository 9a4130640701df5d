------------------------------ MODULE Sockets -------------------------------
(***************************************************************************)
(* The Socket.IO server of the gateway: its sockets, the rooms an event to *)
(* a user is sent to, and the map of the users' sockets kept beside them.  *)
(* A token is verified between two turns of the event loop; the socket may *)
(* have closed, or have asked again, before the next.  Of the rooms, these *)
(* are the users' ("user:<id>"); a room has the name of its user here.     *)
(***************************************************************************)
EXTENDS Integers, FiniteSets

CONSTANTS
    SocketIds,          \* the sockets, each connected once
    SocketUsers,        \* the users whose tokens they bring
    AuthCalls,          \* the authentications, numbered in their order
    NoUser

ASSUME SocketAssumption ==
    /\ NoUser \notin SocketUsers
    /\ AuthCalls \subseteq Nat /\ IsFiniteSet(AuthCalls)

VARIABLES
    socket,             \* socket[s]: open or not, its user, its rooms and,
                        \* as history, those it subscribed to
    clients,            \* clients[u]: the sockets in the entry of u
    authCall            \* authCall[a]: an authenticate event under way

socketVars == <<socket, clients, authCall>>

Open == {s \in SocketIds : socket[s].state = "open"}

SocketsInit ==
    /\ socket = [s \in SocketIds |-> [state |-> "new", user |-> NoUser,
                                    rooms |-> {}, subscribed |-> {}]]
    /\ clients = [u \in {} |-> {}]
    /\ authCall = [a \in AuthCalls |-> [pc |-> "idle", s |-> CHOOSE s \in SocketIds : TRUE,
                                        user |-> NoUser, late |-> FALSE]]

Connect(s) ==
    /\ socket[s].state = "new"
    /\ socket' = [socket EXCEPT ![s].state = "open"]
    /\ UNCHANGED <<clients, authCall>>

(* An authenticate event with a token of u: verification begins.           *)
Authenticate(a, s, u) ==
    /\ authCall[a].pc = "idle" /\ s \in Open
    /\ \A b \in AuthCalls : b < a => authCall[b].pc # "idle"
    /\ authCall' = [authCall EXCEPT ![a] =
                      [@ EXCEPT !.pc = "verifying", !.s = s, !.user = u]]
    /\ UNCHANGED <<socket, clients>>

AuthRefused(a) ==
    /\ authCall[a].pc = "verifying"
    /\ authCall' = [authCall EXCEPT ![a].pc = "refused"]
    /\ UNCHANGED <<socket, clients>>

Entry(u) == IF u \in DOMAIN clients THEN clients[u] ELSE {}
SetEntry(u, sockets) ==
    clients' = [v \in DOMAIN clients \cup {u} |-> IF v = u THEN sockets ELSE clients[v]]

(* Verified: the user is set, his room joined, the socket entered; whether *)
(* it is open still is not asked, nor who it was before.                   *)
AuthVerified(a) ==
    LET c == authCall[a] IN
    /\ c.pc = "verifying"
    /\ socket' = [socket EXCEPT ![c.s] =
          [@ EXCEPT !.user = c.user, !.rooms = socket[c.s].rooms \cup {c.user}]]
    /\ SetEntry(c.user, Entry(c.user) \cup {c.s})
    /\ authCall' = [authCall EXCEPT ![a] =
          [@ EXCEPT !.pc = "verified",
                    !.late = c.s \notin Open \/ socket[c.s].user \notin {NoUser, c.user}]]

(* A subscribe event: the rooms it names are joined, by a socket that has  *)
(* brought a token or has not.                                             *)
Subscribe(s) ==
    /\ s \in Open
    /\ \E channels \in SUBSET SocketUsers :
         socket' = [socket EXCEPT ![s] =
            [@ EXCEPT !.rooms = socket[s].rooms \cup channels,
                      !.subscribed = socket[s].subscribed \cup channels]]
    /\ UNCHANGED <<clients, authCall>>

(* Mutant: the entry of the user goes with the first of his sockets.       *)
LeaveMutant(s) ==
    clients' = [v \in DOMAIN clients \ {socket[s].user} |-> clients[v]]

(* The socket leaves the entry of the user it was last; an empty one goes. *)
Leave(s) ==
    LET u == socket[s].user
        left == Entry(u) \ {s}
    IN
    IF u \notin DOMAIN clients THEN UNCHANGED clients
    ELSE IF left = {} THEN clients' = [v \in DOMAIN clients \ {u} |-> clients[v]]
    ELSE SetEntry(u, left)

(* A tab is closed, the network lost, the server closed: Socket.IO empties *)
(* the rooms of the socket.                                                *)
Disconnect(s) ==
    /\ s \in Open
    /\ Leave(s)
    /\ socket' = [socket EXCEPT ![s] =
          [@ EXCEPT !.state = "closed", !.rooms = {}, !.subscribed = {}]]
    /\ UNCHANGED authCall

SocketsNext ==
    \/ \E s \in SocketIds :
         \/ Connect(s) \/ Subscribe(s) \/ Disconnect(s)
         \/ \E a \in AuthCalls, u \in SocketUsers : Authenticate(a, s, u)
    \/ \E a \in AuthCalls : AuthRefused(a) \/ AuthVerified(a)

SocketsSpec == SocketsInit /\ [][SocketsNext]_socketVars

-----------------------------------------------------------------------------
(* The sockets whose authentication came after their end, or after one as  *)
(* another user.                                                           *)
Strays == {authCall[a].s : a \in {b \in AuthCalls : authCall[b].late}}

(* Who the map says is connected is: its entries hold every open socket of *)
(* their user and no closed one, but for sockets that closed, or were      *)
(* another user's, when an authentication of theirs ended.  Such a socket  *)
(* hears what is sent to the user.  Another hears it only if it subscribed *)
(* to his room: the code keeps nobody from it, against the comment at      *)
(* websocket.js:60, but no other way leads there.  (_handleAuth,           *)
(* _handleSubscribe, _handleDisconnect, emitToUser.)                       *)
SocketsLive ==
    /\ \A s \in Open, u \in SocketUsers :
         /\ s \in Entry(u) => u \in socket[s].rooms
         /\ u \in socket[s].rooms \ socket[s].subscribed => s \in Entry(u)
         /\ s \notin Strays => (s \in Entry(u) <=> socket[s].user = u)
    /\ \A u \in DOMAIN clients : clients[u] # {} /\ clients[u] \subseteq Open \cup Strays
    /\ \A s \in Open : socket[s].user # NoUser => s \in Entry(socket[s].user)
=============================================================================
