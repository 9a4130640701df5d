----------------------------- MODULE MCServices -----------------------------
(***************************************************************************)
(* An instance of what serves the requests of the web application: the     *)
(* workspaces with their channels, messages and conversations, the         *)
(* sessions, the sockets, the events of a payout on their way to them, the *)
(* lookups of public APIs, the agents.  They share no state here, so a     *)
(* behaviour plays a scene of one of them.                                 *)
(***************************************************************************)
EXTENDS Workspaces, Channels, Messages, DirectMessages, Sessions, Sockets,
        Lookups, Agents, PayoutEvents

VARIABLE scene      \* what this behaviour is about

servicesVars == <<scene, workspaceVars, channelVars, messageVars, dmVars,
                  sessionVars, socketVars, lookupVars, agentVars, eventVars>>

(* The lookups that share keys; those that do not, one by one.             *)
SharingFamilies == {{"GetExchangeRates", "ConvertCurrency"},
                    {"GetCryptoPrices", "ConvertToCrypto", "GetCoinCap"}}
MCFamilies == SharingFamilies \cup
              {{s} : s \in DOMAIN Service \ UNION SharingFamilies}

(* The operations that meet in a key of Redis or a field of the account.   *)
SessionScenes ==
    [reset   |-> {"login", "forgot", "otp", "change"},
     ending  |-> {"login", "logout", "change", "refresh"},
     profile |-> {"login", "logout", "view", "update", "resend", "email"}]

(* What another scene is about starts as it starts first: one state of it. *)
Idle(var, f) == scene # var => f

ServicesInit ==
    /\ scene \in {"workspace", "channel", "message", "dm", "socket", "lookup",
                  "conversation", "assessment", "event"} \cup DOMAIN SessionScenes
    /\ WorkspacesInit /\ ChannelsInit /\ MessagesInit /\ DmInit
    /\ SessionsInit /\ SocketsInit /\ LookupInit /\ AgentsInit
    /\ PayoutEventsInit
    /\ Idle("workspace", workspace.step = 1)
    /\ Idle("channel", channel.isDefault)
    /\ Idle("dm", conversations = <<>>)
    /\ Idle("lookup", family = {"ValidateIp"})
    /\ scene \notin {"reset", "ending"} => redis["otp"] = None
    /\ Idle("profile", account.isVerified)
    /\ scene \notin DOMAIN SessionScenes => redis["refresh"] = None

InWorkspace ==
    /\ scene = "workspace" /\ WorkspacesNext
    /\ UNCHANGED <<scene, channelVars, messageVars, dmVars,
                   sessionVars, socketVars, lookupVars, agentVars, eventVars>>
InChannel ==
    /\ scene = "channel" /\ ChannelsNext
    /\ UNCHANGED <<scene, workspaceVars, messageVars, dmVars,
                   sessionVars, socketVars, lookupVars, agentVars, eventVars>>
InMessage ==
    /\ scene = "message" /\ MessagesNext
    /\ UNCHANGED <<scene, workspaceVars, channelVars, dmVars,
                   sessionVars, socketVars, lookupVars, agentVars, eventVars>>
InDm ==
    /\ scene = "dm" /\ DmNext
    /\ UNCHANGED <<scene, workspaceVars, channelVars, messageVars,
                   sessionVars, socketVars, lookupVars, agentVars, eventVars>>
InSocket ==
    /\ scene = "socket" /\ SocketsNext
    /\ UNCHANGED <<scene, workspaceVars, channelVars, messageVars,
                   dmVars, sessionVars, lookupVars, agentVars, eventVars>>
InLookup ==
    /\ scene = "lookup" /\ LookupNext
    /\ UNCHANGED <<scene, workspaceVars, channelVars, messageVars,
                   dmVars, sessionVars, socketVars, agentVars, eventVars>>
InEvents ==
    /\ scene = "event" /\ PayoutEventsNext
    /\ UNCHANGED <<scene, workspaceVars, channelVars, messageVars, dmVars,
                   sessionVars, socketVars, lookupVars, agentVars>>
InConversation ==
    /\ scene = "conversation" /\ ConversationNext
    /\ UNCHANGED <<scene, workspaceVars, channelVars, messageVars,
                   dmVars, sessionVars, socketVars, lookupVars, eventVars>>
InAssessment ==
    /\ scene = "assessment" /\ AssessmentNext
    /\ UNCHANGED <<scene, workspaceVars, channelVars, messageVars,
                   dmVars, sessionVars, socketVars, lookupVars, eventVars>>

(* A request of the operations of the scene.                               *)
InSession ==
    /\ scene \in DOMAIN SessionScenes /\ SessionsNext
    /\ \A r \in AuthRequests : authReq'[r].op \in SessionScenes[scene] \cup {"none"}
    /\ UNCHANGED <<scene, workspaceVars, channelVars, messageVars,
                   dmVars, socketVars, lookupVars, agentVars, eventVars>>

ServicesNext ==
    \/ InWorkspace \/ InChannel \/ InMessage \/ InDm \/ InSession \/ InSocket
    \/ InLookup \/ InConversation \/ InAssessment \/ InEvents

ServicesSpec == ServicesInit /\ [][ServicesNext]_servicesVars
=============================================================================
