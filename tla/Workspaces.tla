----------------------------- MODULE Workspaces -----------------------------
(***************************************************************************)
(* A workspace: its document with the count of its members, the documents  *)
(* of the members, and the copy of the workspace in Redis.  A request is a *)
(* sequence of awaits; other requests run between any two of them.         *)
(***************************************************************************)
EXTENDS Integers, Sequences, FiniteSets

CONSTANTS
    Invitees,           \* the users other than the owner
    WorkspaceOwner,
    WorkspaceCalls,     \* the requests, numbered in the order they begin
    WorkspaceNames      \* the names a workspace has in turn, numbers from 1

ASSUME WorkspaceAssumption ==
    /\ WorkspaceOwner \notin Invitees /\ IsFiniteSet(Invitees)
    /\ WorkspaceCalls \subseteq Nat /\ IsFiniteSet(WorkspaceCalls)
    /\ 1 \in WorkspaceNames

VARIABLES
    workspace,          \* the document, and how far createWorkspace came
    memberOf,           \* memberOf[u]: the member document of u
    workspaceCache,     \* workspace:<id>: a copy, who stored it, or Uncached
    wsCall              \* wsCall[r]: a request

workspaceVars == <<workspace, memberOf, workspaceCache, wsCall>>

WorkspaceUsers == Invitees \cup {WorkspaceOwner}
Roles == {"owner", "admin", "member"}
Managers == {"owner", "admin"}
CreationSteps == <<"none", "workspace", "member", "general", "random">>

Copy == [name |-> workspace.name, isActive |-> workspace.isActive]
Uncached == [name |-> 0, isActive |-> FALSE, by |-> 0]
NoMember == [state |-> "none", role |-> "member"]
NoCall == [op |-> "none", pc |-> "idle", by |-> WorkspaceOwner,
           who |-> WorkspaceOwner, role |-> "member", seen |-> "none",
           copy |-> [name |-> 0, isActive |-> FALSE],
           changed |-> FALSE, overtaken |-> FALSE]

(* Before it is created, or used for a while: with members and former ones *)
(* and a count that is right.                                              *)
WorkspacesInit ==
    /\ \/ /\ workspace = [name |-> 1, isActive |-> TRUE, memberCount |-> 1, step |-> 1]
          /\ memberOf = [u \in WorkspaceUsers |-> NoMember]
       \/ \E states \in [Invitees -> {"none", "active", "inactive"}] :
            /\ workspace = [name |-> 1, isActive |-> TRUE, step |-> Len(CreationSteps),
                            memberCount |-> 1 + Cardinality({u \in Invitees :
                                                               states[u] = "active"})]
            /\ memberOf = [u \in WorkspaceUsers |->
                             IF u = WorkspaceOwner
                             THEN [state |-> "active", role |-> "owner"]
                             ELSE [state |-> states[u], role |-> "member"]]
    /\ workspaceCache = Uncached
    /\ wsCall = [r \in WorkspaceCalls |-> NoCall]

(* createWorkspace: the document, the owner's, #general, #random.  The     *)
(* process may stop between any two, and nothing takes the rest up.        *)
CreateWorkspace ==
    /\ workspace.step < Len(CreationSteps)
    /\ workspace' = [workspace EXCEPT !.step = @ + 1]
    /\ memberOf' = IF CreationSteps[workspace.step + 1] = "member"
                   THEN [memberOf EXCEPT ![WorkspaceOwner] =
                           [state |-> "active", role |-> "owner"]]
                   ELSE memberOf
    /\ UNCHANGED <<workspaceCache, wsCall>>

Active(u) == memberOf[u].state = "active"
Authorized(u, roles) == Active(u) /\ memberOf[u].role \in roles

Advance(r, pc) == wsCall' = [wsCall EXCEPT ![r].pc = pc]

(* A request begins with assertRole; those it refuses change nothing.      *)
BeginCall(r) ==
    /\ wsCall[r].pc = "idle"
    /\ \A s \in WorkspaceCalls : s < r => wsCall[s].pc # "idle"
    /\ \E by \in WorkspaceUsers, who \in Invitees, role \in Roles \ {"owner"} :
         \/ /\ Authorized(by, Managers)
            /\ \E op \in {"invite", "role", "remove"} :
                 /\ op = "remove" => role = "member"
                 /\ wsCall' = [wsCall EXCEPT ![r] =
                        [@ EXCEPT !.op = op, !.pc = "get", !.by = by,
                                  !.who = who, !.role = role]]
         \/ /\ Authorized(by, Managers)
            /\ wsCall' = [wsCall EXCEPT ![r] =
                    [@ EXCEPT !.op = "update", !.pc = "write", !.by = by]]
         \/ /\ Authorized(by, {"owner"})
            /\ wsCall' = [wsCall EXCEPT ![r] =
                    [@ EXCEPT !.op = "delete", !.pc = "write", !.by = by]]
         \/ /\ Authorized(by, Roles)
            /\ wsCall' = [wsCall EXCEPT ![r] =
                    [@ EXCEPT !.op = "view", !.pc = "get", !.by = by]]
    /\ UNCHANGED <<workspace, memberOf, workspaceCache>>

(* After getWorkspace.  Only the owner's id, which never changes, is used. *)
AfterGet(r) == IF wsCall[r].op = "view" THEN "done"
               ELSE IF wsCall[r].op = "invite" THEN "find" ELSE "write"

(* getWorkspace: the copy in Redis, or                                     *)
CacheHit(r) ==
    /\ wsCall[r].pc = "get" /\ workspaceCache # Uncached
    /\ Advance(r, AfterGet(r))
    /\ UNCHANGED <<workspace, memberOf, workspaceCache>>

(* on a miss the document, deleted or not,                                 *)
CacheMiss(r) ==
    /\ wsCall[r].pc = "get" /\ workspaceCache = Uncached
    /\ Advance(r, "read")
    /\ UNCHANGED <<workspace, memberOf, workspaceCache>>

ReadWorkspace(r) ==
    /\ wsCall[r].pc = "read"
    /\ wsCall' = [wsCall EXCEPT ![r] =
                    [@ EXCEPT !.pc = "fill", !.copy = Copy, !.overtaken = FALSE]]
    /\ UNCHANGED <<workspace, memberOf, workspaceCache>>

(* which is stored for five minutes, whatever was written since.           *)
FillCache(r) ==
    /\ wsCall[r].pc = "fill"
    /\ workspaceCache' = [name |-> wsCall[r].copy.name,
                          isActive |-> wsCall[r].copy.isActive, by |-> r]
    /\ Advance(r, AfterGet(r))
    /\ UNCHANGED <<workspace, memberOf>>

ExpireWorkspace ==
    /\ workspaceCache # Uncached
    /\ workspaceCache' = Uncached
    /\ UNCHANGED <<workspace, memberOf, wsCall>>

(* Fills under way hold a copy from before the write.                      *)
Overtake(calls) ==
    [s \in WorkspaceCalls |->
        IF calls[s].pc = "fill" THEN [calls[s] EXCEPT !.overtaken = TRUE] ELSE calls[s]]

(* updateWorkspace and deleteWorkspace: the document, then the copy.       *)
WriteWorkspace(r) ==
    /\ wsCall[r].pc = "write"
    /\ \/ /\ wsCall[r].op = "update" /\ workspace.name + 1 \in WorkspaceNames
          /\ workspace' = [workspace EXCEPT !.name = @ + 1]
       \/ /\ wsCall[r].op = "delete"
          /\ workspace' = [workspace EXCEPT !.isActive = FALSE]
    /\ wsCall' = Overtake([wsCall EXCEPT ![r].pc = "bust"])
    /\ UNCHANGED <<memberOf, workspaceCache>>

(* Mutant: the copy is left to expire.                                     *)
BustMutant(r) ==
    /\ wsCall[r].pc = "bust"
    /\ Advance(r, "done")
    /\ UNCHANGED <<workspace, memberOf, workspaceCache>>

Bust(r) ==
    /\ wsCall[r].pc = "bust"
    /\ workspaceCache' = Uncached
    /\ Advance(r, "done")
    /\ UNCHANGED <<workspace, memberOf>>

(* inviteMember: is the user a member, or was he one?                      *)
FindMember(r) ==
    /\ wsCall[r].pc = "find"
    /\ LET state == memberOf[wsCall[r].who].state IN
       wsCall' = [wsCall EXCEPT ![r] =
                    [@ EXCEPT !.seen = state,
                              !.pc = IF state = "active" THEN "refused" ELSE "write"]]
    /\ UNCHANGED <<workspace, memberOf, workspaceCache>>

Enter(r) ==
    LET c == wsCall[r] IN
    /\ memberOf' = [memberOf EXCEPT ![c.who] = [state |-> "active", role |-> c.role]]
    /\ wsCall' = [wsCall EXCEPT ![r] =
                    [@ EXCEPT !.pc = "count", !.changed = ~Active(c.who)]]

(* Mutant: no unique index on the workspace and the user.                  *)
WriteInvitationMutant(r) ==
    /\ wsCall[r].pc = "write" /\ wsCall[r].op = "invite"
    /\ Enter(r)
    /\ UNCHANGED <<workspace, workspaceCache>>

(* A member document of the user is unique: where another invitation has   *)
(* created one, create fails.  Bringing one back does not ask whether it   *)
(* is inactive still.                                                      *)
WriteInvitation(r) ==
    LET c == wsCall[r] IN
    /\ c.pc = "write" /\ c.op = "invite"
    /\ IF c.seen = "none" /\ memberOf[c.who].state # "none"
       THEN Advance(r, "refused") /\ UNCHANGED memberOf
       ELSE Enter(r)
    /\ UNCHANGED <<workspace, workspaceCache>>

ChangeRole(r) ==
    LET c == wsCall[r] IN
    /\ c.pc = "write" /\ c.op = "role"
    /\ memberOf' = IF Active(c.who) THEN [memberOf EXCEPT ![c.who].role = c.role]
                   ELSE memberOf
    /\ Advance(r, "done")
    /\ UNCHANGED <<workspace, workspaceCache>>

(* removeMember does not ask whether it found a member, or an active one.  *)
RemoveMember(r) ==
    LET c == wsCall[r] IN
    /\ c.pc = "write" /\ c.op = "remove"
    /\ memberOf' = IF memberOf[c.who].state = "none" THEN memberOf
                   ELSE [memberOf EXCEPT ![c.who].state = "inactive"]
    /\ wsCall' = [wsCall EXCEPT ![r] =
                    [@ EXCEPT !.pc = "count", !.changed = Active(c.who)]]
    /\ UNCHANGED <<workspace, workspaceCache>>

CountMember(r) ==
    /\ wsCall[r].pc = "count"
    /\ workspace' = [workspace EXCEPT !.memberCount =
                        IF wsCall[r].op = "invite" THEN @ + 1 ELSE @ - 1]
    /\ Advance(r, "done")
    /\ UNCHANGED <<memberOf, workspaceCache>>

(* The process stops, or the store fails, before the second of two writes. *)
CutCall(r) ==
    /\ wsCall[r].pc \in {"count", "bust"}
    /\ Advance(r, "cut")
    /\ UNCHANGED <<workspace, memberOf, workspaceCache>>

WorkspaceStep(r) ==
    \/ CacheHit(r) \/ CacheMiss(r) \/ ReadWorkspace(r) \/ FillCache(r)
    \/ WriteWorkspace(r) \/ Bust(r) \/ FindMember(r) \/ WriteInvitation(r)
    \/ ChangeRole(r) \/ RemoveMember(r) \/ CountMember(r) \/ CutCall(r)

WorkspacesNext ==
    \/ CreateWorkspace \/ ExpireWorkspace
    \/ \E r \in WorkspaceCalls : BeginCall(r) \/ WorkspaceStep(r)

WorkspacesSpec == WorkspacesInit /\ [][WorkspacesNext]_workspaceVars

-----------------------------------------------------------------------------
Calls(op, pcs) == {r \in WorkspaceCalls : wsCall[r].op = op /\ wsCall[r].pc \in pcs}

(* Calls that changed who is a member and are not counted.                 *)
Uncounted(op) ==
    Cardinality({r \in Calls(op, {"count", "cut"}) : wsCall[r].changed})

(* Invitations that brought back a member whom another had brought back,   *)
(* and removals that found nobody to remove.                               *)
BroughtBackTwice ==
    Cardinality({r \in Calls("invite", {"done"}) :
                    wsCall[r].seen = "inactive" /\ ~wsCall[r].changed})
RemovedNobody == Cardinality({r \in Calls("remove", {"done"}) : ~wsCall[r].changed})

(* memberCount, shown in place of the number of members, differs from it   *)
(* by the calls between their two writes or stopped there, by invitations  *)
(* at once of a former member, and by removals of somebody who is not a    *)
(* member, and by nothing else, whatever runs at once: two invitations of  *)
(* a new member count once.  (inviteMember and removeMember.)              *)
MemberCountExact ==
    workspace.step > 2 =>
        workspace.memberCount =
            Cardinality({u \in WorkspaceUsers : Active(u)})
            - Uncounted("invite") + Uncounted("remove")
            + BroughtBackTwice - RemovedNobody

(* The copy in Redis is older than the document only while a writer has    *)
(* not cleared it or stopped before it did, or because the call that       *)
(* stored it had read the document before a writer cleared the copy.       *)
WorkspaceCopyFresh ==
    workspaceCache # Uncached =>
        \/ workspaceCache.name = workspace.name
           /\ workspaceCache.isActive = workspace.isActive
        \/ Calls("update", {"bust", "cut"}) # {} \/ Calls("delete", {"bust", "cut"}) # {}
        \/ wsCall[workspaceCache.by].overtaken

(* What is counted of a workspace, and copied of it, is what it is.        *)
WorkspaceSound == MemberCountExact /\ WorkspaceCopyFresh
=============================================================================
