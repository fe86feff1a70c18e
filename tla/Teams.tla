-------------------------------- MODULE Teams --------------------------------
(***************************************************************************)
(* A project of an enterprise team: its members and their roles            *)
(* (src/database/project_store.py), its annotations                        *)
(* (src/storage/team_annotation_store.py), the requests that change them   *)
(* (src/api/routes/enterprise.py) and the chats that leave annotations     *)
(* behind (src/enterprise).                                                *)
(*                                                                         *)
(* A request looks at the roles first and writes afterwards, to the        *)
(* database of the projects and to the namespace of the annotations, which *)
(* share no transaction.  Between two of its calls the other instances of  *)
(* the service go on; the extraction of a chat runs when the answer has    *)
(* been streamed, with the permission the user had before.                 *)
(***************************************************************************)
EXTENDS Integers, FiniteSets

CONSTANTS
    Users, Owner,
    Annotations,  \* ids, each given once
    Requests,     \* requests under way at the same time
    Reactivates,  \* adding a member again makes it active: not in MongoDB
    None,
    MaxServed,    \* bound: requests
    MaxFaults     \* bound: calls that fail, instances that die

VARIABLES
    project,      \* "none", "live" or "deleted"
    members,      \* team_members: the role and whether it is active, or None
    count,        \* annotation_count of the project
    annotations,  \* the namespace: id -> author
    given,        \* history: ids given
    request,      \* the requests under way
    welcome,      \* history: users added last with success, not removed since
    drifted,      \* history: a call failed, or two requests met on one annotation
    served, faults

vars == <<project, members, count, annotations, given, request, welcome, drifted,
          served, faults>>

Roles == {"manager", "staff_engineer", "sde2", "intern"}
Level(role) == CASE role = "manager" -> 4 [] role = "staff_engineer" -> 3
                 [] role = "sde2" -> 2 [] role = "intern" -> 1

Idle == [kind |-> "idle", by |-> None, to |-> None, role |-> None, made |-> 0]

Init ==
    /\ project = "none"
    /\ members = [u \in Users |-> None]
    /\ count = 0
    /\ annotations = [a \in {} |-> None]
    /\ given = {}
    /\ request = [r \in Requests |-> Idle]
    /\ welcome = {}
    /\ drifted = FALSE
    /\ served = 0 /\ faults = 0

-----------------------------------------------------------------------------
(* What the requests look at.                                              *)

(* get_user_role_in_project *)
Role(u) == IF members[u] # None /\ members[u].active THEN members[u].role ELSE None
CanManage(u) == Role(u) = "manager"
CanAnnotate(u) == Role(u) \notin {None, "intern"}
IsCreator(u) == project = "live" /\ u = Owner
HasAccess(u) == IsCreator(u) \/ Role(u) # None

(* check_user_can_edit_team_member *)
CanEdit(u, t) ==
    /\ u # t /\ Role(t) # None
    /\ \/ Role(u) = "manager"
       \/ Role(u) = "staff_engineer" /\ Level(Role(t)) < Level(Role(u))

(* The author of an annotation and the managers may change it. *)
MayTouch(u, a) ==
    /\ HasAccess(u)
    /\ a \in DOMAIN annotations
    /\ annotations[a] = u \/ CanManage(u)

Serve(r, new) ==
    /\ request[r] = Idle
    /\ served < MaxServed /\ served' = served + 1
    /\ request' = [request EXCEPT ![r] = new]

(* A request passes its checks: to add, change or remove a member, ... *)
AskMember(r, u) ==
    /\ \E t \in Users :
         \/ /\ CanManage(u)
            /\ \E role \in Roles :
                 Serve(r, [Idle EXCEPT !.kind = "add", !.by = u, !.to = t, !.role = role])
         \/ /\ CanEdit(u, t)
            /\ \E role \in {x \in Roles : Level(x) < Level(Role(u))} :
                 Serve(r, [Idle EXCEPT !.kind = "change", !.by = u, !.to = t, !.role = role])
         \/ /\ CanManage(u) /\ t # u
            /\ Serve(r, [Idle EXCEPT !.kind = "remove", !.by = u, !.to = t])
    /\ UNCHANGED <<project, members, count, annotations, given, welcome, drifted, faults>>

(* ... to delete the project, ... *)
AskDelete(r, u) ==
    /\ IsCreator(u)
    /\ Serve(r, [Idle EXCEPT !.kind = "clear", !.by = u])
    /\ UNCHANGED <<project, members, count, annotations, given, welcome, drifted, faults>>

(* ... to annotate, ... *)
AskAnnotate(r, u) ==
    /\ project = "live" /\ CanAnnotate(u)
    /\ Serve(r, [Idle EXCEPT !.kind = "annotate", !.by = u])
    /\ UNCHANGED <<project, members, count, annotations, given, welcome, drifted, faults>>

(* ... to chat, which interns may, but then nothing is kept of it, ... *)
AskChat(r, u) ==
    /\ project = "live" /\ HasAccess(u) /\ CanAnnotate(u)
    /\ Serve(r, [Idle EXCEPT !.kind = "chat", !.by = u])
    /\ UNCHANGED <<project, members, count, annotations, given, welcome, drifted, faults>>

(* ... or to change or delete an annotation. *)
AskTouch(r, u) ==
    /\ \E a \in DOMAIN annotations, kind \in {"fetch", "erase"} :
         MayTouch(u, a) /\ Serve(r, [Idle EXCEPT !.kind = kind, !.by = u, !.to = a])
    /\ UNCHANGED <<project, members, count, annotations, given, welcome, drifted, faults>>

At(r, kind) == request[r].kind = kind
Done(r) == request' = [request EXCEPT ![r] = Idle]

-----------------------------------------------------------------------------
(* Members.                                                                *)

(* create_project, whose creator is added as a manager afterwards. *)
CreateProject(r) ==
    /\ project = "none"
    /\ project' = "live"
    /\ Serve(r, [Idle EXCEPT !.kind = "add", !.by = Owner, !.to = Owner, !.role = "manager"])
    /\ UNCHANGED <<members, count, annotations, given, welcome, drifted, faults>>

(* Mutant of Added: a row that exists gets its role only. *)
AddedRole(t, role) ==
    IF members[t] = None THEN [role |-> role, active |-> TRUE]
    ELSE [members[t] EXCEPT !.role = role]

(* add_team_member: in PostgreSQL and in memory a row that exists is       *)
(* written anew, in MongoDB it goes through update_team_member_role.       *)
Added(t, role) ==
    IF members[t] = None \/ Reactivates THEN [role |-> role, active |-> TRUE]
    ELSE [members[t] EXCEPT !.role = role]

AddMember(r) ==
    /\ At(r, "add")
    /\ members' = [members EXCEPT ![request[r].to] = Added(request[r].to, request[r].role)]
    /\ welcome' = welcome \cup {request[r].to}
    /\ Done(r)
    /\ UNCHANGED <<project, count, annotations, given, drifted, served, faults>>

(* update_team_member_role, whether the member is active or not. *)
ChangeRole(r) ==
    LET t == request[r].to IN
    /\ At(r, "change")
    /\ members' = IF members[t] = None THEN members
                  ELSE [members EXCEPT ![t].role = request[r].role]
    /\ Done(r)
    /\ UNCHANGED <<project, count, annotations, given, welcome, drifted, served, faults>>

(* remove_team_member *)
RemoveMember(r) ==
    LET t == request[r].to IN
    /\ At(r, "remove")
    /\ members' = IF members[t] = None THEN members
                  ELSE [members EXCEPT ![t].active = FALSE]
    /\ welcome' = welcome \ {t}
    /\ Done(r)
    /\ UNCHANGED <<project, count, annotations, given, drifted, served, faults>>

(* delete_project: the annotations are cleared, if that does not fail.     *)
ClearAnnotations(r) ==
    /\ At(r, "clear")
    /\ \/ annotations' = [a \in {} |-> None] /\ UNCHANGED faults
       \/ faults < MaxFaults /\ faults' = faults + 1 /\ UNCHANGED annotations
    /\ drifted' = TRUE
    /\ request' = [request EXCEPT ![r].kind = "delete"]
    /\ UNCHANGED <<project, members, count, given, welcome, served>>

(* Then the project and its members go, whoever deleted it in between. *)
DeleteProject(r) ==
    /\ At(r, "delete")
    /\ project' = "deleted"
    /\ members' = [u \in Users |-> None]
    /\ welcome' = {}
    /\ Done(r)
    /\ UNCHANGED <<count, annotations, given, drifted, served, faults>>

-----------------------------------------------------------------------------
(* Annotations.                                                            *)

(* An annotation with a new id. *)
Stored(r) ==
    \E a \in Annotations \ given :
        /\ given' = given \cup {a}
        /\ annotations' = [b \in DOMAIN annotations \cup {a} |->
                             IF b = a THEN request[r].by ELSE annotations[b]]
        /\ request' = [request EXCEPT ![r].made = @ + 1]
        /\ UNCHANGED <<project, members, count, welcome, drifted, served, faults>>

CreateAnnotation(r) == At(r, "annotate") /\ request[r].made = 0 /\ Stored(r)

(* extract_and_store: what the agent extracts of a chat, one by one. *)
ExtractAnnotation(r) == At(r, "chat") /\ Stored(r)

(* increment_annotation_count, once for all a chat stored. *)
CountAnnotations(r) ==
    /\ At(r, "annotate") \/ At(r, "chat")
    /\ request[r].made > 0
    /\ count' = IF project = "live" THEN count + request[r].made ELSE count
    /\ Done(r)
    /\ UNCHANGED <<project, members, annotations, given, welcome, drifted, served, faults>>

(* The stream or the extraction fails, or nothing is worth an annotation. *)
ChatLeavesNothing(r) ==
    /\ At(r, "chat") /\ request[r].made = 0
    /\ Done(r)
    /\ UNCHANGED <<project, members, count, annotations, given, welcome, drifted, served,
                   faults>>

(* update_annotation: the vector is fetched and, if it is there, ... *)
FetchAnnotation(r) ==
    /\ At(r, "fetch")
    /\ IF request[r].to \in DOMAIN annotations
       THEN request' = [request EXCEPT ![r].kind = "upsert",
                                       ![r].role = annotations[request[r].to]]
       ELSE Done(r)
    /\ UNCHANGED <<project, members, count, annotations, given, welcome, drifted, served,
                   faults>>

(* ... written back, whether it is still there or not. *)
UpsertAnnotation(r) ==
    LET a == request[r].to IN
    /\ At(r, "upsert")
    /\ annotations' = [b \in DOMAIN annotations \cup {a} |->
                         IF b = a THEN request[r].role ELSE annotations[b]]
    /\ drifted' = (drifted \/ a \notin DOMAIN annotations)
    /\ Done(r)
    /\ UNCHANGED <<project, members, count, given, welcome, served, faults>>

(* delete_annotation, which succeeds for an annotation that is gone. *)
EraseAnnotation(r) ==
    LET a == request[r].to IN
    /\ At(r, "erase")
    /\ annotations' = [b \in DOMAIN annotations \ {a} |-> annotations[b]]
    /\ drifted' = (drifted \/ a \notin DOMAIN annotations)
    /\ request' = [request EXCEPT ![r].kind = "uncount"]
    /\ UNCHANGED <<project, members, count, given, welcome, served, faults>>

UncountAnnotation(r) ==
    /\ At(r, "uncount")
    /\ count' = IF project = "live" THEN count - 1 ELSE count
    /\ Done(r)
    /\ UNCHANGED <<project, members, annotations, given, welcome, drifted, served, faults>>

(* A call fails or the instance dies: the rest of the request is lost. *)
Break(r) ==
    /\ request[r] # Idle
    /\ faults < MaxFaults /\ faults' = faults + 1
    /\ drifted' = (drifted \/ request[r].made > 0 \/ At(r, "uncount"))
    /\ Done(r)
    /\ UNCHANGED <<project, members, count, annotations, given, welcome, served>>

Step(r) ==
    \/ \E u \in Users :
         \/ AskMember(r, u) \/ AskDelete(r, u) \/ AskAnnotate(r, u)
         \/ AskChat(r, u) \/ AskTouch(r, u)
    \/ CreateProject(r) \/ AddMember(r) \/ ChangeRole(r) \/ RemoveMember(r)
    \/ ClearAnnotations(r) \/ DeleteProject(r)
    \/ CreateAnnotation(r) \/ ExtractAnnotation(r) \/ CountAnnotations(r) \/ ChatLeavesNothing(r)
    \/ FetchAnnotation(r) \/ UpsertAnnotation(r)
    \/ EraseAnnotation(r) \/ UncountAnnotation(r)
    \/ Break(r)

Next == \E r \in Requests : Step(r)

Spec == Init /\ [][Next]_vars

-----------------------------------------------------------------------------
(* Properties.                                                             *)

(* Who was added with success and not removed afterwards is a member, in   *)
(* whatever order the requests of several managers were served before.     *)
AddedIsMember ==
    project = "live" => \A u \in welcome : Role(u) # None

(* The count a project shows follows its annotations through creations,    *)
(* chats, updates and deletions, but for the requests that are between     *)
(* their two writes; it goes astray only by a write that was lost and by   *)
(* two requests that met on one annotation.                                *)
CountFollows ==
    /\ project = "live" /\ ~drifted
    /\ \A r \in Requests : request[r].made = 0 /\ ~At(r, "uncount")
    => count = Cardinality(DOMAIN annotations)
==============================================================================
