------------------------------- MODULE Sharing -------------------------------
(***************************************************************************)
(* Who may open a board: the roles of its workspace, its direct members,   *)
(* the invitations to both, and its share links (modules/boards and        *)
(* modules/workspaces).  A request reads the caller's role or access and   *)
(* then acts; requests of others come between the two.  Every table is in  *)
(* Postgres: a foreign key refuses rows of a deleted board, deleting it    *)
(* takes its rows along, and invitations have a unique index on the board  *)
(* or workspace, the address AND the status, so that an address has at     *)
(* most one invitation in each status.                                     *)
(***************************************************************************)
EXTENDS Integers, FiniteSets

CONSTANTS
  People, Owner,  \* users, each with one address, and who made the workspace
  Invites,        \* invitations that may be sent
  OfferedRoles,   \* roles that invitations to the workspace offer
  Calls,          \* requests under way at the same time
  MaxCalls,       \* bound on requests
  NoCall

ASSUME SharingConstants ==
  /\ Owner \in People
  /\ OfferedRoles \subseteq {"admin", "editor", "viewer"}
  /\ MaxCalls \in Nat

Permissions == {"view", "edit"}
Roles == {"owner", "admin", "editor", "viewer"}
Scopes == {"board", "workspace"}

VARIABLES
  boardThere,  \* the board has not been deleted
  seat,        \* workspace_members: role, and the number of the row
  member,      \* board_members: permission, and the number of the row
  invite,      \* board_invitations and workspace_invitations
  link,        \* the share links: enabled, and the token (0: null)
  lastLink,    \* link tokens generated
  favourites,  \* board_favorites
  call,        \* requests between their check and their statement
  asked,       \* requests so far
  uses         \* how often each invitation has let somebody in

sharingVars == <<boardThere, seat, member, invite, link, lastLink, favourites, call,
                 asked, uses>>

NoInvitation == [scope |-> "board", email |-> Owner, grant |-> "view",
                 status |-> "none", expired |-> FALSE]

(* Types of the state. *)
SharingTypeOK ==
  /\ boardThere \in BOOLEAN
  /\ seat \in [People -> [role : Roles \cup {"none"}, row : Nat]]
  /\ member \in [People -> [permission : Permissions \cup {"none"}, row : Nat]]
  /\ \A i \in Invites : /\ invite[i].scope \in Scopes /\ invite[i].email \in People
                        /\ invite[i].grant \in (IF invite[i].scope = "board"
                                                THEN Permissions ELSE OfferedRoles)
                        /\ invite[i].status \in {"none", "pending", "accepted",
                                                 "revoked", "declined", "gone"}
  /\ link \in [Permissions -> [enabled : BOOLEAN, token : 0..lastLink]]
  /\ favourites \subseteq People

(* createWorkspace and createBoard have run. *)
SharingInit ==
  /\ boardThere = TRUE
  /\ seat = [p \in People |-> IF p = Owner THEN [role |-> "owner", row |-> 1]
                                           ELSE [role |-> "none", row |-> 0]]
  /\ member = [p \in People |-> [permission |-> "none", row |-> 0]]
  /\ invite = [i \in Invites |-> NoInvitation]
  /\ link = [k \in Permissions |-> [enabled |-> FALSE, token |-> 0]]
  /\ lastLink = 0
  /\ favourites = {}
  /\ call = [c \in Calls |-> NoCall]
  /\ asked = 0
  /\ uses = [i \in Invites |-> 0]

-----------------------------------------------------------------------------
(* Access *)

workspaceRoleToBoardPermission(role) ==
  CASE role = "none" -> "none"
    [] role = "viewer" -> "view"
    [] OTHER -> "edit"

(* What a link token opens; the view link is looked at first. *)
getShareByToken(t) ==
  IF link["view"].enabled /\ link["view"].token = t THEN "view"
  ELSE IF link["edit"].enabled /\ link["edit"].token = t THEN "edit"
  ELSE "none"

(* The permission of p with link token t (0: without one): the link, then  *)
(* the direct membership, then the workspace role.                         *)
checkBoardAccess(p, t) ==
  IF ~boardThere THEN "none"
  ELSE IF getShareByToken(t) # "none" THEN getShareByToken(t)
  ELSE IF member[p].permission # "none" THEN member[p].permission
  ELSE workspaceRoleToBoardPermission(seat[p].role)

-----------------------------------------------------------------------------
(* Requests: one action for the routes of each file, up to the end of     *)
(* their check.  Rows are named by the numbers a list of members shows.    *)

Begin(c, op) ==
  /\ call[c] = NoCall /\ asked < MaxCalls
  /\ call' = [call EXCEPT ![c] = op]
  /\ asked' = asked + 1
  /\ UNCHANGED <<boardThere, seat, member, invite, link, lastLink, favourites, uses>>

(* getWorkspaceRoleForBoard finds no role when the board is gone. *)
RoleForBoard(p) == IF boardThere THEN seat[p].role ELSE "none"
canManageBoardAccess(role) == role \in {"owner", "admin"}

InvitationRequest(c, p) ==
  /\ canManageBoardAccess(RoleForBoard(p))
  /\ \E op \in [type : {"invite"}, scope : {"board"}, email : People, grant : Permissions]
              \cup [type : {"revoke"}, invite : Invites] :
       Begin(c, op)

MemberRequest(c, p) ==
  /\ canManageBoardAccess(RoleForBoard(p))
  /\ \E q \in People :
       \/ \E g \in Permissions, t \in {"upsert", "change"} :
            Begin(c, [type |-> t, who |-> q, grant |-> g, row |-> member[q].row])
       \/ Begin(c, [type |-> "remove", who |-> q, row |-> member[q].row])

LinkRequest(c, p) ==
  /\ canManageBoardAccess(RoleForBoard(p))
  /\ \E op \in [type : {"setLink"}, permission : Permissions, enabled : BOOLEAN]
              \cup [type : {"rotateLink"}, permission : Permissions] :
       Begin(c, op)

(* A manager may delete the board, whoever has access mark it as a         *)
(* favourite, and whoever has no role leave it.                            *)
BoardRequest(c, p) ==
  \E t \in {"deleteBoard", "favourite", "unfavourite", "leave"} :
    /\ CASE t = "deleteBoard" -> canManageBoardAccess(RoleForBoard(p))
         [] t = "leave" -> RoleForBoard(p) = "none"
         [] OTHER -> checkBoardAccess(p, 0) # "none"
    /\ Begin(c, [type |-> t, who |-> p])

WorkspaceRequest(c, p) ==
  /\ canManageBoardAccess(seat[p].role)
  /\ \E op \in [type : {"invite"}, scope : {"workspace"}, email : People,
                 grant : OfferedRoles]
              \cup {[type |-> "unseat", who |-> q, row |-> seat[q].row] : q \in People} :
       Begin(c, op)

Asks(c, type) == call[c] # NoCall /\ call[c].type = type
Reply(c) == call' = [call EXCEPT ![c] = NoCall] /\ UNCHANGED asked

-----------------------------------------------------------------------------
(* Invitations *)

SameKey(i, op) == invite[i].scope = op.scope /\ invite[i].email = op.email
PendingFor(op) == {i \in Invites : SameKey(i, op) /\ invite[i].status = "pending"}

(* The unique index lets invitation i take this status. *)
IndexAllows(i, status) ==
  ~\E j \in Invites \ {i} : SameKey(j, invite[i]) /\ invite[j].status = status

(* createBoardInvitation, createInvitation: a pending one is the answer,   *)
FindPending(c) ==
  /\ Asks(c, "invite")
  /\ IF PendingFor(call[c]) # {}
     THEN Reply(c)
     ELSE call' = [call EXCEPT ![c].type = "insert"] /\ UNCHANGED asked
  /\ UNCHANGED <<boardThere, seat, member, invite, link, lastLink, favourites, uses>>

(* otherwise one is inserted, *)
InsertInvitation(c, i) ==
  /\ Asks(c, "insert") /\ invite[i].status = "none"
  /\ PendingFor(call[c]) = {}
  /\ call[c].scope = "board" => boardThere
  /\ invite' = [invite EXCEPT ![i] = [scope |-> call[c].scope, email |-> call[c].email,
                                      grant |-> call[c].grant,
                                      status |-> "pending", expired |-> FALSE]]
  /\ Reply(c)
  /\ UNCHANGED <<boardThere, seat, member, link, lastLink, favourites, uses>>

(* unless the index (the pending one is the answer then) or the foreign    *)
(* key refuses it.                                                         *)
InsertRefused(c) ==
  /\ Asks(c, "insert")
  /\ PendingFor(call[c]) # {} \/ (call[c].scope = "board" /\ ~boardThere)
  /\ Reply(c)
  /\ UNCHANGED <<boardThere, seat, member, invite, link, lastLink, favourites, uses>>

(* Rows of p, new ones with the next number. *)
MemberRow(p, permission) ==
  [permission |-> permission,
   row |-> IF member[p].permission = "none" THEN member[p].row + 1 ELSE member[p].row]

SeatRow(p, role) ==
  [role |-> role, row |-> IF seat[p].role = "none" THEN seat[p].row + 1 ELSE seat[p].row]

(* Mutated form of acceptBoardInvitationByToken: the status is not asked. *)
AcceptAnyStatus(i) ==
  /\ invite[i].scope = "board" /\ invite[i].status \notin {"none", "gone"}
  /\ ~invite[i].expired
  /\ invite' = [invite EXCEPT ![i].status = "accepted"]
  /\ member' = [member EXCEPT ![invite[i].email] = MemberRow(invite[i].email, invite[i].grant)]
  /\ uses' = [uses EXCEPT ![i] = @ + 1]
  /\ UNCHANGED <<boardThere, seat, link, lastLink, favourites, call, asked>>

(* Its transaction, by the user with the address, is rolled back when the  *)
(* update finds no pending row or violates the index.                      *)
acceptBoardInvitationByToken(i) ==
  /\ invite[i].scope = "board" /\ invite[i].status = "pending" /\ ~invite[i].expired
  /\ IndexAllows(i, "accepted")
  /\ invite' = [invite EXCEPT ![i].status = "accepted"]
  /\ member' = [member EXCEPT ![invite[i].email] = MemberRow(invite[i].email, invite[i].grant)]
  /\ uses' = [uses EXCEPT ![i] = @ + 1]
  /\ UNCHANGED <<boardThere, seat, link, lastLink, favourites, call, asked>>

(* The same for a workspace, whose members keep the role they have. *)
acceptInvitation(i) ==
  /\ invite[i].scope = "workspace" /\ invite[i].status = "pending" /\ ~invite[i].expired
  /\ IndexAllows(i, "accepted")
  /\ invite' = [invite EXCEPT ![i].status = "accepted"]
  /\ seat' = IF seat[invite[i].email].role = "none"
             THEN [seat EXCEPT ![invite[i].email] = SeatRow(invite[i].email, invite[i].grant)]
             ELSE seat
  /\ uses' = [uses EXCEPT ![i] = @ + 1]
  /\ UNCHANGED <<boardThere, member, link, lastLink, favourites, call, asked>>

(* Declining does not look at the expiry. *)
declinePendingInvitationByToken(i) ==
  LET status == IF invite[i].scope = "board" THEN "revoked" ELSE "declined" IN
  /\ invite[i].status = "pending" /\ IndexAllows(i, status)
  /\ invite' = [invite EXCEPT ![i].status = status]
  /\ UNCHANGED <<boardThere, seat, member, link, lastLink, favourites, call, asked, uses>>

revokeBoardInvitation(c) ==
  LET i == call[c].invite IN
  /\ Asks(c, "revoke")
  /\ invite' = IF /\ invite[i].scope = "board" /\ invite[i].status = "pending"
                  /\ IndexAllows(i, "revoked")
               THEN [invite EXCEPT ![i].status = "revoked"] ELSE invite
  /\ Reply(c)
  /\ UNCHANGED <<boardThere, seat, member, link, lastLink, favourites, uses>>

(* expiresAt passes; the status stays as it is. *)
InvitationExpires(i) ==
  /\ invite[i].status = "pending" /\ ~invite[i].expired
  /\ invite' = [invite EXCEPT ![i].expired = TRUE]
  /\ UNCHANGED <<boardThere, seat, member, link, lastLink, favourites, call, asked, uses>>

-----------------------------------------------------------------------------
(* Members *)

upsertBoardMember(c) ==
  /\ Asks(c, "upsert")
  /\ member' = IF boardThere
               THEN [member EXCEPT ![call[c].who] = MemberRow(call[c].who, call[c].grant)]
               ELSE member
  /\ Reply(c)
  /\ UNCHANGED <<boardThere, seat, invite, link, lastLink, favourites, uses>>

(* The row the request names. *)
Aimed(c) == /\ member[call[c].who].permission # "none"
            /\ member[call[c].who].row = call[c].row

updateBoardMemberPermission(c) ==
  /\ Asks(c, "change")
  /\ member' = IF Aimed(c) THEN [member EXCEPT ![call[c].who].permission = call[c].grant]
               ELSE member
  /\ Reply(c)
  /\ UNCHANGED <<boardThere, seat, invite, link, lastLink, favourites, uses>>

deleteBoardMember(c) ==
  /\ Asks(c, "remove")
  /\ member' = IF Aimed(c) THEN [member EXCEPT ![call[c].who].permission = "none"]
               ELSE member
  /\ Reply(c)
  /\ UNCHANGED <<boardThere, seat, invite, link, lastLink, favourites, uses>>

leaveBoard(c) ==
  /\ Asks(c, "leave")
  /\ member' = [member EXCEPT ![call[c].who].permission = "none"]
  /\ Reply(c)
  /\ UNCHANGED <<boardThere, seat, invite, link, lastLink, favourites, uses>>

(* The role of a row never changes, so that it may be read with the delete. *)
deleteWorkspaceMember(c) ==
  LET p == call[c].who IN
  /\ Asks(c, "unseat")
  /\ seat' = IF seat[p].row = call[c].row /\ seat[p].role \notin {"none", "owner"}
             THEN [seat EXCEPT ![p].role = "none"] ELSE seat
  /\ Reply(c)
  /\ UNCHANGED <<boardThere, member, invite, link, lastLink, favourites, uses>>

(* The second check of setBoardFavorite and its statement. *)
setBoardFavorite(c) ==
  /\ Asks(c, "favourite") \/ Asks(c, "unfavourite")
  /\ favourites' = IF checkBoardAccess(call[c].who, 0) = "none" THEN favourites
                   ELSE IF Asks(c, "favourite") THEN favourites \cup {call[c].who}
                   ELSE favourites \ {call[c].who}
  /\ Reply(c)
  /\ UNCHANGED <<boardThere, seat, member, invite, link, lastLink, uses>>

-----------------------------------------------------------------------------
(* Links *)

(* Mutated form of setBoardLinkShare: the token there is stays. *)
SetLinkKeepingToken(c) ==
  LET k == call[c].permission IN
  /\ Asks(c, "setLink")
  /\ link' = IF ~boardThere THEN link
             ELSE [link EXCEPT ![k] = [enabled |-> call[c].enabled,
                                       token |-> IF @.token = 0 THEN lastLink + 1
                                                 ELSE @.token]]
  /\ lastLink' = lastLink + 1
  /\ Reply(c)
  /\ UNCHANGED <<boardThere, seat, member, invite, favourites, uses>>

setBoardLinkShare(c) ==
  LET k == call[c].permission IN
  /\ Asks(c, "setLink")
  /\ link' = IF ~boardThere THEN link
             ELSE [link EXCEPT ![k] = [enabled |-> call[c].enabled,
                                       token |-> IF call[c].enabled
                                                 THEN lastLink + 1 ELSE 0]]
  /\ lastLink' = lastLink + 1
  /\ Reply(c)
  /\ UNCHANGED <<boardThere, seat, member, invite, favourites, uses>>

(* A link that is not enabled gets a token as well. *)
rotateBoardLinkShareToken(c) ==
  /\ Asks(c, "rotateLink")
  /\ link' = IF ~boardThere THEN link
             ELSE [link EXCEPT ![call[c].permission].token = lastLink + 1]
  /\ lastLink' = lastLink + 1
  /\ Reply(c)
  /\ UNCHANGED <<boardThere, seat, member, invite, favourites, uses>>

deleteBoard(c) ==
  /\ Asks(c, "deleteBoard")
  /\ boardThere' = FALSE
  /\ member' = [p \in People |-> [member[p] EXCEPT !.permission = "none"]]
  /\ invite' = [i \in Invites |->
                 IF invite[i].scope = "board" /\ invite[i].status # "none"
                 THEN [invite[i] EXCEPT !.status = "gone"] ELSE invite[i]]
  /\ link' = [k \in Permissions |-> [enabled |-> FALSE, token |-> 0]]
  /\ favourites' = {}
  /\ Reply(c)
  /\ UNCHANGED <<seat, lastLink, uses>>

-----------------------------------------------------------------------------
Acts(c) ==
  \/ FindPending(c) \/ InsertRefused(c) \/ revokeBoardInvitation(c)
  \/ \E i \in Invites : InsertInvitation(c, i)
  \/ upsertBoardMember(c) \/ updateBoardMemberPermission(c) \/ deleteBoardMember(c)
  \/ leaveBoard(c) \/ deleteWorkspaceMember(c) \/ setBoardFavorite(c)
  \/ setBoardLinkShare(c) \/ rotateBoardLinkShareToken(c) \/ deleteBoard(c)

SharingNext ==
  \/ \E c \in Calls : Acts(c)
  \/ \E c \in Calls, p \in People :
       \/ InvitationRequest(c, p) \/ MemberRequest(c, p) \/ LinkRequest(c, p)
       \/ BoardRequest(c, p) \/ WorkspaceRequest(c, p)
  \/ \E i \in Invites :
       \/ acceptBoardInvitationByToken(i) \/ acceptInvitation(i)
       \/ declinePendingInvitationByToken(i) \/ InvitationExpires(i)

SharingSpec == SharingInit /\ [][SharingNext]_sharingVars

-----------------------------------------------------------------------------
(* Properties. *)

(* An invitation lets somebody in at most once, whatever comes between its *)
(* being sent and its being accepted, and never when it was revoked,       *)
(* declined or deleted before.                                             *)
InvitationsGrantOnce ==
  \A i \in Invites : /\ uses[i] <= 1
                     /\ invite[i].status \in {"none", "pending", "revoked", "declined"}
                          => uses[i] = 0

(* An address never has two pending invitations to the same board or       *)
(* workspace, although requests look for one before they insert.           *)
OnePendingEach ==
  \A i, j \in Invites :
    /\ invite[i].status = "pending" /\ invite[j].status = "pending"
    /\ SameKey(i, invite[j])
    => i = j

(* The workspace never loses its owner: not by a removal, and not when the *)
(* owner accepts an invitation to a lesser role.                           *)
OwnerStays == seat[Owner].role = "owner"

(* A request that was let through before the board was deleted leaves      *)
(* nothing that names the deleted board.                                   *)
DeletedLeavesNothing ==
  ~boardThere =>
    /\ \A p \in People : member[p].permission = "none"
    /\ \A i \in Invites : invite[i].scope = "workspace"
                            \/ invite[i].status \in {"none", "gone"}
    /\ favourites = {}

(* The tables stay consistent under requests that interleave: between what *)
(* a request reads and what it writes another one may invite, accept,      *)
(* remove or delete.                                                       *)
TablesConsistent ==
  InvitationsGrantOnce /\ OnePendingEach /\ OwnerStays /\ DeletedLeavesNothing

(* A link token never opens more than it did when it was given out: one    *)
(* that was replaced or switched off stays dead, and one made while its    *)
(* link was off does not come alive when the link is switched on.          *)
LinkNeverRises ==
  [][\A t \in 1..lastLink :
       getShareByToken(t)' \in {"none", getShareByToken(t)}]_sharingVars

=============================================================================
