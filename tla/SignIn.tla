-------------------------------- MODULE SignIn --------------------------------
(***************************************************************************)
(* Sign-in with TinyFish and the Sprite it gives its user: signIn of       *)
(* auth/tinyfish/service.ts, ensure of sprites/provision.ts, the names of  *)
(* sprites/names.ts, and the row in user_sprites that the proxy reads.     *)
(* Several sign-ins may be under way at once, for one user or for two; a   *)
(* call may fail before or after it took effect, and the server may stop   *)
(* between any two.                                                        *)
(*                                                                         *)
(* External: the Sprites API, where a name is taken once and what a        *)
(* service's PUT leaves stays; the hash in a name, which never meets       *)
(* another's; and the query builder, whose update leaves alone what is     *)
(* undefined.  Left out: what verifies the credential, the profile and the *)
(* session that are stored before the Sprite is asked for, and the states  *)
(* of a Sprite, which wakes by itself.                                     *)
(***************************************************************************)
EXTENDS Naturals, SequencesExt

CONSTANTS
    SignIns,    \* sign-ins under way at a time
    Users,      \* TinyFish ids: sequences of "a", "A", "_" and "-"
    Products,   \* the products, in start order
    MaxFaults   \* bound: calls that fail and stops of the server

SpriteGateway == "tinybot-gateway"

ASSUME SignInAssumption ==
    /\ Users \subseteq Seq({"a", "A", "_", "-"}) \ {<<>>}
    /\ Products \in Seq(STRING) /\ SpriteGateway \notin ToSet(Products) /\ MaxFaults \in Nat

spriteServiceDefinitions == Append(Products, SpriteGateway)

-----------------------------------------------------------------------------
(* spriteNameFor.                                                          *)

Letter(c) == IF c = "A" THEN "a" ELSE IF c = "_" THEN "-" ELSE c
Squeezed(body, c) == IF c = "-" /\ (body = <<>> \/ Last(body) = "-") THEN body ELSE Append(body, c)
\* Lower case, runs of anything else one hyphen, and none at either end.
sanitizeBody(id) ==
    LET body == FoldLeft(Squeezed, <<>>, [i \in DOMAIN id |-> Letter(id[i])])
    IN  IF body # <<>> /\ Last(body) = "-" THEN Front(body) ELSE body

simpleUnderscoreId(id) == ToSet(id) \subseteq {"a", "_"}
\* The hash is the id itself; the form for long ids, the hash alone, is left out.
spriteNameFor(id) ==
    LET body == sanitizeBody(id)
    IN  IF simpleUnderscoreId(id) /\ body # <<>> THEN [body |-> body, hash |-> <<>>]
        ELSE [body |-> body, hash |-> id]

-----------------------------------------------------------------------------

VARIABLES
    sprites,    \* the Sprites that exist: whether bootstrapped, and their services
    spriteRow,  \* user_sprites: its status, and whether it has a url
    signing,    \* every sign-in: whose it is, where it is, and how many services it has put
    faults      \* calls that have failed and stops, so far

signInVars == <<sprites, spriteRow, signing, faults>>

Names == {spriteNameFor(u) : u \in Users}
NoSprite == [made |-> FALSE, booted |-> FALSE, services |-> {}]
NoSignIn == [user |-> <<>>, at |-> "idle", put |-> 0]

SignInInit ==
    /\ sprites = [n \in Names |-> NoSprite]
    /\ spriteRow = [u \in Users |-> [status |-> "none", url |-> FALSE]]
    /\ signing = [r \in SignIns |-> NoSignIn]
    /\ faults = 0

Mine(r) == spriteNameFor(signing[r].user)
Steps(r, at) == signing' = [signing EXCEPT ![r].at = at]
Proceeds(r, at) == Steps(r, at) /\ UNCHANGED faults
Ends(r) == signing' = [signing EXCEPT ![r] = NoSignIn]

\* A call threw, to ensure's catch.
Throws(r) == faults < MaxFaults /\ faults' = faults + 1 /\ Steps(r, "saveError")

\* The credential is good, and profile and session are stored.
SignsIn(r) ==
    /\ signing[r].at = "idle"
    /\ \E u \in Users : signing' = [signing EXCEPT ![r] = [user |-> u, at |-> "get", put |-> 0]]
    /\ UNCHANGED <<sprites, spriteRow, faults>>

\* Mutant: a Sprite is created without asking for the one there is.
createsAnother(r) == Proceeds(r, "create")
\* ensureSprite: the one there is, or a new one.
ensureSprite(r) == Proceeds(r, IF sprites[Mine(r)].made THEN "list" ELSE "create")

GetSprite(r) ==
    /\ signing[r].at = "get"
    /\ ensureSprite(r) \/ Throws(r)
    /\ UNCHANGED <<sprites, spriteRow>>

\* The name may have been taken since.
CreateSprite(r) ==
    /\ signing[r].at = "create"
    /\ \/ /\ ~sprites[Mine(r)].made /\ sprites' = [sprites EXCEPT ![Mine(r)].made = TRUE]
          /\ Proceeds(r, "list") \/ Throws(r)
       \/ sprites[Mine(r)].made /\ Proceeds(r, "saveError") /\ UNCHANGED sprites
       \/ Throws(r) /\ UNCHANGED sprites
    /\ UNCHANGED spriteRow

\* ensureServices: a Sprite that lists the gateway has everything.
ListServices(r) ==
    /\ signing[r].at = "list"
    /\ \/ Proceeds(r, IF SpriteGateway \in sprites[Mine(r)].services THEN "save" ELSE "exec")
       \/ Throws(r)
    /\ UNCHANGED <<sprites, spriteRow>>

Bootstrap(r) ==
    /\ signing[r].at = "exec"
    /\ \/ /\ sprites' = [sprites EXCEPT ![Mine(r)].booted = TRUE]
          /\ Proceeds(r, "put") \/ Throws(r)
       \/ Throws(r) /\ UNCHANGED sprites
    /\ UNCHANGED spriteRow

\* The next service; after the last, the assignment.
PutService(r) ==
    /\ signing[r].at = "put"
    /\ LET next == signing[r].put + 1
           put == [sprites EXCEPT ![Mine(r)].services = @ \cup {spriteServiceDefinitions[next]}]
           at == IF next = Len(spriteServiceDefinitions) THEN "save" ELSE "put"
       IN  \/ /\ sprites' = put
              /\ \/ signing' = [signing EXCEPT ![r].at = at, ![r].put = next] /\ UNCHANGED faults
                 \/ Throws(r)
           \/ Throws(r) /\ UNCHANGED sprites
    /\ UNCHANGED spriteRow

\* The upsert.  A failed assignment has no url, and what is undefined is not set.
Saves(r, status) ==
    spriteRow' = [spriteRow EXCEPT ![signing[r].user] =
        [status |-> status, url |-> @.url \/ status = "assigned"]]

Save(r) ==
    /\ signing[r].at = "save"
    /\ \/ Ends(r) /\ Saves(r, "assigned") /\ UNCHANGED faults
       \/ Throws(r) /\ (Saves(r, "assigned") \/ UNCHANGED spriteRow)
    /\ UNCHANGED sprites

\* The catch.  If its own save throws, so does the sign-in.
SaveError(r) ==
    /\ signing[r].at = "saveError"
    /\ \/ Saves(r, "error") /\ UNCHANGED faults
       \/ faults < MaxFaults /\ faults' = faults + 1 /\ (Saves(r, "error") \/ UNCHANGED spriteRow)
    /\ Ends(r)
    /\ UNCHANGED sprites

\* The server stops, and every sign-in with it.
ServerStops ==
    /\ \E r \in SignIns : signing[r].at # "idle"
    /\ faults < MaxFaults /\ faults' = faults + 1
    /\ signing' = [r \in SignIns |-> NoSignIn]
    /\ UNCHANGED <<sprites, spriteRow>>

Provisions(r) ==
    \/ GetSprite(r) \/ CreateSprite(r) \/ ListServices(r) \/ Bootstrap(r) \/ PutService(r)
    \/ Save(r) \/ SaveError(r)

SignInNext == ServerStops \/ \E r \in SignIns : SignsIn(r) \/ Provisions(r)

(* Types.                                                                  *)
SignInTypeOK ==
    /\ sprites \in [Names -> [made : BOOLEAN, booted : BOOLEAN,
                              services : SUBSET ToSet(spriteServiceDefinitions)]]
    /\ spriteRow \in [Users -> [status : {"none", "error", "assigned"}, url : BOOLEAN]]
    /\ signing \in [SignIns ->
          [user : Users \cup {<<>>}, put : 0 .. Len(spriteServiceDefinitions),
           at : {"idle", "get", "create", "list", "exec", "put", "save", "saveError"}]]
    /\ faults \in 0 .. MaxFaults

\* Requests to the Sprites API and to Postgres end.
SignInFairness == \A r \in SignIns : WF_signInVars(Provisions(r))
SignInSpec == SignInInit /\ [][SignInNext]_signInVars /\ SignInFairness

Served(u) ==
    LET sprite == sprites[spriteNameFor(u)]
    IN  sprite.booted /\ sprite.services = ToSet(spriteServiceDefinitions)

UrlsAreServed == \A u \in Users : spriteRow[u].url => Served(u)

(* A user whose row has a url is sent by the proxy to a Sprite that has    *)
(* its gateway and every product behind it, whatever failed on the way;    *)
(* and a user who goes on signing in is given one, however it was left     *)
(* half made (ensureSprite, ensureServices).                               *)
SpritesAreServed ==
    /\ []UrlsAreServed
    /\ \A u \in Users :
         []<>(\E r \in SignIns : signing[r].user = u) => <>[](spriteRow[u].status = "assigned")

(* No two users are given one Sprite (spriteNameFor: "so two users never   *)
(* share a name").                                                         *)
SpriteOfOnesOwn ==
    \A u, v \in Users :
        u # v /\ spriteRow[u].url /\ spriteRow[v].url
            => spriteNameFor(u) # spriteNameFor(v)
=============================================================================
