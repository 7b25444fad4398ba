------------------------------- MODULE Connect -------------------------------
(***************************************************************************)
(* Connecting a social account: from the link a user is sent to, through   *)
(* the handshake with the provider, to the stored connection with its      *)
(* tokens and the destinations it may publish to.                          *)
(*                                                                         *)
(*   apps/api/src/routes/connect.ts              authorize, complete,      *)
(*                                               callback, select          *)
(*   apps/api/src/routes/connect-sessions.ts     the hosted page           *)
(*   apps/api/src/services/connect.ts            begin and complete        *)
(*   packages/db/src/repositories/oauth-sessions.ts, connect-sessions.ts,  *)
(*   connections.ts                              the statements            *)
(*                                                                         *)
(* All handshakes are about one account of one provider: what races is two *)
(* of them for the same account.  A handshake is finished by the request   *)
(* that consumes its state, so the request is filed under the handshake.   *)
(* The transaction of saveConnection runs at READ COMMITTED: it is a read  *)
(* and a write, and others commit in between.                              *)
(***************************************************************************)
EXTENDS Naturals, FiniteSets

CONSTANTS
    Owner,       \* environments, each with one profile
    Link,        \* connect_sessions rows
    Handshake,   \* oauth_sessions rows that still matter
    Conn,        \* uuids for social_connections rows
    Page,        \* what the account can publish to, by its external id
    NoLink,      \* null
    NoConn,
    NoToken

ASSUME OwnerAssumption == Owner # {}
ASSUME ConnAssumption == Conn \subseteq Nat
ASSUME NullAssumption ==
    NoLink \notin Link /\ NoConn \notin Conn /\ NoToken \notin Handshake

VARIABLES
    link,      \* connect_sessions: owner, status and completed_at
    oauth,     \* oauth_sessions: owner, status, link, past expires_at
    job,       \* the request that finishes a handshake
    conn,      \* social_connections: owner, status, setup_completed_at,
               \* and whose grant its social_credentials come from
    dest,      \* social_destinations: what each connection knows of a page
    chosen     \* ghost: pages that were chosen, or were the only one offered

sessions == << link, oauth >>
stored == << conn, dest, chosen >>
vars == << sessions, job, stored >>

LinkStatus == { "none", "open", "lapsed" }
OAuthStatus == { "none", "pending", "consumed", "failed" }
ConnStatus == { "none", "live", "disconnected" }

(* removed_at is set and `selected' cleared by one statement, so a row of  *)
(* a removed page is never selected.                                       *)
DestStatus == { "unknown", "listed", "selected", "removed" }

Idle == [ at |-> "idle", owner |-> CHOOSE o \in Owner : TRUE, found |-> {},
          id |-> NoConn, known |-> {}, previous |-> NoConn, setup |-> FALSE ]

NoSession == [ owner |-> CHOOSE o \in Owner : TRUE, status |-> "none",
               link |-> NoLink, past |-> FALSE ]

Init ==
    /\ link = [ l \in Link |-> [ owner |-> CHOOSE o \in Owner : TRUE,
                                 status |-> "none", completed |-> FALSE ] ]
    /\ oauth = [ h \in Handshake |-> NoSession ]
    /\ job = [ h \in Handshake |-> Idle ]
    /\ conn = [ c \in Conn |-> [ owner |-> CHOOSE o \in Owner : TRUE,
                                 status |-> "none", setup |-> FALSE,
                                 token |-> NoToken ] ]
    /\ dest = [ c \in Conn |-> [ p \in Page |-> "unknown" ] ]
    /\ chosen = [ c \in Conn |-> {} ]

-----------------------------------------------------------------------------
(* Links and handshakes begin, and run out of time.                        *)

CreateLink(l, o) ==
    /\ link[l].status = "none"
    /\ link' = [ link EXCEPT ![l] = [ @ EXCEPT !.owner = o, !.status = "open" ] ]
    /\ UNCHANGED << oauth, job, stored >>

LapseLink(l) ==
    /\ link[l].status = "open"
    /\ link' = [ link EXCEPT ![l].status = "lapsed" ]
    /\ UNCHANGED << oauth, job, stored >>

(* A link can be redeemed until it expires; completed_at is not looked at. *)
Redeemable(l) == link[l].status = "open"

FinishLink(l) ==
    /\ Redeemable(l)
    /\ link' = [ link EXCEPT ![l].completed = TRUE ]
    /\ UNCHANGED << oauth, job, stored >>

Begin(h, o, l) ==
    /\ oauth[h].status = "none"
    /\ oauth' = [ oauth EXCEPT ![h] = [ @ EXCEPT
            !.owner = o, !.status = "pending", !.link = l ] ]
    /\ UNCHANGED << link, job, stored >>

Authorize(h, o) == Begin(h, o, NoLink)

AuthorizeHosted(h, l) ==
    /\ Redeemable(l)
    /\ Begin(h, link[l].owner, l)

(* Nothing calls expireStaleOAuthSessions: an expired row stays `pending'. *)
LapseHandshake(h) ==
    /\ oauth[h].status = "pending" /\ ~oauth[h].past
    /\ oauth' = [ oauth EXCEPT ![h].past = TRUE ]
    /\ UNCHANGED << link, job, stored >>

-----------------------------------------------------------------------------
(* The three ways to finish one.  Each consumes the state first and looks  *)
(* at whose it is afterwards, so the wrong key uses a handshake up.        *)

Consumable(h) == oauth[h].status = "pending" /\ ~oauth[h].past

Turned(h, s) == oauth' = [ oauth EXCEPT ![h].status = s ]

Start(h, o) ==
    /\ Turned(h, "consumed")
    /\ job' = [ job EXCEPT ![h] = [ @ EXCEPT !.at = "exchange", !.owner = o ] ]

Refuse(h, s) == Turned(h, s) /\ UNCHANGED job

(* The callback takes everything from the row.  A wrong provider, a user   *)
(* who declined and a profile that is gone fail the session.               *)
Callback(h) ==
    /\ Consumable(h)
    /\ Start(h, oauth[h].owner) \/ Refuse(h, "failed")
    /\ UNCHANGED << link, stored >>

Complete(h, o) ==
    /\ Consumable(h)
    /\ IF o = oauth[h].owner THEN Start(h, o) ELSE Refuse(h, "consumed")
    /\ UNCHANGED << link, stored >>

(* Mutant: the handshake may belong to any link.                           *)
CompleteHostedOfAny(h, l) ==
    /\ Redeemable(l)
    /\ Consumable(h)
    /\ Start(h, link[l].owner)
    /\ UNCHANGED << link, stored >>

CompleteHosted(h, l) ==
    /\ Redeemable(l)
    /\ Consumable(h)
    /\ IF oauth[h].link = l THEN Start(h, link[l].owner) ELSE Refuse(h, "consumed")
    /\ UNCHANGED << link, stored >>

-----------------------------------------------------------------------------
(* completeAuthorization.                                                  *)

Failed(h) ==
    /\ Turned(h, "failed")
    /\ job' = [ job EXCEPT ![h] = Idle ]

Moved(h, j) == job' = [ job EXCEPT ![h] = j ]

(* exchangeCallback and destinations.list, at the provider.                *)
Exchange(h) ==
    /\ job[h].at = "exchange"
    /\ \/ /\ \E found \in SUBSET Page :
                Moved(h, [ job[h] EXCEPT !.at = "plan", !.found = found ])
          /\ UNCHANGED oauth
       \/ Failed(h)
    /\ UNCHANGED << link, stored >>

LiveOf(o) == { c \in Conn : conn[c].status = "live" /\ conn[c].owner = o }

Known(c) == { p \in Page : dest[c][p] # "unknown" }

(* newUuidV7: a row's id no row has and no other request will insert.      *)
Fresh == { c \in Conn : conn[c].status = "none" /\ \A h \in Handshake : job[h].id # c }

Plan(h) ==
    LET live == LiveOf(job[h].owner)
    IN  /\ job[h].at = "plan"
        /\ \/ \E c \in live :
                Moved(h, [ job[h] EXCEPT !.at = "read", !.id = c, !.known = Known(c) ])
           \/ /\ live = {}
              /\ \E c \in Fresh :
                    /\ \A d \in Fresh : c <= d
                    /\ Moved(h, [ job[h] EXCEPT !.at = "read", !.id = c ])
        /\ UNCHANGED << sessions, stored >>

Reads(h, previous) ==
    Moved(h, [ job[h] EXCEPT !.at = "write", !.previous = previous,
                             !.setup = previous # NoConn /\ conn[previous].setup ])

(* Mutant: the row that is found is taken, whatever was planned.           *)
SaveReadsAny(h) ==
    LET live == LiveOf(job[h].owner)
    IN  /\ job[h].at = "read"
        /\ IF live = {} THEN Reads(h, NoConn) ELSE \E c \in live : Reads(h, c)
        /\ UNCHANGED << sessions, stored >>

(* The transaction reads again; another id than the planned one is an      *)
(* account that was connected in the meantime.                             *)
SaveReads(h) ==
    LET live == LiveOf(job[h].owner)
    IN  /\ job[h].at = "read"
        /\ \/ live = {} /\ Reads(h, NoConn) /\ UNCHANGED oauth
           \/ live = { job[h].id } /\ Reads(h, job[h].id) /\ UNCHANGED oauth
           \/ ~(live \subseteq { job[h].id }) /\ Failed(h)
        /\ UNCHANGED << link, stored >>

Inserts(j) == j.previous = NoConn

(* Mutant: the index over live rows is not there.                          *)
CollidesWithItself(j) ==
    \/ Inserts(j) /\ conn[j.id].status # "none"
    \/ \E p \in j.found \ j.known : dest[j.id][p] # "unknown"

(* The primary key of the row, its partial unique index over live rows,    *)
(* and the unique index over a connection's destinations.                  *)
Collides(j) ==
    \/ Inserts(j) /\ conn[j.id].status # "none"
    \/ Inserts(j) /\ LiveOf(j.owner) # {}
    \/ \E p \in j.found \ j.known : dest[j.id][p] # "unknown"

Only(j) == Cardinality(j.found) = 1

(* Mutant: the column's default, true, is left to apply.                   *)
AfterwardsByDefault(j, p, s) ==
    CASE p \in j.found /\ s = "unknown" -> "selected"
      [] p \in j.found /\ s = "removed" -> "listed"
      [] p \notin j.found /\ s # "unknown" -> "removed"
      [] OTHER -> s

(* What a save makes of a page that was s.                                 *)
Afterwards(j, p, s) ==
    CASE p \in j.found /\ s = "unknown" -> IF Only(j) THEN "selected" ELSE "listed"
      [] p \in j.found /\ s = "removed" -> "listed"
      [] p \notin j.found /\ s # "unknown" -> "removed"
      [] OTHER -> s

(* The UPDATE goes by the id alone, so it also reaches a row that was      *)
(* disconnected after the read.                                            *)
SaveWrites(h) ==
    LET j == job[h]
        c == j.id
    IN  /\ j.at = "write"
        /\ ~Collides(j)
        /\ conn' = [ conn EXCEPT ![c] =
             [ owner |-> j.owner,
               status |-> IF Inserts(j) THEN "live" ELSE @.status,
               setup |-> j.setup \/ Only(j),
               token |-> h ] ]
        /\ dest' = [ dest EXCEPT ![c] =
             [ p \in Page |-> Afterwards(j, p, dest[c][p]) ] ]
        /\ chosen' = [ chosen EXCEPT ![c] =
             (@ \cap j.found) \cup (IF Only(j) THEN j.found ELSE {}) ]
        /\ Moved(h, [ Idle EXCEPT !.at = "emit" ])
        /\ UNCHANGED sessions

SaveCollides(h) ==
    /\ job[h].at = "write"
    /\ Collides(job[h])
    /\ Failed(h)
    /\ UNCHANGED << link, stored >>

(* emitWebhookEvent runs after the commit and inside the try: when it      *)
(* throws, the session is failed and the connection stays.                 *)
Emit(h) ==
    /\ job[h].at = "emit"
    /\ \/ Moved(h, Idle) /\ UNCHANGED oauth
       \/ Failed(h)
    /\ UNCHANGED << link, stored >>

(* The isolate dies, or the verifier cannot be decrypted, which is outside *)
(* the try: the session stays `consumed'.                                  *)
Crash(h) ==
    /\ job[h].at # "idle"
    /\ Moved(h, Idle)
    /\ UNCHANGED << sessions, stored >>

(* Nobody looks at a finished session whose tokens are gone: its place is  *)
(* taken by a later handshake, so that any number of them can follow.      *)
Forget(h) ==
    /\ oauth[h].status \in { "consumed", "failed" } \/ oauth[h].past
    /\ job[h].at = "idle"
    /\ \A c \in Conn : conn[c].token # h
    /\ oauth' = [ oauth EXCEPT ![h] = NoSession ]
    /\ UNCHANGED << link, job, stored >>

-----------------------------------------------------------------------------
(* What a customer does with a connection.                                 *)

Disconnect(c) ==
    /\ conn[c].status = "live"
    /\ conn' = [ conn EXCEPT ![c].status = "disconnected", ![c].token = NoToken ]
    /\ UNCHANGED << sessions, job, dest, chosen >>

(* The ids that were asked for: some of this connection, some of others.   *)
(* The transaction commits before the route counts what it selected, so a  *)
(* request that is answered `not found' has taken effect.                  *)
Select(c, asked, foreign) ==
    /\ conn[c].status # "none"
    /\ asked \subseteq Known(c)
    /\ LET now == { p \in asked : dest[c][p] # "removed" }
       IN  /\ dest' = [ dest EXCEPT ![c] = [ p \in Page |->
                  CASE p \in now -> "selected"
                    [] p \notin now /\ dest[c][p] = "selected" -> "listed"
                    [] OTHER -> dest[c][p] ] ]
           /\ chosen' = [ chosen EXCEPT ![c] = now ]
    /\ conn' = [ conn EXCEPT ![c].setup = asked # {} \/ foreign ]
    /\ UNCHANGED << sessions, job >>

Next ==
    \/ \E l \in Link :
        \/ \E o \in Owner : CreateLink(l, o)
        \/ LapseLink(l)
        \/ FinishLink(l)
    \/ \E h \in Handshake :
        \/ \E o \in Owner : Authorize(h, o) \/ Complete(h, o)
        \/ \E l \in Link : AuthorizeHosted(h, l) \/ CompleteHosted(h, l)
        \/ LapseHandshake(h)
        \/ Callback(h)
        \/ Exchange(h)
        \/ Plan(h)
        \/ SaveReads(h)
        \/ SaveWrites(h)
        \/ SaveCollides(h)
        \/ Emit(h)
        \/ Crash(h)
        \/ Forget(h)
    \/ \E c \in Conn :
        \/ Disconnect(c)
        \/ \E asked \in SUBSET Page, foreign \in BOOLEAN : Select(c, asked, foreign)

Spec == Init /\ [][Next]_vars

-----------------------------------------------------------------------------
LinkType == [ owner : Owner, status : LinkStatus, completed : BOOLEAN ]

OAuthType == [ owner : Owner, status : OAuthStatus, link : Link \cup {NoLink},
               past : BOOLEAN ]

JobType == [ at : { "idle", "exchange", "plan", "read", "write", "emit" },
             owner : Owner, found : SUBSET Page, id : Conn \cup {NoConn},
             known : SUBSET Page, previous : Conn \cup {NoConn},
             setup : BOOLEAN ]

ConnType == [ owner : Owner, status : ConnStatus, setup : BOOLEAN,
              token : Handshake \cup {NoToken} ]

(* The types of the rows and of the requests at work on them; a request    *)
(* that saves has an id for its row, and one that updates means that row   *)
(* (planConnectionIds, and the comparison saveConnection makes with it).   *)
TypeOK ==
    /\ link \in [Link -> LinkType]
    /\ oauth \in [Handshake -> OAuthType]
    /\ job \in [Handshake -> JobType]
    /\ conn \in [Conn -> ConnType]
    /\ dest \in [Conn -> [Page -> DestStatus]]
    /\ chosen \in [Conn -> SUBSET Page]
    /\ \A h \in Handshake :
          /\ job[h].at \in { "read", "write" } => job[h].id \in Conn
          /\ job[h].previous \in { job[h].id, NoConn }

(* The tokens of a handshake are stored on a connection of the profile it  *)
(* was begun for, whichever key, link or browser finished it               *)
(* (connect.ts:137, connect-sessions.ts:313).                              *)
LandsWhereItStarted ==
    \A c \in Conn, h \in Handshake :
        conn[c].token = h => conn[c].owner = oauth[h].owner

(* However many handshakes for one account end at once, and whatever is    *)
(* disconnected meanwhile: a profile has one live connection to it, and a  *)
(* live connection has its tokens (connections.ts:547-552, and the comment *)
(* at schema/connections.ts:219).                                          *)
OneLiveConnection ==
    \A o \in Owner :
        /\ Cardinality(LiveOf(o)) <= 1
        /\ \A c \in LiveOf(o) : conn[c].token # NoToken

(* A page is published to only if the customer chose it, or it was the     *)
(* only one an authorization offered, and the provider has listed it ever  *)
(* since: neither a reconnect nor a page that comes back selects one       *)
(* (connections.ts:554-558).                                               *)
SelectedWasChosen ==
    \A c \in Conn : { p \in Page : dest[c][p] = "selected" } \subseteq chosen[c]
=============================================================================
