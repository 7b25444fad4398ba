---------------------------- MODULE ConnectProofs ----------------------------
(***************************************************************************)
(* What Connect promises, proved for any profiles, links, handshakes,      *)
(* connections and pages: where the tokens of a handshake land, that there *)
(* is one live connection to the account, and which pages it publishes to. *)
(* TLC bounds how many odd handshakes may meet (MCConnect); here nothing   *)
(* is bounded.                                                             *)
(***************************************************************************)
EXTENDS Connect, FiniteSetTheorems, TLAPS

Working == { "exchange", "plan", "read", "write" }

(* A request works for the profile its handshake was begun for.  It means  *)
(* to update a row only between the read and the write of the save; that   *)
(* row is of the profile by then, and stays so: no statement changes whose *)
(* a row is once it is inserted, not even a disconnect.                    *)
JobFits(h, j) ==
    /\ j \in JobType
    /\ j.at \in Working => j.owner = oauth[h].owner
    /\ j.at \in { "read", "write" } => j.id \in Conn
    /\ j.at # "write" => j.previous = NoConn
    /\ j.previous # NoConn =>
          /\ j.previous = j.id /\ j.previous \in Conn
          /\ conn[j.previous].status # "none"
          /\ conn[j.previous].owner = j.owner

(* Nobody works for a handshake that is not finished, and no tokens of it  *)
(* are stored.                                                             *)
FreshFits(h) ==
    oauth[h].status \in { "none", "pending" } =>
        /\ job[h].at = "idle"
        /\ \A c \in Conn : conn[c].token # h

(* A handshake begun from a link has the profile of the link, which does   *)
(* not change once the link is there.                                      *)
LinkFits(h) ==
    \A l \in Link :
        oauth[h].link = l =>
            link[l].status # "none" /\ link[l].owner = oauth[h].owner

OneLive ==
    \A c, d \in Conn :
        /\ conn[c].status = "live" => conn[c].token # NoToken
        /\ /\ conn[c].status = "live" /\ conn[d].status = "live"
           /\ conn[c].owner = conn[d].owner
           => c = d

Typed ==
    /\ link \in [ Link -> LinkType ]
    /\ oauth \in [ Handshake -> OAuthType ]
    /\ job \in [ Handshake -> JobType ]
    /\ conn \in [ Conn -> ConnType ]
    /\ dest \in [ Conn -> [ Page -> DestStatus ] ]
    /\ chosen \in [ Conn -> SUBSET Page ]

SessionsFit ==
    \A h \in Handshake : JobFits(h, job[h]) /\ FreshFits(h) /\ LinkFits(h)

IInv ==
    Typed /\ SessionsFit /\ LandsWhereItStarted /\ OneLive /\ SelectedWasChosen

LEMMA NullsAreNew ==
  /\ NoLink \notin Link /\ NoConn \notin Conn /\ NoToken \notin Handshake
  BY NullAssumption

LEMMA EmptyRowsAreTyped ==
  /\ Idle \in JobType /\ Idle.at = "idle" /\ Idle.previous = NoConn
  /\ NoSession \in OAuthType /\ NoSession.status = "none"
  /\ NoSession.link = NoLink
  <1>1. (CHOOSE o \in Owner : TRUE) \in Owner
    BY OwnerAssumption
  <1>. QED  BY <1>1 DEF Idle, NoSession, JobType, OAuthType, OAuthStatus

LEMMA InitHolds == Init => IInv
  <1>. SUFFICES ASSUME Init PROVE IInv
    OBVIOUS
  <1>1. (CHOOSE o \in Owner : TRUE) \in Owner
    BY OwnerAssumption
  <1>2. Typed
    BY <1>1, EmptyRowsAreTyped
       DEF Init, Typed, LinkType, LinkStatus, ConnType, ConnStatus, DestStatus
  <1>3. SessionsFit
    BY EmptyRowsAreTyped, NullsAreNew
       DEF Init, SessionsFit, JobFits, FreshFits, LinkFits, Working
  <1>4. LandsWhereItStarted
    BY NullsAreNew DEF Init, LandsWhereItStarted
  <1>5. OneLive
    BY DEF Init, OneLive
  <1>6. SelectedWasChosen
    BY DEF Init, SelectedWasChosen
  <1>. QED  BY <1>2, <1>3, <1>4, <1>5, <1>6 DEF IInv

(* ------------------------- links and handshakes ------------------------ *)
LEMMA LinkKeeps ==
  ASSUME IInv, NEW l \in Link,
         (\E o \in Owner : CreateLink(l, o)) \/ LapseLink(l) \/ FinishLink(l)
  PROVE  IInv'
  <1>1. UNCHANGED << oauth, job, stored >>
    BY DEF CreateLink, LapseLink, FinishLink
  <1>2. /\ link' \in [ Link -> LinkType ]
        /\ \A k \in Link : link[k].status # "none" =>
              link'[k].status # "none" /\ link'[k].owner = link[k].owner
    <2>. link \in [ Link -> LinkType ]
      BY DEF IInv, Typed
    <2>1. CASE \E o \in Owner : CreateLink(l, o)
      <3>1. PICK o \in Owner : CreateLink(l, o)
        BY <2>1
      <3>2. PICK new \in LinkType : link' = [ link EXCEPT ![l] = new ]
        BY <3>1 DEF CreateLink, LinkType, LinkStatus
      <3>3. link[l].status = "none"
        BY <3>1 DEF CreateLink
      <3>. QED  BY <3>2, <3>3
    <2>2. CASE LapseLink(l)
      BY <2>2 DEF LapseLink, LinkType, LinkStatus
    <2>3. CASE FinishLink(l)
      BY <2>3 DEF FinishLink, IInv, Typed, LinkType
    <2>. QED  BY <2>1, <2>2, <2>3
  <1>3. Typed' /\ LandsWhereItStarted' /\ OneLive' /\ SelectedWasChosen'
    BY <1>1, <1>2 DEF IInv, Typed, LandsWhereItStarted, OneLive,
                      SelectedWasChosen, stored
  <1>4. SessionsFit'
    BY <1>1, <1>2 DEF IInv, SessionsFit, JobFits, FreshFits, LinkFits, stored
  <1>. QED  BY <1>3, <1>4 DEF IInv

LEMMA BeginKeeps ==
  ASSUME IInv, NEW h \in Handshake, NEW o \in Owner,
         NEW l \in Link \cup {NoLink}, Begin(h, o, l),
         l \in Link => link[l].status # "none" /\ link[l].owner = o
  PROVE  IInv'
  <1>1. /\ UNCHANGED << link, job, stored >>
        /\ oauth[h].status = "none"
        /\ oauth' = [ oauth EXCEPT ![h] = [ @ EXCEPT
              !.owner = o, !.status = "pending", !.link = l ] ]
    BY DEF Begin
  <1>2. /\ oauth' \in [ Handshake -> OAuthType ]
        /\ oauth'[h].status = "pending" /\ oauth'[h].owner = o
        /\ oauth'[h].link = l
        /\ \A k \in Handshake : k # h => oauth'[k] = oauth[k]
    BY <1>1 DEF IInv, Typed, OAuthType, OAuthStatus
  <1>3. /\ job[h].at = "idle"
        /\ \A c \in Conn : conn[c].token # h
    BY <1>1 DEF IInv, SessionsFit, FreshFits
  <1>4. Typed' /\ OneLive' /\ SelectedWasChosen'
    BY <1>1, <1>2 DEF IInv, Typed, OneLive, SelectedWasChosen, stored
  <1>5. LandsWhereItStarted'
    BY <1>1, <1>2, <1>3 DEF IInv, LandsWhereItStarted, stored
  <1>6. SessionsFit'
    <2>. SUFFICES ASSUME NEW k \in Handshake
                  PROVE  (JobFits(k, job[k]) /\ FreshFits(k) /\ LinkFits(k))'
      BY DEF SessionsFit
    <2>1. CASE k = h
      BY <1>1, <1>2, <1>3, <2>1, NullsAreNew
         DEF IInv, SessionsFit, JobFits, FreshFits, LinkFits, stored, Working
    <2>2. CASE k # h
      BY <1>1, <1>2, <2>2
         DEF IInv, SessionsFit, JobFits, FreshFits, LinkFits, stored
    <2>. QED  BY <2>1, <2>2
  <1>. QED  BY <1>4, <1>5, <1>6 DEF IInv

(* A finished handshake, and one out of time, keep their owner and link,   *)
(* and the request at work on it is unchanged or over.                     *)
LEMMA TurnKeeps ==
  ASSUME IInv, NEW h \in Handshake, NEW s \in OAuthStatus, NEW b \in BOOLEAN,
         oauth' = [ oauth EXCEPT ![h] = [ @ EXCEPT !.status = s, !.past = b ] ],
         s = "pending" => oauth[h].status = "pending",
         s # "none",
         job' = job \/ job' = [ job EXCEPT ![h] = Idle ],
         UNCHANGED << link, stored >>
  PROVE  IInv'
  <1>1. /\ oauth' \in [ Handshake -> OAuthType ]
        /\ oauth'[h].status = s /\ oauth'[h].owner = oauth[h].owner
        /\ oauth'[h].link = oauth[h].link
        /\ \A k \in Handshake : k # h => oauth'[k] = oauth[k]
    BY DEF IInv, Typed, OAuthType
  <1>2. /\ job' \in [ Handshake -> JobType ]
        /\ \A k \in Handshake : job'[k] = job[k] \/ job'[k] = Idle
    BY EmptyRowsAreTyped DEF IInv, Typed
  <1>3. Typed' /\ OneLive' /\ SelectedWasChosen'
    BY <1>1, <1>2 DEF IInv, Typed, OneLive, SelectedWasChosen, stored
  <1>4. \A k \in Handshake : /\ oauth'[k].owner = oauth[k].owner
                             /\ oauth'[k].link = oauth[k].link
                             /\ oauth'[k].status \in { "none", "pending" } =>
                                   oauth[k].status \in { "none", "pending" }
    BY <1>1
  <1>5. LandsWhereItStarted'
    BY <1>4 DEF IInv, LandsWhereItStarted, stored
  <1>6. SessionsFit'
    <2>. SUFFICES ASSUME NEW k \in Handshake
                  PROVE  (JobFits(k, job[k]) /\ FreshFits(k) /\ LinkFits(k))'
      BY DEF SessionsFit
    <2>1. JobFits(k, job[k]) /\ FreshFits(k) /\ LinkFits(k)
      BY DEF IInv, SessionsFit
    <2>2. FreshFits(k)' /\ LinkFits(k)'
      BY <1>2, <1>4, <2>1, EmptyRowsAreTyped DEF FreshFits, LinkFits, stored
    <2>3. CASE job'[k] = job[k]
      BY <1>4, <2>1, <2>2, <2>3 DEF JobFits, stored
    <2>4. CASE job'[k] = Idle
      BY <2>2, <2>4, EmptyRowsAreTyped DEF JobFits, Working
    <2>. QED  BY <1>2, <2>3, <2>4
  <1>. QED  BY <1>3, <1>5, <1>6 DEF IInv

LEMMA LapseKeeps ==
  ASSUME IInv, NEW h \in Handshake, LapseHandshake(h)
  PROVE  IInv'
  <1>1. /\ oauth[h].status = "pending"
        /\ oauth' = [ oauth EXCEPT ![h].past = TRUE ]
        /\ UNCHANGED << link, job, stored >>
    BY DEF LapseHandshake
  <1>2. oauth' = [ oauth EXCEPT ![h] =
                     [ @ EXCEPT !.status = "pending", !.past = TRUE ] ]
    BY <1>1 DEF IInv, Typed, OAuthType
  <1>3. "pending" \in OAuthStatus /\ "pending" # "none" /\ TRUE \in BOOLEAN
    BY DEF OAuthStatus
  <1>. QED  BY <1>1, <1>2, <1>3, TurnKeeps

LEMMA RefusalKeeps ==
  ASSUME IInv, NEW h \in Handshake, NEW s \in { "consumed", "failed" },
         Turned(h, s), job' = job \/ job' = [ job EXCEPT ![h] = Idle ],
         UNCHANGED << link, stored >>
  PROVE  IInv'
  <1>1. /\ oauth' = [ oauth EXCEPT ![h] =
                       [ @ EXCEPT !.status = s, !.past = oauth[h].past ] ]
        /\ oauth[h].past \in BOOLEAN
    BY DEF Turned, IInv, Typed, OAuthType
  <1>2. s \in OAuthStatus /\ s # "none" /\ s # "pending"
    BY DEF OAuthStatus
  <1>. QED  BY <1>1, <1>2, TurnKeeps

LEMMA StartKeeps ==
  ASSUME IInv, NEW h \in Handshake, Consumable(h), Start(h, oauth[h].owner),
         UNCHANGED << link, stored >>
  PROVE  IInv'
  <1>1. /\ oauth' \in [ Handshake -> OAuthType ]
        /\ oauth'[h].status = "consumed" /\ oauth'[h].owner = oauth[h].owner
        /\ oauth'[h].link = oauth[h].link
        /\ \A k \in Handshake : k # h => oauth'[k] = oauth[k]
    BY DEF Start, Turned, IInv, Typed, OAuthType, OAuthStatus
  <1>2. JobFits(h, job[h])
    BY DEF IInv, SessionsFit
  <1>3. /\ job[h].at = "idle" /\ job[h].previous = NoConn
    BY <1>2 DEF Consumable, IInv, SessionsFit, FreshFits, JobFits
  <1>4. /\ job' \in [ Handshake -> JobType ]
        /\ job'[h].at = "exchange" /\ job'[h].owner = oauth[h].owner
        /\ job'[h].previous = NoConn
        /\ \A k \in Handshake : k # h => job'[k] = job[k]
    <2>1. PICK o \in Owner : o = oauth[h].owner
      BY DEF IInv, Typed, OAuthType
    <2>2. job' = [ job EXCEPT ![h] =
                     [ job[h] EXCEPT !.at = "exchange", !.owner = o ] ]
      BY <2>1 DEF Start
    <2>3. job \in [ Handshake -> JobType ]
      BY DEF IInv, Typed
    <2>4. [ job[h] EXCEPT !.at = "exchange", !.owner = o ] \in JobType
      BY <2>3 DEF JobType
    <2>. QED  BY <1>3, <2>1, <2>2, <2>3, <2>4 DEF JobType
  <1>5. Typed' /\ OneLive' /\ SelectedWasChosen'
    BY <1>1, <1>4 DEF IInv, Typed, OneLive, SelectedWasChosen, stored
  <1>6. LandsWhereItStarted'
    BY <1>1 DEF IInv, LandsWhereItStarted, stored
  <1>7. SessionsFit'
    <2>. SUFFICES ASSUME NEW k \in Handshake
                  PROVE  (JobFits(k, job[k]) /\ FreshFits(k) /\ LinkFits(k))'
      BY DEF SessionsFit
    <2>1. CASE k = h
      BY <1>1, <1>4, <2>1
         DEF IInv, SessionsFit, JobFits, FreshFits, LinkFits, stored
    <2>2. CASE k # h
      BY <1>1, <1>4, <2>2
         DEF IInv, SessionsFit, JobFits, FreshFits, LinkFits, stored
    <2>. QED  BY <2>1, <2>2
  <1>. QED  BY <1>5, <1>6, <1>7 DEF IInv

(* Whoever finishes a handshake, by key, link or browser: the request      *)
(* works for the profile the handshake was begun for, or is refused.       *)
LEMMA FinishKeeps ==
  ASSUME IInv, NEW h \in Handshake,
         \/ Callback(h)
         \/ \E o \in Owner : Complete(h, o)
         \/ \E l \in Link : CompleteHosted(h, l)
  PROVE  IInv'
  <1>1. CASE Callback(h)
    BY <1>1, StartKeeps, RefusalKeeps DEF Callback, Refuse
  <1>2. ASSUME NEW o \in Owner, Complete(h, o) PROVE IInv'
    BY <1>2, StartKeeps, RefusalKeeps DEF Complete, Refuse
  <1>3. ASSUME NEW l \in Link, CompleteHosted(h, l) PROVE IInv'
    <2>1. CASE oauth[h].link = l
      <3>1. link[l].owner = oauth[h].owner
        BY <2>1 DEF IInv, SessionsFit, LinkFits
      <3>. QED  BY <1>3, <2>1, <3>1, StartKeeps DEF CompleteHosted
    <2>2. CASE oauth[h].link # l
      BY <1>3, <2>2, RefusalKeeps DEF CompleteHosted, Refuse
    <2>. QED  BY <2>1, <2>2
  <1>. QED  BY <1>1, <1>2, <1>3

LEMMA ForgetKeeps ==
  ASSUME IInv, NEW h \in Handshake, Forget(h)
  PROVE  IInv'
  <1>1. /\ job[h].at = "idle"
        /\ \A c \in Conn : conn[c].token # h
        /\ oauth' = [ oauth EXCEPT ![h] = NoSession ]
        /\ UNCHANGED << link, job, stored >>
    BY DEF Forget
  <1>2. /\ oauth' \in [ Handshake -> OAuthType ]
        /\ oauth'[h] = NoSession
        /\ \A k \in Handshake : k # h => oauth'[k] = oauth[k]
    BY <1>1, EmptyRowsAreTyped DEF IInv, Typed
  <1>3. Typed' /\ OneLive' /\ SelectedWasChosen'
    BY <1>1, <1>2 DEF IInv, Typed, OneLive, SelectedWasChosen, stored
  <1>4. LandsWhereItStarted'
    BY <1>1, <1>2 DEF IInv, LandsWhereItStarted, stored
  <1>5. SessionsFit'
    <2>. SUFFICES ASSUME NEW k \in Handshake
                  PROVE  (JobFits(k, job[k]) /\ FreshFits(k) /\ LinkFits(k))'
      BY DEF SessionsFit
    <2>1. CASE k = h
      BY <1>1, <1>2, <2>1, EmptyRowsAreTyped, NullsAreNew
         DEF IInv, SessionsFit, JobFits, FreshFits, LinkFits, stored, Working
    <2>2. CASE k # h
      BY <1>1, <1>2, <2>2
         DEF IInv, SessionsFit, JobFits, FreshFits, LinkFits, stored
    <2>. QED  BY <2>1, <2>2
  <1>. QED  BY <1>3, <1>4, <1>5 DEF IInv

(* ------------------------- completeAuthorization ----------------------- *)
LEMMA MoveKeeps ==
  ASSUME IInv, NEW h \in Handshake, job[h].at # "idle",
         NEW j, JobFits(h, j), Moved(h, j), UNCHANGED << sessions, stored >>
  PROVE  IInv'
  <1>1. /\ job' \in [ Handshake -> JobType ] /\ job'[h] = j
        /\ \A k \in Handshake : k # h => job'[k] = job[k]
    BY DEF Moved, JobFits, IInv, Typed
  <1>2. Typed' /\ LandsWhereItStarted' /\ OneLive' /\ SelectedWasChosen'
    BY <1>1 DEF IInv, Typed, LandsWhereItStarted, OneLive, SelectedWasChosen,
                stored, sessions
  <1>3. SessionsFit'
    BY <1>1 DEF IInv, SessionsFit, JobFits, FreshFits, LinkFits, stored,
                sessions
  <1>. QED  BY <1>2, <1>3 DEF IInv

LEMMA FailureKeeps ==
  ASSUME IInv, NEW h \in Handshake, Failed(h), UNCHANGED << link, stored >>
  PROVE  IInv'
  BY RefusalKeeps DEF Failed

LEMMA IdleFits == \A h : JobFits(h, Idle)
  BY EmptyRowsAreTyped DEF JobFits, Working

LEMMA ExchangeKeeps ==
  ASSUME IInv, NEW h \in Handshake, Exchange(h)
  PROVE  IInv'
  <1>1. CASE Failed(h)
    BY <1>1, FailureKeeps DEF Exchange
  <1>2. CASE ~Failed(h)
    <2>1. PICK found \in SUBSET Page :
            Moved(h, [ job[h] EXCEPT !.at = "plan", !.found = found ])
      BY <1>2 DEF Exchange
    <2>2. UNCHANGED << sessions, stored >> /\ job[h].at = "exchange"
      BY <1>2 DEF Exchange, sessions
    <2>3. JobFits(h, job[h])
      BY DEF IInv, SessionsFit
    <2>4. JobFits(h, [ job[h] EXCEPT !.at = "plan", !.found = found ])
      BY <2>2, <2>3 DEF JobFits, JobType, Working
    <2>. QED  BY <2>1, <2>2, <2>4, MoveKeeps
  <1>. QED  BY <1>1, <1>2

LEMMA PlanKeeps ==
  ASSUME IInv, NEW h \in Handshake, Plan(h)
  PROVE  IInv'
  <1>1. UNCHANGED << sessions, stored >> /\ job[h].at = "plan"
    BY DEF Plan
  <1>2. JobFits(h, job[h])
    BY DEF IInv, SessionsFit
  <1>3. ASSUME NEW c \in LiveOf(job[h].owner),
               Moved(h, [ job[h] EXCEPT !.at = "read", !.id = c,
                                        !.known = Known(c) ])
        PROVE  IInv'
    <2>1. c \in Conn /\ Known(c) \in SUBSET Page
      BY <1>3 DEF LiveOf, Known
    <2>2. JobFits(h, [ job[h] EXCEPT !.at = "read", !.id = c,
                                     !.known = Known(c) ])
      BY <1>1, <1>2, <2>1 DEF JobFits, JobType, Working
    <2>. QED  BY <1>1, <1>3, <2>2, MoveKeeps
  <1>4. ASSUME NEW c \in Fresh,
               Moved(h, [ job[h] EXCEPT !.at = "read", !.id = c ])
        PROVE  IInv'
    <2>1. c \in Conn
      BY <1>4 DEF Fresh
    <2>2. JobFits(h, [ job[h] EXCEPT !.at = "read", !.id = c ])
      BY <1>1, <1>2, <2>1 DEF JobFits, JobType, Working
    <2>. QED  BY <1>1, <1>4, <2>2, MoveKeeps
  <1>. QED  BY <1>3, <1>4 DEF Plan

LEMMA SaveReadsKeeps ==
  ASSUME IInv, NEW h \in Handshake, SaveReads(h)
  PROVE  IInv'
  <1>1. UNCHANGED << link, stored >> /\ job[h].at = "read"
    BY DEF SaveReads
  <1>2. JobFits(h, job[h]) /\ job[h].id \in Conn
    BY <1>1 DEF IInv, SessionsFit, JobFits
  <1>3. CASE Failed(h)
    BY <1>1, <1>3, FailureKeeps
  <1>4. CASE Reads(h, NoConn) /\ UNCHANGED oauth
    <2>. DEFINE j == [ job[h] EXCEPT !.at = "write", !.previous = NoConn,
                                     !.setup = FALSE ]
    <2>1. Moved(h, j)
      BY <1>4 DEF Reads
    <2>2. JobFits(h, j)
      BY <1>1, <1>2 DEF JobFits, JobType, Working
    <2>3. UNCHANGED << sessions, stored >>
      BY <1>1, <1>4 DEF sessions
    <2>. HIDE DEF j
    <2>. QED  BY <1>1, <2>1, <2>2, <2>3, MoveKeeps
  <1>5. CASE /\ LiveOf(job[h].owner) = { job[h].id }
             /\ Reads(h, job[h].id) /\ UNCHANGED oauth
    <2>. DEFINE b == job[h].id # NoConn /\ conn[job[h].id].setup
                j == [ job[h] EXCEPT !.at = "write", !.previous = job[h].id,
                                     !.setup = b ]
    <2>1. Moved(h, j)
      BY <1>5 DEF Reads
    <2>2. b \in BOOLEAN
      OBVIOUS
    <2>3. /\ conn[job[h].id].status = "live"
          /\ conn[job[h].id].owner = job[h].owner
      BY <1>5 DEF LiveOf
    <2>. HIDE DEF b
    <2>4. JobFits(h, j)
      BY <1>1, <1>2, <2>2, <2>3 DEF JobFits, JobType, Working
    <2>5. UNCHANGED << sessions, stored >>
      BY <1>1, <1>5 DEF sessions
    <2>. HIDE DEF j
    <2>. QED  BY <1>1, <2>1, <2>4, <2>5, MoveKeeps
  <1>. QED  BY <1>3, <1>4, <1>5 DEF SaveReads

(* The save.  An insert finds no live row of the profile, by the partial   *)
(* index; an update reaches the row the transaction read, whatever became  *)
(* of it since, and does not bring it back to life.                        *)
LEMMA SaveWritesKeeps ==
  ASSUME IInv, NEW h \in Handshake, SaveWrites(h)
  PROVE  IInv'
  <1>1. PICK j : j = job[h]
    OBVIOUS
  <1>2. PICK c : c = j.id
    OBVIOUS
  <1>3. /\ j.at = "write" /\ ~Collides(j)
        /\ conn' = [ conn EXCEPT ![c] =
              [ owner |-> j.owner,
                status |-> IF Inserts(j) THEN "live" ELSE @.status,
                setup |-> j.setup \/ Only(j),
                token |-> h ] ]
        /\ dest' = [ dest EXCEPT ![c] =
              [ p \in Page |-> Afterwards(j, p, dest[c][p]) ] ]
        /\ chosen' = [ chosen EXCEPT ![c] =
              (@ \cap j.found) \cup (IF Only(j) THEN j.found ELSE {}) ]
        /\ Moved(h, [ Idle EXCEPT !.at = "emit" ])
        /\ UNCHANGED sessions
    BY <1>1, <1>2 DEF SaveWrites
  <1>4. JobFits(h, j) /\ c \in Conn /\ j \in JobType
    BY <1>1, <1>2, <1>3 DEF IInv, SessionsFit, JobFits
  <1>5. /\ j.owner \in Owner /\ j.owner = oauth[h].owner
        /\ j.found \in SUBSET Page /\ j.setup \in BOOLEAN
    BY <1>3, <1>4 DEF JobFits, JobType, Working
  <1>6. oauth[h].status \notin { "none", "pending" }
    BY <1>1, <1>3 DEF IInv, SessionsFit, FreshFits
  <1>7. ~Inserts(j) => conn[c].status # "none" /\ conn[c].owner = j.owner
    BY <1>2, <1>4 DEF Inserts, JobFits
  <1>8. /\ conn'[c].owner = j.owner /\ conn'[c].token = h
        /\ conn'[c].status = IF Inserts(j) THEN "live" ELSE conn[c].status
        /\ conn'[c] \in ConnType
        /\ \A d \in Conn : d # c => conn'[d] = conn[d]
    <2>1. conn[c] \in ConnType /\ (j.setup \/ Only(j)) \in BOOLEAN
      BY <1>4, <1>5 DEF IInv, Typed, Only
    <2>. QED  BY <1>3, <1>4, <1>5, <2>1 DEF IInv, Typed, ConnType, ConnStatus
  <1>9. conn' \in [ Conn -> ConnType ]
    BY <1>3, <1>8 DEF IInv, Typed
  <1>10. /\ job' \in [ Handshake -> JobType ]
         /\ job'[h].at = "emit" /\ job'[h].previous = NoConn
         /\ \A k \in Handshake : k # h => job'[k] = job[k]
    BY <1>3, EmptyRowsAreTyped DEF Moved, IInv, Typed, JobType
  <1>11. dest' \in [ Conn -> [ Page -> DestStatus ] ]
    <2>1. ASSUME NEW p \in Page PROVE Afterwards(j, p, dest[c][p]) \in DestStatus
      <3>1. dest[c][p] \in DestStatus
        BY <1>4 DEF IInv, Typed
      <3>2. PICK s : s = dest[c][p]
        OBVIOUS
      <3>3. s \in DestStatus
        BY <3>1, <3>2
      <3>4. Afterwards(j, p, s) \in { "selected", "listed", "removed", s }
        BY DEF Afterwards
      <3>. QED  BY <3>2, <3>3, <3>4 DEF DestStatus
    <2>. QED  BY <1>3, <2>1 DEF IInv, Typed
  <1>12. chosen' \in [ Conn -> SUBSET Page ]
    BY <1>3, <1>4, <1>5 DEF IInv, Typed
  <1>13. Typed'
    BY <1>3, <1>9, <1>10, <1>11, <1>12 DEF IInv, Typed, sessions
  <1>14. LandsWhereItStarted'
    BY <1>3, <1>5, <1>8 DEF IInv, LandsWhereItStarted, sessions
  <1>15. OneLive'
    <2>1. ASSUME NEW a \in Conn, NEW b \in Conn,
                 conn'[a].status = "live", conn'[b].status = "live",
                 conn'[a].owner = conn'[b].owner, a = c, b # c
          PROVE  FALSE
      <3>1. conn[b].status = "live" /\ conn[b].owner = j.owner
        BY <1>8, <2>1
      <3>2. ~Inserts(j)
        BY <1>3, <3>1, <2>1 DEF Collides, LiveOf
      <3>3. conn[c].status = "live" /\ conn[c].owner = j.owner
        BY <1>7, <1>8, <2>1, <3>2
      <3>. QED  BY <1>4, <2>1, <3>1, <3>3 DEF IInv, OneLive
    <2>2. ASSUME NEW a \in Conn, conn'[a].status = "live"
          PROVE  conn'[a].token # NoToken
      BY <1>8, <2>2, NullsAreNew DEF IInv, OneLive
    <2>3. ASSUME NEW a \in Conn, NEW b \in Conn,
                 conn'[a].status = "live", conn'[b].status = "live",
                 conn'[a].owner = conn'[b].owner
          PROVE  a = b
      <3>1. CASE a # c /\ b # c
        BY <1>8, <2>3, <3>1 DEF IInv, OneLive
      <3>2. CASE a = c \/ b = c
        BY <2>1, <2>3, <3>2
      <3>. QED  BY <3>1, <3>2
    <2>. QED  BY <2>2, <2>3 DEF OneLive
  <1>16. SelectedWasChosen'
    <2>. SUFFICES ASSUME NEW d \in Conn, NEW p \in Page,
                         dest'[d][p] = "selected"
                  PROVE  p \in chosen'[d]
      BY DEF SelectedWasChosen
    <2>1. CASE d # c
      BY <1>3, <2>1 DEF IInv, Typed, SelectedWasChosen
    <2>2. CASE d = c
      <3>1. Afterwards(j, p, dest[c][p]) = "selected"
        BY <1>3, <1>4, <2>2 DEF IInv, Typed
      <3>2. chosen'[c] = (chosen[c] \cap j.found)
                           \cup (IF Only(j) THEN j.found ELSE {})
        BY <1>3, <1>4 DEF IInv, Typed
      <3>3. \/ p \in j.found /\ Only(j)
            \/ p \in j.found /\ dest[c][p] = "selected"
        BY <3>1 DEF Afterwards
      <3>4. dest[c][p] = "selected" => p \in chosen[c]
        BY <1>4 DEF IInv, SelectedWasChosen
      <3>. QED  BY <2>2, <3>2, <3>3, <3>4
    <2>. QED  BY <2>1, <2>2
  <1>17. SessionsFit'
    <2>. SUFFICES ASSUME NEW k \in Handshake
                  PROVE  (JobFits(k, job[k]) /\ FreshFits(k) /\ LinkFits(k))'
      BY DEF SessionsFit
    <2>1. JobFits(k, job[k]) /\ FreshFits(k) /\ LinkFits(k)
      BY DEF IInv, SessionsFit
    <2>2. LinkFits(k)'
      BY <1>3, <2>1 DEF LinkFits, sessions
    <2>3. CASE k = h
      <3>1. JobFits(k, job[k])'
        BY <1>10, <2>3 DEF JobFits, Working
      <3>2. FreshFits(k)'
        BY <1>3, <1>6, <2>3 DEF FreshFits, sessions
      <3>. QED  BY <2>2, <3>1, <3>2
    <2>4. CASE k # h
      <3>1. FreshFits(k)'
        BY <1>3, <1>8, <1>10, <2>1, <2>4 DEF FreshFits, sessions
      <3>2. \A d \in Conn : conn[d].status # "none" =>
              /\ conn'[d].status # "none"
              /\ conn'[d].owner = conn[d].owner
        <4>1. Inserts(j) => conn[c].status = "none"
          BY <1>2, <1>3 DEF Collides
        <4>. QED  BY <1>7, <1>8, <4>1
      <3>3. JobFits(k, job[k])'
        BY <1>3, <1>10, <2>1, <2>4, <3>2 DEF JobFits, sessions
      <3>. QED  BY <2>2, <3>1, <3>3
    <2>. QED  BY <2>3, <2>4
  <1>. QED  BY <1>13, <1>14, <1>15, <1>16, <1>17 DEF IInv

LEMMA EmitKeeps ==
  ASSUME IInv, NEW h \in Handshake, Emit(h) \/ Crash(h) \/ SaveCollides(h)
  PROVE  IInv'
  <1>1. CASE Failed(h) /\ UNCHANGED << link, stored >>
    BY <1>1, FailureKeeps
  <1>2. CASE /\ Moved(h, Idle) /\ job[h].at # "idle"
             /\ UNCHANGED << sessions, stored >>
    BY <1>2, IdleFits, MoveKeeps
  <1>. QED  BY <1>1, <1>2 DEF Emit, Crash, SaveCollides, sessions

(* ------------------------- what a customer does ------------------------ *)
LEMMA DisconnectKeeps ==
  ASSUME IInv, NEW c \in Conn, Disconnect(c)
  PROVE  IInv'
  <1>1. /\ conn[c].status = "live"
        /\ conn' = [ conn EXCEPT ![c].status = "disconnected",
                                 ![c].token = NoToken ]
        /\ UNCHANGED << sessions, job, dest, chosen >>
    BY DEF Disconnect
  <1>2. /\ conn' \in [ Conn -> ConnType ]
        /\ conn'[c].status = "disconnected" /\ conn'[c].token = NoToken
        /\ \A d \in Conn : /\ conn'[d].owner = conn[d].owner
                            /\ d # c => conn'[d] = conn[d]
    BY <1>1 DEF IInv, Typed, ConnType, ConnStatus
  <1>3. Typed' /\ SelectedWasChosen'
    BY <1>1, <1>2 DEF IInv, Typed, SelectedWasChosen, sessions
  <1>4. LandsWhereItStarted' /\ OneLive'
    BY <1>1, <1>2, NullsAreNew
       DEF IInv, LandsWhereItStarted, OneLive, sessions
  <1>5. SessionsFit'
    BY <1>1, <1>2, NullsAreNew
       DEF IInv, SessionsFit, JobFits, FreshFits, LinkFits, sessions
  <1>. QED  BY <1>3, <1>4, <1>5 DEF IInv

LEMMA SelectKeeps ==
  ASSUME IInv, NEW c \in Conn, NEW asked \in SUBSET Page,
         NEW foreign \in BOOLEAN, Select(c, asked, foreign)
  PROVE  IInv'
  <1>. DEFINE now == { p \in asked : dest[c][p] # "removed" }
              chosenNow(p) == CASE p \in now -> "selected"
                    [] p \notin now /\ dest[c][p] = "selected" -> "listed"
                    [] OTHER -> dest[c][p]
  <1>1. /\ dest' = [ dest EXCEPT ![c] = [ p \in Page |-> chosenNow(p) ] ]
        /\ chosen' = [ chosen EXCEPT ![c] = now ]
        /\ conn' = [ conn EXCEPT ![c].setup = asked # {} \/ foreign ]
        /\ UNCHANGED << sessions, job >>
    BY DEF Select
  <1>2. \A p \in Page : /\ chosenNow(p) \in DestStatus
                        /\ chosenNow(p) = "selected" => p \in now
    <2>. SUFFICES ASSUME NEW p \in Page
                  PROVE  /\ chosenNow(p) \in DestStatus
                         /\ chosenNow(p) = "selected" => p \in now
      OBVIOUS
    <2>1. dest[c][p] \in DestStatus
      BY DEF IInv, Typed
    <2>. HIDE DEF now
    <2>. QED  BY <2>1 DEF DestStatus
  <1>3. now \in SUBSET Page
    OBVIOUS
  <1>. HIDE DEF now, chosenNow
  <1>4. /\ dest' \in [ Conn -> [ Page -> DestStatus ] ]
        /\ chosen' \in [ Conn -> SUBSET Page ]
    BY <1>1, <1>2, <1>3 DEF IInv, Typed
  <1>5. /\ conn' \in [ Conn -> ConnType ]
        /\ \A d \in Conn : /\ conn'[d].owner = conn[d].owner
                            /\ conn'[d].status = conn[d].status
                            /\ conn'[d].token = conn[d].token
    <2>1. (asked # {} \/ foreign) \in BOOLEAN
      OBVIOUS
    <2>2. conn \in [ Conn -> ConnType ]
      BY DEF IInv, Typed
    <2>3. conn' = [ conn EXCEPT ![c] =
                      [ conn[c] EXCEPT !.setup = asked # {} \/ foreign ] ]
      BY <1>1, <2>2
    <2>4. /\ [ conn[c] EXCEPT !.setup = asked # {} \/ foreign ] \in ConnType
          /\ [ conn[c] EXCEPT !.setup = asked # {} \/ foreign ].owner
                 = conn[c].owner
          /\ [ conn[c] EXCEPT !.setup = asked # {} \/ foreign ].status
                 = conn[c].status
          /\ [ conn[c] EXCEPT !.setup = asked # {} \/ foreign ].token
                 = conn[c].token
      BY <2>1, <2>2 DEF ConnType
    <2>. QED  BY <2>2, <2>3, <2>4
  <1>6. Typed'
    BY <1>1, <1>4, <1>5 DEF IInv, Typed, sessions
  <1>7. LandsWhereItStarted' /\ OneLive'
    BY <1>1, <1>5 DEF IInv, LandsWhereItStarted, OneLive, sessions
  <1>8. SelectedWasChosen'
    <2>. SUFFICES ASSUME NEW d \in Conn, NEW p \in Page,
                         dest'[d][p] = "selected"
                  PROVE  p \in chosen'[d]
      BY DEF SelectedWasChosen
    <2>1. CASE d = c
      BY <1>1, <1>2, <2>1 DEF IInv, Typed
    <2>2. CASE d # c
      BY <1>1, <2>2 DEF IInv, Typed, SelectedWasChosen
    <2>. QED  BY <2>1, <2>2
  <1>9. SessionsFit'
    BY <1>1, <1>5 DEF IInv, SessionsFit, JobFits, FreshFits, LinkFits, sessions
  <1>. QED  BY <1>6, <1>7, <1>8, <1>9 DEF IInv

LEMMA StutterKeeps ==
  ASSUME IInv, UNCHANGED vars
  PROVE  IInv'
  BY DEF vars, sessions, stored, IInv, Typed, SessionsFit, JobFits, FreshFits,
         LinkFits, LandsWhereItStarted, OneLive, LiveOf, SelectedWasChosen

LEMMA StepKeeps == IInv /\ [Next]_vars => IInv'
  <1>. SUFFICES ASSUME IInv, [Next]_vars PROVE IInv'
    OBVIOUS
  <1>1. ASSUME NEW l \in Link,
               (\E o \in Owner : CreateLink(l, o))
                 \/ LapseLink(l) \/ FinishLink(l)
        PROVE  IInv'
    BY <1>1, LinkKeeps
  <1>2. ASSUME NEW h \in Handshake, NEW o \in Owner, Authorize(h, o)
        PROVE  IInv'
    BY <1>2, NullsAreNew, BeginKeeps DEF Authorize
  <1>3. ASSUME NEW h \in Handshake, NEW l \in Link, AuthorizeHosted(h, l)
        PROVE  IInv'
    <2>1. link[l].owner \in Owner
      BY DEF IInv, Typed, LinkType
    <2>2. link[l].status # "none"
      BY <1>3 DEF AuthorizeHosted, Redeemable
    <2>. QED  BY <1>3, <2>1, <2>2, BeginKeeps DEF AuthorizeHosted
  <1>4. ASSUME NEW h \in Handshake, NEW o \in Owner, Complete(h, o)
        PROVE  IInv'
    BY <1>4, FinishKeeps
  <1>5. ASSUME NEW h \in Handshake, NEW l \in Link, CompleteHosted(h, l)
        PROVE  IInv'
    BY <1>5, FinishKeeps
  <1>6. ASSUME NEW h \in Handshake,
               LapseHandshake(h) \/ Callback(h) \/ Exchange(h) \/ Plan(h)
                 \/ SaveReads(h) \/ SaveWrites(h) \/ SaveCollides(h)
                 \/ Emit(h) \/ Crash(h) \/ Forget(h)
        PROVE  IInv'
    BY <1>6, LapseKeeps, FinishKeeps, ExchangeKeeps, PlanKeeps,
       SaveReadsKeeps, SaveWritesKeeps, EmitKeeps, ForgetKeeps
  <1>7. ASSUME NEW c \in Conn, Disconnect(c) PROVE IInv'
    BY <1>7, DisconnectKeeps
  <1>8. ASSUME NEW c \in Conn, NEW asked \in SUBSET Page,
               NEW foreign \in BOOLEAN, Select(c, asked, foreign)
        PROVE  IInv'
    BY <1>8, SelectKeeps
  <1>9. CASE UNCHANGED vars
    BY <1>9, StutterKeeps
  <1>. QED  BY <1>1, <1>2, <1>3, <1>4, <1>5, <1>6, <1>7, <1>8, <1>9 DEF Next

LEMMA IInvHolds == Spec => []IInv
  BY InitHolds, StepKeeps, PTL DEF Spec

(* ------------------------------- theorems ------------------------------ *)
(* Rows and requests keep to the schema for any number of handshakes, and  *)
(* a request between the read and the write of the save means the row it   *)
(* planned, or a new one (planConnectionIds, saveConnection).              *)
THEOREM TypeCorrect == Spec => []TypeOK
  <1>1. IInv => TypeOK
    BY DEF IInv, Typed, TypeOK, SessionsFit, JobFits
  <1>. QED  BY <1>1, IInvHolds, PTL

(* However keys, links and browsers mix up handshakes, how often a link is *)
(* redeemed and whatever commits between the read and the write: tokens    *)
(* are stored on a connection of the profile the handshake was begun for.  *)
THEOREM LandsWhereItStartedHolds == Spec => []LandsWhereItStarted
  <1>1. IInv => LandsWhereItStarted
    BY DEF IInv
  <1>. QED  BY <1>1, IInvHolds, PTL

(* However many handshakes for the account end at once, with disconnects   *)
(* between their reads and writes: a profile has at most one live          *)
(* connection, and it has tokens.  It rests on the partial unique index,   *)
(* and on the UPDATE leaving disconnected_at alone.                        *)
THEOREM OneLiveConnectionHolds == Spec => []OneLiveConnection
  <1>1. ASSUME IInv, NEW o \in Owner
        PROVE  /\ Cardinality(LiveOf(o)) <= 1
               /\ \A c \in LiveOf(o) : conn[c].token # NoToken
    <2>1. CASE LiveOf(o) = {}
      BY <2>1, FS_EmptySet
    <2>2. CASE LiveOf(o) # {}
      <3>1. PICK c : c \in LiveOf(o)
        BY <2>2
      <3>2. \A d \in LiveOf(o) : d = c
        BY <1>1, <3>1 DEF IInv, OneLive, LiveOf
      <3>3. LiveOf(o) = {c}
        BY <3>1, <3>2
      <3>4. Cardinality(LiveOf(o)) = 1
        BY <3>3, FS_Singleton
      <3>. QED  BY <1>1, <3>4 DEF IInv, OneLive, LiveOf
    <2>. QED  BY <2>1, <2>2
  <1>2. IInv => OneLiveConnection
    BY <1>1 DEF OneLiveConnection
  <1>. QED  BY <1>2, IInvHolds, PTL

(* Whatever reconnects, disconnects, selections and changes of what the    *)
(* provider lists interleave: a page is selected only if the customer      *)
(* chose it, or it was the only one offered, and it was listed ever since. *)
THEOREM SelectedWasChosenHolds == Spec => []SelectedWasChosen
  <1>1. IInv => SelectedWasChosen
    BY DEF IInv
  <1>. QED  BY <1>1, IInvHolds, PTL
=============================================================================
