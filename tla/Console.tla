------------------------------- MODULE Console -------------------------------
(***************************************************************************)
(* The console's requests that change how the running daemon behaves: the  *)
(* settings and the reload of flood control (internal/api/                 *)
(* handlers_resources.go), SNMPv3 users and communities (handlers_sinks.go,*)
(* handlers_traps.go), the administrator's account (internal/auth).  What  *)
(* the process holds in memory, next to what is stored.                    *)
(*                                                                         *)
(* A secret is the master key it is sealed under; another key does not     *)
(* open it.  A request is one step when it is one statement.               *)
(***************************************************************************)
EXTENDS Naturals, Sequences, FiniteSets

CONSTANTS
  Slot,         \* requests the server handles at a time
  Key,          \* master keys the daemon is started with
  Name,         \* account names
  User, Community,   \* ids of rows, each used once
  Form,         \* what the editor of a v3 user may send
  FloodSetting, AuthSetting, Value, Off,
  Default,      \* what the flood controller takes for a setting it does not get
  Saves,        \* what the settings page sends: functions from some settings
  MaxRequests,  \* bound: requests that reach a handler, and commands
  None

Setting == FloodSetting \cup {AuthSetting}

ASSUME SettingAssumption ==
  /\ AuthSetting \notin FloodSetting /\ Default \in [FloodSetting -> Value]
  /\ Saves \subseteq UNION {[D -> Value] : D \in SUBSET Setting}
ASSUME FormAssumption ==
  Form \subseteq [level : {"authNoPriv", "authPriv"}, auth : BOOLEAN, priv : BOOLEAN,
                  known : SUBSET {"auth", "priv"}, enabled : BOOLEAN]
ASSUME IdAssumption ==
  /\ None \notin Slot \cup Key \cup Name /\ User \cap Community = {}
  /\ Key # {} /\ Name # {}
ASSUME RequestBound == MaxRequests \in Nat

VARIABLES
  http,         \* "down", "up", or "draining": http.Server
  key,          \* the master key of the process, None when it is not running
  stored,       \* settings
  active,       \* the settings the flood controller was configured from
  users,        \* snmpv3_users
  communities,  \* v2c_communities
  usm, allow,   \* the users and communities the listener accepts
  accounts,     \* admin, by id
  session,      \* the key under which the browser's cookie was signed, or None
  slot,         \* the requests in flight
  requests,
  behind,       \* history variable: how the last reload went wrong, if it did
  edited,       \* history variable: rows of the two edited since they were loaded
  born,         \* ids that were ever given to a row
  updated,      \* history variable: users some update touched
  contested     \* history variable: two setups were in flight at once

memory == <<http, key, active, usm, allow>>
tables == <<stored, users, communities, accounts>>
history == <<edited, born, updated, contested>>
consoleVars == <<memory, tables, session, slot, requests, behind, history>>

Level == {"authNoPriv", "authPriv"}
V3User == [level : Level, auth : Key, priv : Key \cup {None},
           known : SUBSET {"auth", "priv"}, enabled : BOOLEAN]
Idle == [at |-> "idle", left |-> {}, read |-> None, stale |-> "none", name |-> None]

\* A reload that did not happen or read too little, one that was written under.
Lapse == {"none", "failed", "overtaken"}

IsTable(T, I, R) == DOMAIN T \subseteq I /\ T \in [DOMAIN T -> R]

ConsoleTypeOK ==
  /\ http \in {"down", "up", "draining"} /\ key \in Key \cup {None}
  /\ stored \in [Setting -> Value] /\ active \in [FloodSetting -> Value] \cup {None}
  /\ IsTable(users, User, V3User)
  /\ IsTable(communities, Community, [key : Key, enabled : BOOLEAN])
  /\ usm \subseteq User /\ allow \subseteq Community
  /\ accounts \in Seq(Name) /\ session \in Key \cup {None}
  /\ slot \in [Slot -> [at : {"idle", "write", "configure", "setup"},
                        left : SUBSET (Setting \X Value),
                        read : [FloodSetting -> Value] \cup {None},
                        stale : Lapse, name : Name \cup {None}]]
  /\ requests \in 0..MaxRequests
  /\ behind \in Lapse /\ contested \in BOOLEAN
  /\ edited \subseteq User \cup Community /\ born \subseteq User \cup Community
  /\ updated \subseteq User

Flood(settings) == [k \in FloodSetting |-> settings[k]]

\* AllSettings, whose error is ignored: of what is stored only some may be read.
AllSettings(D) == [k \in FloodSetting |-> IF k \in D THEN stored[k] ELSE Default[k]]
LapseOf(D) == IF D = FloodSetting THEN "none" ELSE "failed"

InFlight == {s \in Slot : slot[s].at # "idle"}

\* Slots are alike: a request takes the next free one.
FreeSlot ==
  IF InFlight = Slot THEN None ELSE CHOOSE s \in Slot : slot[s] = Idle

\* A request reaches its handler.
Accept == http = "up" /\ requests < MaxRequests /\ requests' = requests + 1

\* auth.Manager.Middleware: sign-in is off, or the cookie bears the process's
\* signature.
AuthEnabled == stored[AuthSetting] # Off
Verified == session = key
Admitted == Accept /\ (AuthEnabled => Verified)

IssueCookie == session' = key

-----------------------------------------------------------------------------
(***************************************************************************)
(* Settings.                                                               *)
(***************************************************************************)

Saving(s) == slot[s].at \in {"write", "configure"}

UpdateSettings(s, kv) ==
  /\ Admitted
  /\ s = FreeSlot
  /\ slot' = [slot EXCEPT ![s].at = "write",
                          ![s].left = {<<k, kv[k]>> : k \in DOMAIN kv}]
  /\ UNCHANGED <<memory, tables, session, behind, history>>

\* Go's map order is any order.
SetSetting(s) ==
  /\ slot[s].at = "write" /\ slot[s].left # {}
  /\ \E p \in slot[s].left :
       /\ stored' = [stored EXCEPT ![p[1]] = p[2]]
       /\ slot' = [x \in Slot |->
            IF x = s THEN [slot[s] EXCEPT !.left = @ \ {p}]
            ELSE IF slot[x].at = "configure" /\ slot[x].stale = "none" /\ p[1] \in FloodSetting
              THEN [slot[x] EXCEPT !.stale = "overtaken"] ELSE slot[x]]
  /\ UNCHANGED <<memory, users, communities, accounts, session, requests, behind,
                 history>>

\* The database is busy for too long: the request ends without a reload.
SetSettingFails(s) ==
  /\ slot[s].at = "write" /\ slot[s].left # {}
  /\ slot' = [slot EXCEPT ![s] = Idle]
  /\ behind' = "failed"
  /\ UNCHANGED <<memory, tables, session, requests, history>>

\* Mutant: the settings are written and no reload follows.
ReloadFloodForgotten(s) ==
  /\ slot[s].at = "write" /\ slot[s].left = {}
  /\ slot' = [slot EXCEPT ![s] = Idle]
  /\ UNCHANGED <<memory, tables, session, requests, behind, history>>

ReloadFlood(s) ==
  /\ slot[s].at = "write" /\ slot[s].left = {}
  /\ \E D \in SUBSET FloodSetting :
       slot' = [slot EXCEPT ![s] = [@ EXCEPT
                  !.at = "configure", !.read = AllSettings(D), !.stale = LapseOf(D)]]
  /\ UNCHANGED <<memory, tables, session, requests, behind, history>>

ConfigureFlood(s) ==
  /\ slot[s].at = "configure"
  /\ active' = slot[s].read
  /\ behind' = slot[s].stale
  /\ slot' = [slot EXCEPT ![s] = Idle]
  /\ UNCHANGED <<http, key, usm, allow, tables, session, requests, history>>

-----------------------------------------------------------------------------
(***************************************************************************)
(* SNMPv3 users and communities.                                           *)
(***************************************************************************)

\* A user for which an auth password was given, as USMUser.Validate has it.
Valid(u) ==
  /\ "auth" \in u.known
  /\ u.level = "authPriv" => u.priv # None /\ "priv" \in u.known

Insert(T, i, row) == [x \in DOMAIN T \cup {i} |-> IF x = i THEN row ELSE T[x]]
Delete(T, i) == [x \in DOMAIN T \ {i} |-> T[x]]

\* A form becomes a row: the passwords are sealed, an empty one is kept out.
Sealed(f) == [level |-> f.level, auth |-> key, priv |-> IF f.priv THEN key ELSE None,
              known |-> f.known, enabled |-> f.enabled]

\* Over a row: a password left empty keeps the stored one.
SealedOver(row, f) == [Sealed(f) EXCEPT !.auth = IF f.auth THEN @ ELSE row.auth,
                                        !.priv = IF f.priv THEN @ ELSE row.priv]

\* Mutant: the form is sealed and stored as it came.
CreateV3UserUnchecked(u, f) ==
  /\ Admitted
  /\ u \notin born /\ f.auth
  /\ users' = Insert(users, u, Sealed(f))
  /\ born' = born \cup {u} /\ edited' = edited \cup {u}
  /\ UNCHANGED <<memory, stored, communities, accounts, session, slot, behind,
                 updated, contested>>

CreateV3User(u, f) ==
  /\ Admitted
  /\ u \notin born
  /\ f.auth /\ Valid(Sealed(f))
  /\ users' = Insert(users, u, Sealed(f))
  /\ born' = born \cup {u} /\ edited' = edited \cup {u}
  /\ UNCHANGED <<memory, stored, communities, accounts, session, slot, behind,
                 updated, contested>>

\* Mutant: a password left empty is stored as such.
UpdateV3UserEmptied(u, f) ==
  /\ Admitted
  /\ u \in DOMAIN users
  /\ users' = [users EXCEPT ![u] =
                 [Sealed(f) EXCEPT !.auth = IF f.auth THEN @ ELSE None]]
  /\ edited' = edited \cup {u} /\ updated' = updated \cup {u}
  /\ UNCHANGED <<memory, stored, communities, accounts, session, slot, behind, born,
                 contested>>

\* Of the form only the level is checked.
UpdateV3User(u, f) ==
  /\ Admitted
  /\ u \in DOMAIN users
  /\ users' = [users EXCEPT ![u] = SealedOver(users[u], f)]
  /\ edited' = edited \cup {u} /\ updated' = updated \cup {u}
  /\ UNCHANGED <<memory, stored, communities, accounts, session, slot, behind, born,
                 contested>>

DeleteV3User(u) ==
  /\ Admitted
  /\ u \in DOMAIN users
  /\ users' = Delete(users, u)
  /\ edited' = edited \ {u} /\ updated' = updated \ {u}
  /\ UNCHANGED <<memory, stored, communities, accounts, session, slot, behind, born,
                 contested>>

\* AddCommunity, sealed under the key k of the process that adds it.
InsertCommunity(c, k, enabled) ==
  /\ c \notin born
  /\ communities' = Insert(communities, c, [key |-> k, enabled |-> enabled])
  /\ born' = born \cup {c} /\ edited' = edited \cup {c}
  /\ UNCHANGED <<memory, stored, users, accounts, session, slot, behind, updated,
                 contested>>

CreateCommunity(c, enabled) == Admitted /\ InsertCommunity(c, key, enabled)

SetCommunityEnabled(c, enabled) ==
  /\ Admitted
  /\ c \in DOMAIN communities
  /\ communities' = [communities EXCEPT ![c].enabled = enabled]
  /\ edited' = edited \cup {c}
  /\ UNCHANGED <<memory, stored, users, accounts, session, slot, behind, born,
                 updated, contested>>

DeleteCommunity(c) ==
  /\ Admitted
  /\ c \in DOMAIN communities
  /\ communities' = Delete(communities, c)
  /\ edited' = edited \ {c}
  /\ UNCHANGED <<memory, stored, users, accounts, session, slot, behind, born,
                 updated, contested>>

\* The rows that are enabled, and what the master key k opens of them.
EnabledCommunities == {c \in DOMAIN communities : communities[c].enabled}
EnabledUsers == {u \in DOMAIN users : users[u].enabled}

Unseals(u, k) == u.auth = k /\ u.priv \in {None, k}

UnsealedCommunities(k) == {c \in EnabledCommunities : communities[c].key = k}
UnsealedUsers(k) == {u \in EnabledUsers : Unseals(users[u], k)}

\* buildUSMTable takes the valid ones of those it is given.
USMTable(loaded) == {u \in loaded : Valid(users[u])}

-----------------------------------------------------------------------------
(***************************************************************************)
(* The account and the session.                                            *)
(***************************************************************************)

\* There may be several rows; the lowest id is the account.
IsConfigured == accounts # <<>>
GetAdmin == Head(accounts)

\* Mutant: an account in place does not end the set-up.
SetupAgain(s, n) ==
  /\ Accept
  /\ s = FreeSlot
  /\ slot' = [slot EXCEPT ![s].at = "setup", ![s].name = n]
  /\ contested' = (contested \/ \E x \in Slot : slot[x].at = "setup")
  /\ UNCHANGED <<memory, tables, session, behind, edited, born, updated>>

\* Setup sees no account, and hashes the password.
Setup(s, n) ==
  /\ Accept
  /\ s = FreeSlot
  /\ ~IsConfigured
  /\ slot' = [slot EXCEPT ![s].at = "setup", ![s].name = n]
  /\ contested' = (contested \/ \E x \in Slot : slot[x].at = "setup")
  /\ UNCHANGED <<memory, tables, session, behind, edited, born, updated>>

\* Two accounts of one name the schema refuses.
CreateAdmin(s) ==
  LET n == slot[s].name IN
  /\ slot[s].at = "setup"
  /\ slot' = [slot EXCEPT ![s] = Idle]
  /\ IF \E i \in DOMAIN accounts : accounts[i] = n
     THEN UNCHANGED <<accounts, session>>
     ELSE accounts' = Append(accounts, n) /\ IssueCookie
  /\ UNCHANGED <<memory, stored, users, communities, requests, behind, history>>

\* Authenticate lets only that account in.
Login(n) ==
  /\ Accept
  /\ IsConfigured /\ n = GetAdmin
  /\ IssueCookie
  /\ UNCHANGED <<memory, tables, slot, behind, history>>

\* Logout, or the day of the cookie is over.
EndSession ==
  /\ session # None /\ session' = None
  /\ UNCHANGED <<memory, tables, slot, requests, behind, history>>

-----------------------------------------------------------------------------

ConsoleRequest ==
  \/ \E s \in Slot :
       \/ \E kv \in Saves : UpdateSettings(s, kv)
       \/ SetSetting(s) \/ SetSettingFails(s) \/ ReloadFlood(s) \/ ConfigureFlood(s)
       \/ \E n \in Name : Setup(s, n)
       \/ CreateAdmin(s)
  \/ \E u \in User : DeleteV3User(u) \/ \E f \in Form : CreateV3User(u, f) \/ UpdateV3User(u, f)
  \/ \E c \in Community :
       DeleteCommunity(c)
       \/ \E e \in BOOLEAN : CreateCommunity(c, e) \/ SetCommunityEnabled(c, e)
  \/ \E n \in Name : Login(n)
  \/ EndSession

-----------------------------------------------------------------------------

\* cmd/holonet/main.go ReloadFlood reads the settings and configures in two
\* steps, and updateSettings writes key by key.  With no save in flight the
\* flood controller runs on the stored settings, unless the last save failed
\* half-way, could not read them or was written under while it reloaded.
Saved == \A s \in Slot : ~Saving(s)
ConfigInForce == http = "up" /\ behind = "none" /\ Saved => active = Flood(stored)

\* README.md:370 "Flood-control changes apply immediately": when no save is in
\* flight and none has failed, the flood controller runs on the stored settings.
ChangesApply == http = "up" /\ behind # "failed" /\ Saved => active = Flood(stored)

\* internal/store/crud.go:343 "returns the single admin account": the schema
\* does not say so, and only set-ups that overlap leave more than one.
OneAccountUnlessContested == Len(accounts) > 1 => contested

\* README.md:381 "The setup wizard creates the single admin account".
OneAccount == Len(accounts) <= 1
=============================================================================
