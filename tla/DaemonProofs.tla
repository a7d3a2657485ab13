---------------------------- MODULE DaemonProofs ----------------------------
(***************************************************************************)
(* Proofs about Migrate, Console and Daemon for any number of migrations,  *)
(* settings, users, communities, keys, requests in flight and starts.      *)
(***************************************************************************)
EXTENDS Daemon, TLAPS

USE DEF vars, storeVars, consoleVars, daemonVars, memory, tables, history

-----------------------------------------------------------------------------
(***************************************************************************)
(* Steps, by what they touch.                                              *)
(***************************************************************************)

\* What a step may do to the file: one of the four operations of Migrate.
StoreStep ==
  \E p \in Process :
    OpenStore(p) \/ CheckMigration(p) \/ ApplyMigration(p) \/ CloseStore(p)

\* Every step is one of a process on the file, or leaves it alone.
LEMMA StoreSteps == ASSUME [Next]_vars PROVE StoreStep \/ UNCHANGED storeVars
<1> USE ProcessAssumption DEF StoreStep
<1>1. ASSUME NEW k \in Key, Start(k) PROVE StoreStep
  BY <1>1 DEF Start
<1>2. CASE Migrating
  BY <1>2 DEF Migrating
<1>3. CASE Exit \/ Crash
  BY <1>3 DEF Exit, Crash, Die
<1>4. CASE RunCommand
  BY <1>4 DEF RunCommand
<1>5. ASSUME Opened \/ LoadCommunities \/ LoadSettings \/ LoadUsers \/ HttpFails
      PROVE UNCHANGED storeVars
  BY <1>5 DEF Opened, LoadCommunities, LoadSettings, LoadUsers, HttpFails
<1>6. ASSUME Bind \/ BindPanics \/ ListenerFails \/ Panic \/ Rebuild \/ SinkStops
      PROVE UNCHANGED storeVars
  BY <1>6 DEF Bind, BindPanics, ListenerFails, Panic, Rebuild, SinkStops, Sink
<1>7. ASSUME Stop \/ SinkReturns \/ BeginShutdown \/ EndShutdown \/ Return \/ Tick
      PROVE UNCHANGED storeVars
  BY <1>7 DEF Stop, SinkReturns, BeginShutdown, EndShutdown, Return, Tick
<1>8. CASE Serve
  BY <1>8 DEF Serve
<1> QED
  BY <1>1, <1>2, <1>3, <1>4, <1>5, <1>6, <1>7, <1>8 DEF Next

-----------------------------------------------------------------------------
(***************************************************************************)
(* The migrations.                                                         *)
(***************************************************************************)

\* What the processes know of the record: a migration about to be applied was
\* the first one missing when it was looked up, and another process recorded it
\* since only while this one was opening the file.
MigrateInv ==
  /\ MigrateTypeOK
  /\ MigratedOnceInOrder /\ OpenFailsOnlyWhenOvertaken
  /\ Len(effects) <= Last
  /\ \A p \in Process : opener[p].at = "apply" =>
       /\ opener[p].next <= Len(effects) + 1
       /\ opener[p].next \in applied => opener[p].overtaken

\* It holds from the start, for a new database and for one that is up to date.
LEMMA MigrateInvInit == ASSUME MigrateInit PROVE MigrateInv
<1> USE LastAssumption
<1>1. PICK n \in {0, Last} : applied = 1..n /\ effects = [i \in 1..n |-> i]
  BY DEF MigrateInit
<1>2. n \in Nat /\ effects \in Seq(1..Last) /\ Len(effects) = n
  BY <1>1
<1>3. Closed \in [at : {"closed", "check", "apply", "open", "failed"},
                  next : 1 .. Last, overtaken : BOOLEAN]
  BY DEF Closed, At
<1>4. \A p \in Process : opener[p] = Closed
  BY DEF MigrateInit
<1>5. MigrateTypeOK
  BY <1>1, <1>2, <1>3 DEF MigrateInit, MigrateTypeOK
<1> QED
  BY <1>1, <1>2, <1>4, <1>5
  DEF MigrateInv, MigratedOnceInOrder, OpenFailsOnlyWhenOvertaken, Closed, At

\* Every operation of a process on the file preserves it.
LEMMA MigrateInvStep == ASSUME MigrateInv, StoreStep PROVE MigrateInv'
<1> USE LastAssumption
<1> DEFINE Openers == [at : {"closed", "check", "apply", "open", "failed"},
                       next : 1 .. Last, overtaken : BOOLEAN]
<1>1. PICK p \in Process :
        OpenStore(p) \/ CheckMigration(p) \/ ApplyMigration(p) \/ CloseStore(p)
  BY DEF StoreStep
<1>2. /\ applied \subseteq 1..Last /\ effects \in Seq(1..Last)
      /\ opener \in [Process -> Openers]
      /\ Len(effects) \in Nat
  BY DEF MigrateInv, MigrateTypeOK
<1>3. Closed \in Openers
  BY DEF Closed, At
<1>4. applied = 1 .. Len(effects) /\ effects = [i \in 1 .. Len(effects) |-> i]
  BY DEF MigrateInv, MigratedOnceInOrder
<1>5. \A q \in Process :
        /\ opener[q].at = "open" => Len(effects) = Last
        /\ opener[q].at = "failed" => opener[q].overtaken
        /\ opener[q].at = "apply" => /\ opener[q].next <= Len(effects) + 1
                                     /\ opener[q].next \in applied => opener[q].overtaken
  BY DEF MigrateInv, MigratedOnceInOrder, OpenFailsOnlyWhenOvertaken
<1>6. CASE OpenStore(p)
  <2>1. UNCHANGED <<applied, effects>>
    BY <1>6 DEF OpenStore
  <2>2. opener' \in [Process -> Openers]
    BY <1>2, <1>6 DEF OpenStore
  <2>3. \A q \in Process : opener'[q].at = "check" \/ opener'[q] = opener[q]
    BY <1>2, <1>6 DEF OpenStore
  <2> QED
    BY <1>2, <1>4, <1>5, <2>1, <2>2, <2>3
    DEF MigrateInv, MigrateTypeOK, MigratedOnceInOrder, OpenFailsOnlyWhenOvertaken
<1>7. CASE CheckMigration(p)
  <2>1. UNCHANGED <<applied, effects>>
    BY <1>7 DEF CheckMigration
  <2> DEFINE n == CHOOSE i \in 1..Last \ applied : 1..(i - 1) \subseteq applied
  <2>2. ASSUME ~(1..Last \subseteq applied)
        PROVE  n \in 1..Last /\ n = Len(effects) + 1
    <3>1. Len(effects) < Last
      BY <1>2, <1>4, <2>2
    <3>2. Len(effects) + 1 \in 1..Last \ applied /\ 1..((Len(effects) + 1) - 1) \subseteq applied
      BY <1>2, <1>4, <3>1
    <3>3. n \in 1..Last \ applied /\ 1..(n - 1) \subseteq applied
      BY <3>2
    <3>4. n > Len(effects)
      BY <1>2, <1>4, <3>3
    <3>5. ~ n > Len(effects) + 1
      <4> SUFFICES ASSUME n > Len(effects) + 1 PROVE FALSE
        OBVIOUS
      <4>1. Len(effects) + 1 \in 1..(n - 1)
        BY <1>2, <3>3
      <4> QED
        BY <1>2, <1>4, <3>3, <4>1
    <3> QED
      BY <1>2, <3>3, <3>4, <3>5
  <2>3. CASE 1..Last \subseteq applied
    <3>1. Len(effects) = Last
      <4>1. Last \in 1 .. Len(effects) /\ Len(effects) <= Last
        BY <1>4, <2>3 DEF MigrateInv
      <4> QED
        BY <1>2, <4>1
    <3>2. opener' = [opener EXCEPT ![p] = At("open")]
      BY <1>7, <2>3 DEF CheckMigration
    <3>3. At("open") \in Openers
      BY DEF At
    <3>4. opener' \in [Process -> Openers]
      BY <1>2, <3>2, <3>3
    <3>5. \A q \in Process : opener'[q].at = "open" \/ opener'[q] = opener[q]
      BY <1>2, <3>2 DEF Closed, At
    <3> QED
      BY <1>2, <1>4, <1>5, <2>1, <3>1, <3>4, <3>5
      DEF MigrateInv, MigrateTypeOK, MigratedOnceInOrder, OpenFailsOnlyWhenOvertaken
  <2>4. CASE ~(1..Last \subseteq applied)
    <3>1. opener' = [opener EXCEPT ![p] = [@ EXCEPT !.at = "apply", !.next = n]]
      BY <1>7, <2>4 DEF CheckMigration
    <3>2. n \in 1..Last /\ n = Len(effects) + 1
      BY <2>2, <2>4
    <3> HIDE DEF n
    <3>3. opener' \in [Process -> Openers]
      BY <1>2, <3>1, <3>2
    <3>4. \A q \in Process \ {p} : opener'[q] = opener[q]
      BY <1>2, <3>1
    <3>5. opener'[p].at = "apply" /\ opener'[p].next = Len(effects) + 1
      BY <1>2, <3>1, <3>2
    <3>6. Len(effects) + 1 \notin applied
      BY <1>2, <1>4
    <3>7. \A q \in Process :
            /\ opener'[q].at = "open" => Len(effects) = Last
            /\ opener'[q].at = "failed" => opener'[q].overtaken
            /\ opener'[q].at = "apply" =>
                 /\ opener'[q].next <= Len(effects) + 1
                 /\ opener'[q].next \in applied => opener'[q].overtaken
      BY <1>2, <1>5, <3>4, <3>5, <3>6
    <3> QED
      BY <1>2, <1>4, <2>1, <3>3, <3>7
      DEF MigrateInv, MigrateTypeOK, MigratedOnceInOrder, OpenFailsOnlyWhenOvertaken
  <2> QED
    BY <2>3, <2>4
<1>8. CASE ApplyMigration(p)
  <2> DEFINE n == opener[p].next
  <2>1. n \in 1..Last /\ n <= Len(effects) + 1 /\ opener[p].at = "apply"
    BY <1>2, <1>5, <1>8 DEF ApplyMigration
  <2>2. CASE n \notin applied
    <3>1. effects' = Append(effects, n) /\ applied' = applied \cup {n} /\ opener' = Applied(p)
      BY <1>8, <2>2 DEF ApplyMigration
    <3>2. n = Len(effects) + 1
      BY <1>2, <1>4, <2>1, <2>2
    <3>3. /\ effects' \in Seq(1..Last) /\ Len(effects') = Len(effects) + 1
          /\ effects' = [i \in 1 .. Len(effects') |-> i]
      BY <1>2, <1>4, <2>1, <3>1, <3>2
    <3>4. applied' = 1 .. Len(effects') /\ applied' \subseteq 1..Last
      BY <1>2, <1>4, <2>1, <3>1, <3>2, <3>3
    <3>5. \A q \in Process :
            opener'[q] = IF q = p THEN [opener[p] EXCEPT !.at = "check", !.next = 1]
                         ELSE [opener[q] EXCEPT !.overtaken = @ \/ Opening(q)]
      BY <3>1 DEF Applied
    <3>6. opener' \in [Process -> Openers]
      <4>1. [opener[p] EXCEPT !.at = "check", !.next = 1] \in Openers
        <5>1. opener[p] \in Openers /\ 1 \in 1..Last
          BY <1>2
        <5> QED
          BY <5>1
      <4>2. \A q \in Process : [opener[q] EXCEPT !.overtaken = @ \/ Opening(q)] \in Openers
        BY <1>2 DEF Opening
      <4> QED
        BY <3>1, <4>1, <4>2 DEF Applied
    <3>7. opener'[p].at = "check"
      BY <1>2, <3>5
    <3>8. \A q \in Process \ {p} :
            /\ opener'[q].at = opener[q].at /\ opener'[q].next = opener[q].next
            /\ opener[q].overtaken => opener'[q].overtaken
            /\ opener[q].at = "apply" => opener'[q].overtaken
      BY <1>2, <3>5 DEF Opening
    <3>9. \A q \in Process : opener[q].at # "open"
      <4>1. Len(effects) # Last
        BY <1>2, <2>1, <3>2
      <4> QED
        BY <1>5, <4>1
    <3>10. \A q \in Process :
             /\ opener'[q].at # "open"
             /\ opener'[q].at = "failed" => opener'[q].overtaken
             /\ opener'[q].at = "apply" =>
                  /\ opener'[q].next <= Len(effects') + 1
                  /\ opener'[q].overtaken
      <4>1. \A q \in Process \ {p} : opener[q].at = "apply" => opener[q].next <= Len(effects) + 2
        BY <1>2, <1>5
      <4> QED
        BY <1>2, <1>5, <3>3, <3>7, <3>8, <3>9, <4>1
    <3>11. Len(effects') <= Last
      BY <2>1, <3>2, <3>3
    <3> QED
      BY <3>3, <3>4, <3>6, <3>10, <3>11
      DEF MigrateInv, MigrateTypeOK, MigratedOnceInOrder, OpenFailsOnlyWhenOvertaken
  <2>3. CASE n \in applied
    <3>1. opener' = [opener EXCEPT ![p].at = "failed"] /\ UNCHANGED <<applied, effects>>
      BY <1>8, <2>3 DEF ApplyMigration
    <3>2. opener' \in [Process -> Openers]
      BY <1>2, <3>1
    <3>3. opener'[p].at = "failed" /\ opener'[p].overtaken
      BY <1>2, <1>5, <2>1, <2>3, <3>1
    <3>4. \A q \in Process \ {p} : opener'[q] = opener[q]
      BY <1>2, <3>1
    <3> QED
      BY <1>2, <1>4, <1>5, <3>1, <3>2, <3>3, <3>4
      DEF MigrateInv, MigrateTypeOK, MigratedOnceInOrder, OpenFailsOnlyWhenOvertaken
  <2> QED
    BY <2>2, <2>3
<1>9. CASE CloseStore(p)
  <2>1. opener' = [opener EXCEPT ![p] = Closed] /\ UNCHANGED <<applied, effects>>
    BY <1>9 DEF CloseStore
  <2>2. opener' \in [Process -> Openers]
    BY <1>2, <1>3, <2>1
  <2>3. \A q \in Process : opener'[q].at = "closed" \/ opener'[q] = opener[q]
    BY <1>2, <2>1 DEF Closed, At
  <2> QED
    BY <1>2, <1>4, <1>5, <2>1, <2>2, <2>3
    DEF MigrateInv, MigrateTypeOK, MigratedOnceInOrder, OpenFailsOnlyWhenOvertaken
<1> QED
  BY <1>1, <1>6, <1>7, <1>8, <1>9

\* No behaviour of the daemon and the commands leaves it.
LEMMA MigrateInvAlways == Spec => []MigrateInv
<1>1. Init => MigrateInv
  BY MigrateInvInit DEF Init
<1>2. MigrateInv /\ [Next]_vars => MigrateInv'
  <2> SUFFICES ASSUME MigrateInv, [Next]_vars PROVE MigrateInv'
    OBVIOUS
  <2>1. CASE StoreStep
    BY <2>1, MigrateInvStep
  <2>2. CASE UNCHANGED storeVars
    BY <2>2 DEF MigrateInv, MigrateTypeOK, MigratedOnceInOrder, OpenFailsOnlyWhenOvertaken
  <2> QED
    BY <2>1, <2>2, StoreSteps
<1> QED
  BY <1>1, <1>2, PTL DEF Spec

\* internal/store/store.go migrate: each migration takes effect once, in order,
\* and all of them before the store is open, however the processes interleave
\* and wherever they are killed.
THEOREM DaemonMigratedOnceInOrder == Spec => []MigratedOnceInOrder
<1>1. MigrateInv => MigratedOnceInOrder
  BY DEF MigrateInv
<1> QED
  BY <1>1, MigrateInvAlways, PTL

\* internal/store/store.go Open: it fails only for a process that another one
\* overtook.
THEOREM DaemonOpenFailsOnlyWhenOvertaken == Spec => []OpenFailsOnlyWhenOvertaken
<1>1. MigrateInv => OpenFailsOnlyWhenOvertaken
  BY DEF MigrateInv
<1> QED
  BY <1>1, MigrateInvAlways, PTL

-----------------------------------------------------------------------------
(***************************************************************************)
(* Types.                                                                  *)
(***************************************************************************)

\* The requests, one by one.
LEMMA Requests ==
  ASSUME ConsoleRequest
  PROVE  \/ \E s \in Slot :
              \/ \E kv \in Saves : UpdateSettings(s, kv)
              \/ SetSetting(s) \/ SetSettingFails(s) \/ ReloadFlood(s) \/ ConfigureFlood(s)
              \/ \E n \in Name : Setup(s, n)
              \/ CreateAdmin(s)
         \/ \E u \in User : \/ DeleteV3User(u)
                            \/ \E f \in Form : CreateV3User(u, f) \/ UpdateV3User(u, f)
         \/ \E c \in Community :
              \/ DeleteCommunity(c)
              \/ \E e \in BOOLEAN : CreateCommunity(c, e) \/ SetCommunityEnabled(c, e)
         \/ \E n \in Name : Login(n)
         \/ EndSession
BY DEF ConsoleRequest

\* While requests are served, and as long as the process runs, it has a key.
Keyed == (http = "up" => key \in Key) /\ (phase # "off" => key \in Key)

\* A slot is reset as a whole, and a set-up has a name.
SlotsShaped ==
  \A s \in Slot : /\ slot[s].at = "idle" => slot[s] = Idle
                  /\ slot[s].at = "setup" => slot[s].name \in Name

\* No request changes what the listener accepts, or ends the server.
LEMMA RequestKeeps == ASSUME ConsoleRequest PROVE UNCHANGED <<http, key, usm, allow>>
BY Requests DEF UpdateSettings, SetSetting, SetSettingFails, ReloadFlood, ConfigureFlood,
   Setup, CreateAdmin, DeleteV3User, CreateV3User, UpdateV3User, DeleteCommunity,
   CreateCommunity, InsertCommunity, SetCommunityEnabled, Login, EndSession

\* A slot stays one when what is left to write changes, or a reload is overtaken.
LEMMA SlotEdits ==
  ASSUME NEW Points, NEW Left, NEW Read, NEW Names,
         NEW r \in [at : Points, left : Left, read : Read, stale : Lapse, name : Names]
  PROVE  /\ \A k \in Lapse : [r EXCEPT !.stale = k]
              \in [at : Points, left : Left, read : Read, stale : Lapse, name : Names]
         /\ \A l \in Left : [r EXCEPT !.left = l]
              \in [at : Points, left : Left, read : Read, stale : Lapse, name : Names]
OBVIOUS

\* What is read of the settings is a value for each of the controller's.
LEMMA SettingsRead ==
  ASSUME ConsoleTypeOK
  PROVE  \A D \in SUBSET FloodSetting :
           AllSettings(D) \in [FloodSetting -> Value] /\ LapseOf(D) \in Lapse
BY SettingAssumption DEF ConsoleTypeOK, AllSettings, LapseOf, Lapse, Setting

\* Nothing went wrong only when all of them were read.
LEMMA ReadInFull ==
  ASSUME NEW D, LapseOf(D) = "none" PROVE AllSettings(D) = Flood(stored)
BY DEF LapseOf, AllSettings, Flood

\* The variables of the console keep their types under its requests.
LEMMA RequestTypes ==
  ASSUME ConsoleTypeOK, Keyed, SlotsShaped, ConsoleRequest
  PROVE  ConsoleTypeOK'
<1> USE SettingAssumption, FormAssumption, IdAssumption, RequestBound
<1> USE DEF Lapse
<1> DEFINE SlotRec == [at : {"idle", "write", "configure", "setup"},
                       left : SUBSET (Setting \X Value),
                       read : [FloodSetting -> Value] \cup {None},
                       stale : Lapse, name : Name \cup {None}]
<1> USE DEF ConsoleTypeOK
<1>0. slot \in [Slot -> SlotRec]
  OBVIOUS
<1>1. Idle \in SlotRec
  BY DEF Idle
<1>2. \A D \in SUBSET FloodSetting :
        AllSettings(D) \in [FloodSetting -> Value] /\ LapseOf(D) \in Lapse
  BY SettingsRead
<1>3. ASSUME Accept PROVE requests' \in 0..MaxRequests /\ http = "up" /\ key \in Key
  BY <1>3 DEF Accept, Keyed
<1>4. ASSUME NEW s \in Slot, NEW kv \in Saves, UpdateSettings(s, kv) PROVE ConsoleTypeOK'
  <2>1. PICK D \in SUBSET Setting : kv \in [D -> Value]
    OBVIOUS
  <2>2. {<<k, kv[k]>> : k \in DOMAIN kv} \in SUBSET (Setting \X Value)
    BY <2>1
  <2> DEFINE X == {<<k, kv[k]>> : k \in DOMAIN kv}
  <2>3. slot' = [slot EXCEPT ![s] = [slot[s] EXCEPT !.at = "write", !.left = X]]
    BY <1>4 DEF UpdateSettings
  <2> HIDE DEF X
  <2>4. slot[s] \in SlotRec
    OBVIOUS
  <2>5. slot' \in [Slot -> SlotRec]
    BY <2>2, <2>3, <2>4 DEF X
  <2> QED
    BY <1>3, <1>4, <2>5 DEF UpdateSettings, Admitted
<1>5. ASSUME NEW s \in Slot, SetSetting(s) PROVE ConsoleTypeOK'
  <2>1. PICK q \in slot[s].left :
          /\ stored' = [stored EXCEPT ![q[1]] = q[2]]
          /\ slot' = [x \in Slot |->
               IF x = s THEN [slot[s] EXCEPT !.left = @ \ {q}]
               ELSE IF slot[x].at = "configure" /\ slot[x].stale = "none" /\ q[1] \in FloodSetting
                 THEN [slot[x] EXCEPT !.stale = "overtaken"] ELSE slot[x]]
    BY <1>5 DEF SetSetting
  <2>2. q \in Setting \X Value /\ slot[s].left \in SUBSET (Setting \X Value)
    OBVIOUS
  <2>3. stored' \in [Setting -> Value]
    BY <2>1, <2>2
  <2>4. slot[s].left \ {q} \in SUBSET (Setting \X Value)
    BY <2>2
  <2>5. [slot[s] EXCEPT !.left = @ \ {q}] \in SlotRec
    <3>1. slot[s] \in SlotRec
      OBVIOUS
    <3>2. [slot[s] EXCEPT !.left = slot[s].left \ {q}] \in SlotRec
      BY ONLY <2>4, <3>1, SlotEdits
    <3> QED
      BY ONLY <3>2
  <2>6. ASSUME NEW x \in Slot
        PROVE  slot[x] \in SlotRec /\ [slot[x] EXCEPT !.stale = "overtaken"] \in SlotRec
    <3>1. slot[x] \in SlotRec
      BY ONLY <1>0, <2>6
    <3> QED
      BY ONLY <3>1, SlotEdits DEF Lapse
  <2>7. slot' \in [Slot -> SlotRec]
    <3> HIDE DEF SlotRec, ConsoleTypeOK
    <3> QED
      BY ONLY <2>1, <2>5, <2>6
  <2> QED
    BY <1>5, <2>3, <2>7 DEF SetSetting
<1>6. ASSUME NEW s \in Slot, SetSettingFails(s) PROVE ConsoleTypeOK'
  BY <1>1, <1>6 DEF SetSettingFails
<1>7. ASSUME NEW s \in Slot, ReloadFlood(s) PROVE ConsoleTypeOK'
  <2>1. slot' \in [Slot -> SlotRec]
    <3>1. PICK D \in SUBSET FloodSetting :
            slot' = [slot EXCEPT ![s] = [slot[s] EXCEPT
                       !.at = "configure", !.read = AllSettings(D), !.stale = LapseOf(D)]]
      BY <1>7 DEF ReloadFlood
    <3>2. slot[s] \in SlotRec
      OBVIOUS
    <3> HIDE DEF ConsoleTypeOK
    <3> QED
      BY <1>0, <1>2, <3>1, <3>2
  <2> QED
    BY <1>7, <2>1 DEF ReloadFlood
<1>8. ASSUME NEW s \in Slot, ConfigureFlood(s) PROVE ConsoleTypeOK'
  BY <1>1, <1>8 DEF ConfigureFlood
<1>9. ASSUME NEW s \in Slot, NEW n \in Name, Setup(s, n) PROVE ConsoleTypeOK'
  <2>1. slot' \in [Slot -> SlotRec]
    <3>1. slot' = [slot EXCEPT ![s] = [slot[s] EXCEPT !.at = "setup", !.name = n]]
      BY <1>9 DEF Setup
    <3>2. slot[s] \in SlotRec
      OBVIOUS
    <3> HIDE DEF ConsoleTypeOK
    <3> QED
      BY <1>0, <3>1, <3>2
  <2> QED
    BY <1>3, <1>9, <2>1 DEF Setup
<1>10. ASSUME NEW s \in Slot, CreateAdmin(s) PROVE ConsoleTypeOK'
  <2>1. slot' \in [Slot -> SlotRec]
    BY <1>1, <1>10 DEF CreateAdmin
  <2> QED
    <3>1. Append(accounts, slot[s].name) \in Seq(Name)
      BY <1>10 DEF CreateAdmin, SlotsShaped
    <3> QED
      BY <1>10, <2>1, <3>1 DEF CreateAdmin, IssueCookie
<1>11. ASSUME NEW u \in User, DeleteV3User(u) PROVE ConsoleTypeOK'
  <2>1. IsTable(users', User, V3User)
    BY <1>11 DEF DeleteV3User, IsTable, Delete
  <2> QED
    BY <1>3, <1>11, <2>1 DEF DeleteV3User, Admitted
<1>12. ASSUME NEW f \in Form, key \in Key PROVE Sealed(f) \in V3User
  BY <1>12 DEF Sealed, V3User, Level
<1>13. ASSUME NEW u \in User, NEW f \in Form, CreateV3User(u, f) PROVE ConsoleTypeOK'
  <2>1. key \in Key /\ requests' \in 0..MaxRequests
    BY <1>3, <1>13 DEF CreateV3User, Admitted
  <2>2. IsTable(users', User, V3User)
    BY <1>12, <1>13, <2>1 DEF CreateV3User, IsTable, Insert
  <2> QED
    BY <1>13, <2>1, <2>2 DEF CreateV3User
<1>14. ASSUME NEW u \in User, NEW f \in Form, UpdateV3User(u, f) PROVE ConsoleTypeOK'
  <2>1. key \in Key /\ requests' \in 0..MaxRequests
    BY <1>3, <1>14 DEF UpdateV3User, Admitted
  <2>2. users[u] \in V3User /\ u \in DOMAIN users
    BY <1>14 DEF UpdateV3User, IsTable
  <2>3. SealedOver(users[u], f) \in V3User
    BY <1>12, <2>1, <2>2 DEF SealedOver, V3User
  <2>4. IsTable(users', User, V3User)
    BY <1>14, <2>2, <2>3 DEF UpdateV3User, IsTable
  <2> QED
    BY <1>14, <2>1, <2>4 DEF UpdateV3User
<1>15. ASSUME NEW c \in Community, DeleteCommunity(c) PROVE ConsoleTypeOK'
  <2>1. IsTable(communities', Community, [key : Key, enabled : BOOLEAN])
    BY <1>15 DEF DeleteCommunity, IsTable, Delete
  <2> QED
    BY <1>3, <1>15, <2>1 DEF DeleteCommunity, Admitted
<1>16. ASSUME NEW c \in Community, NEW e \in BOOLEAN, CreateCommunity(c, e) PROVE ConsoleTypeOK'
  <2>1. key \in Key /\ requests' \in 0..MaxRequests
    BY <1>3, <1>16 DEF CreateCommunity, Admitted
  <2>2. IsTable(communities', Community, [key : Key, enabled : BOOLEAN])
    BY <1>16, <2>1 DEF CreateCommunity, InsertCommunity, IsTable, Insert
  <2> QED
    BY <1>16, <2>1, <2>2 DEF CreateCommunity, InsertCommunity
<1>17. ASSUME NEW c \in Community, NEW e \in BOOLEAN, SetCommunityEnabled(c, e)
       PROVE ConsoleTypeOK'
  <2>1. IsTable(communities', Community, [key : Key, enabled : BOOLEAN])
    BY <1>17 DEF SetCommunityEnabled, IsTable
  <2> QED
    BY <1>3, <1>17, <2>1 DEF SetCommunityEnabled, Admitted
<1>18. ASSUME NEW n \in Name, Login(n) PROVE ConsoleTypeOK'
  BY <1>3, <1>18 DEF Login, IssueCookie
<1>19. CASE EndSession
  BY <1>19 DEF EndSession
<1> HIDE DEF ConsoleTypeOK
<1> QED
  BY Requests, <1>4, <1>5, <1>6, <1>7, <1>8, <1>9, <1>10, <1>11, <1>13, <1>14, <1>15,
     <1>16, <1>17, <1>18, <1>19

\* What a request may do to the slots: leave them alone, take a free one, free
\* one, move one on, or have the others overtaken.
LEMMA RequestSlots ==
  ASSUME ConsoleTypeOK, SlotsShaped, ConsoleRequest
  PROVE  SlotsShaped'
<1> USE IdAssumption
<1> DEFINE Ok(r) == (r.at = "idle" => r = Idle) /\ (r.at = "setup" => r.name \in Name)
<1>1. slot = [x \in Slot |-> slot[x]] /\ \A x \in Slot : Ok(slot[x])
  BY DEF ConsoleTypeOK, SlotsShaped
<1>2. \A s \in Slot : slot[s] = [at |-> slot[s].at, left |-> slot[s].left,
        read |-> slot[s].read, stale |-> slot[s].stale, name |-> slot[s].name]
  BY DEF ConsoleTypeOK
<1>3. ASSUME NEW s \in Slot, NEW kv \in Saves, UpdateSettings(s, kv) PROVE SlotsShaped'
  <2>1. \E X : slot' = [slot EXCEPT ![s] = [slot[s] EXCEPT !.at = "write", !.left = X]]
    BY <1>3 DEF UpdateSettings
  <2>2. slot'[s].at = "write" /\ \A x \in Slot \ {s} : slot'[x] = slot[x]
    BY <1>1, <1>2, <2>1
  <2> QED
    BY <1>1, <2>2 DEF SlotsShaped
<1>4. ASSUME NEW s \in Slot, SetSetting(s) PROVE SlotsShaped'
  <2>1. PICK q \in slot[s].left :
          slot' = [x \in Slot |->
               IF x = s THEN [slot[s] EXCEPT !.left = @ \ {q}]
               ELSE IF slot[x].at = "configure" /\ slot[x].stale = "none" /\ q[1] \in FloodSetting
                 THEN [slot[x] EXCEPT !.stale = "overtaken"] ELSE slot[x]]
    BY <1>4 DEF SetSetting
  <2>2. slot[s].at = "write"
    BY <1>4 DEF SetSetting
  <2>3. [slot[s] EXCEPT !.left = @ \ {q}].at = "write"
    BY <1>2, <2>2
  <2>4. \A x \in Slot : [slot[x] EXCEPT !.stale = "overtaken"].at = slot[x].at
    BY <1>2
  <2>5. \A x \in Slot : slot'[x].at = slot[x].at
    BY <2>1, <2>2, <2>3, <2>4
  <2>6. \A x \in Slot : slot[x].at \in {"idle", "setup"} => slot'[x] = slot[x]
    BY <2>1, <2>2
  <2> QED
    BY <1>1, <2>5, <2>6 DEF SlotsShaped
<1>5. ASSUME NEW s \in Slot, SetSettingFails(s) \/ ConfigureFlood(s) \/ CreateAdmin(s)
      PROVE  SlotsShaped'
  <2>1. slot' = [slot EXCEPT ![s] = Idle]
    BY <1>5 DEF SetSettingFails, ConfigureFlood, CreateAdmin
  <2> QED
    BY <1>1, <2>1 DEF SlotsShaped, Idle
<1>6. ASSUME NEW s \in Slot, ReloadFlood(s) PROVE SlotsShaped'
  <2>1. PICK D \in SUBSET FloodSetting :
          slot' = [slot EXCEPT ![s] = [slot[s] EXCEPT
                     !.at = "configure", !.read = AllSettings(D), !.stale = LapseOf(D)]]
    BY <1>6 DEF ReloadFlood
  <2>2. /\ slot'[s] = [slot[s] EXCEPT
                         !.at = "configure", !.read = AllSettings(D), !.stale = LapseOf(D)]
        /\ \A x \in Slot \ {s} : slot'[x] = slot[x]
    BY <1>1, <2>1
  <2>3. {"at", "read", "stale"} \subseteq DOMAIN slot[s]
    BY DEF ConsoleTypeOK
  <2>4. slot'[s].at = "configure"
    BY <2>2, <2>3
  <2> QED
    BY <1>1, <2>2, <2>4 DEF SlotsShaped
<1>7. ASSUME NEW s \in Slot, NEW n \in Name, Setup(s, n) PROVE SlotsShaped'
  <2>1. slot' = [slot EXCEPT ![s] = [slot[s] EXCEPT !.at = "setup", !.name = n]]
    BY <1>7 DEF Setup
  <2>2. /\ slot'[s] = [slot[s] EXCEPT !.at = "setup", !.name = n]
        /\ \A x \in Slot \ {s} : slot'[x] = slot[x]
    BY <1>1, <2>1
  <2>3. {"at", "name"} \subseteq DOMAIN slot[s]
    BY DEF ConsoleTypeOK
  <2>4. slot'[s].at = "setup" /\ slot'[s].name = n
    BY <2>2, <2>3
  <2> QED
    BY <1>1, <2>2, <2>4 DEF SlotsShaped
<1>8. CASE UNCHANGED slot
  BY <1>8 DEF SlotsShaped
<1> QED
  BY Requests, <1>3, <1>4, <1>5, <1>6, <1>7, <1>8
  DEF DeleteV3User, CreateV3User, UpdateV3User, DeleteCommunity, CreateCommunity,
      InsertCommunity, SetCommunityEnabled, Login, EndSession


\* With the types, what they rest on.
TypeInv == ConsoleTypeOK /\ DaemonTypeOK /\ Keyed /\ SlotsShaped

\* The empty tables of a new database have their types.
LEMMA TypeInvInit == ASSUME Init PROVE TypeInv
<1> USE IdAssumption, RequestBound, StopAssumption, StartBound DEF Lapse
<1>1. stored \in [Setting -> Value] /\ active = None /\ http = "down" /\ key = None
  BY DEF Init
<1>2. IsTable(users, User, V3User)
  BY DEF Init, IsTable
<1>3. IsTable(communities, Community, [key : Key, enabled : BOOLEAN])
  BY DEF Init, IsTable
<1>4. accounts \in Seq(Name) /\ session \in Key \cup {None}
  <2> DEFINE m == CHOOSE n \in Name : TRUE
             c == CHOOSE k \in Key : TRUE
  <2>1. IF effects = <<>> THEN accounts = <<>> /\ session = None
        ELSE accounts = <<m>> /\ session = c
    BY Zenon DEF Init
  <2>2. m \in Name /\ c \in Key
    OBVIOUS
  <2> HIDE DEF m, c
  <2>3. <<>> \in Seq(Name) /\ \A n \in Name : <<n>> \in Seq(Name)
    OBVIOUS
  <2> QED
    BY <2>1, <2>2, <2>3
<1>5. \A s \in Slot : slot[s] = Idle
  BY DEF Init
<1>6. slot \in [Slot -> [at : {"idle", "write", "configure", "setup"},
                         left : SUBSET (Setting \X Value),
                         read : [FloodSetting -> Value] \cup {None},
                         stale : Lapse, name : Name \cup {None}]]
  BY DEF Init, Idle
<1>7. ConsoleTypeOK
  <2>1. /\ usm = {} /\ allow = {} /\ edited = {} /\ born = {} /\ updated = {}
        /\ requests = 0 /\ behind = "none" /\ contested = FALSE
    BY DEF Init
  <2>2. 0 \in 0..MaxRequests
    OBVIOUS
  <2> QED
    BY <1>1, <1>2, <1>3, <1>4, <1>6, <2>1, <2>2 DEF ConsoleTypeOK
<1>8. DaemonTypeOK
  <2>1. /\ phase = "off" /\ sink = "none" /\ excuse = "none"
        /\ cancelled = FALSE /\ stopping = FALSE
        /\ waited = 0 /\ since = 0 /\ starts = 0
    BY DEF Init
  <2>2. 0 \in 0..StopWait /\ 0 \in 0..MaxStarts
    OBVIOUS
  <2> QED
    BY <2>1, <2>2 DEF DaemonTypeOK
<1>9. Keyed /\ SlotsShaped
  BY <1>1, <1>5 DEF Init, Keyed, SlotsShaped, Idle
<1> QED
  BY <1>7, <1>8, <1>9 DEF TypeInv

\* Startup and shutdown read the tables and the key, and change few variables of
\* the console.
LEMMA TypeInvStep == ASSUME TypeInv, [Next]_vars PROVE TypeInv'
<1> USE IdAssumption, StopAssumption, StartBound, RequestBound DEF Lapse
<1>1. ConsoleTypeOK /\ DaemonTypeOK /\ Keyed /\ SlotsShaped
  BY DEF TypeInv
<1> DEFINE Rest == UNCHANGED <<stored, users, communities, accounts, session, slot,
                               requests, born, updated, contested>>
<1>2. ASSUME NEW k \in Key, Start(k) PROVE TypeInv'
  <2>1. ConsoleTypeOK' /\ SlotsShaped'
    BY <1>1, <1>2 DEF Start, ConsoleTypeOK, SlotsShaped
  <2>2. DaemonTypeOK' /\ Keyed'
    BY <1>1, <1>2 DEF Start, DaemonTypeOK, Keyed, Starting
  <2> QED
    BY <2>1, <2>2 DEF TypeInv
<1>3. ASSUME UNCHANGED consoleVars PROVE ConsoleTypeOK' /\ SlotsShaped'
  BY <1>1, <1>3 DEF ConsoleTypeOK, SlotsShaped
<1>4. CASE Opened
  <2>1. DaemonTypeOK' /\ Keyed'
    BY <1>1, <1>4 DEF Opened, DaemonTypeOK, Keyed, Starting
  <2> QED
    BY <1>3, <1>4, <2>1 DEF Opened, TypeInv
<1>5. CASE LoadCommunities
  <2>1. DaemonTypeOK' /\ Keyed' /\ SlotsShaped'
    BY <1>1, <1>5 DEF LoadCommunities, DaemonTypeOK, Keyed, Starting, SlotsShaped
  <2>2. UnsealedCommunities(key) \subseteq Community
    BY <1>1 DEF UnsealedCommunities, EnabledCommunities, ConsoleTypeOK, IsTable
  <2>3. ConsoleTypeOK'
    BY <1>1, <1>5, <2>2 DEF LoadCommunities, ConsoleTypeOK
  <2> QED
    BY <2>1, <2>3 DEF TypeInv
<1>6. CASE LoadSettings
  <2>1. DaemonTypeOK' /\ Keyed' /\ SlotsShaped'
    BY <1>1, <1>6 DEF LoadSettings, DaemonTypeOK, Keyed, Starting, SlotsShaped
  <2>2. \A D \in SUBSET FloodSetting :
          AllSettings(D) \in [FloodSetting -> Value] /\ LapseOf(D) \in Lapse
    BY <1>1, SettingsRead
  <2>3. ConsoleTypeOK'
    BY <1>1, <1>6, <2>2 DEF LoadSettings, ConsoleTypeOK
  <2> QED
    BY <2>1, <2>3 DEF TypeInv
<1>7. CASE LoadUsers
  <2>1. DaemonTypeOK' /\ Keyed' /\ SlotsShaped'
    BY <1>1, <1>7 DEF LoadUsers, DaemonTypeOK, Keyed, Starting, SlotsShaped
  <2>2. USMTable(UnsealedUsers(key)) \subseteq User
    BY <1>1 DEF USMTable, UnsealedUsers, EnabledUsers, ConsoleTypeOK, IsTable
  <2>3. ConsoleTypeOK'
    BY <1>1, <1>7, <2>2 DEF LoadUsers, ConsoleTypeOK
  <2> QED
    BY <2>1, <2>3 DEF TypeInv
<1>8. ASSUME HttpFails \/ BeginShutdown \/ EndShutdown PROVE TypeInv'
  <2>1. ConsoleTypeOK' /\ SlotsShaped'
    BY <1>1, <1>8 DEF HttpFails, BeginShutdown, EndShutdown, ConsoleTypeOK, SlotsShaped
  <2>2. ASSUME HttpFails PROVE DaemonTypeOK' /\ Keyed'
    BY <1>1, <2>2 DEF HttpFails, DaemonTypeOK, Keyed, Starting
  <2>3. ASSUME BeginShutdown PROVE DaemonTypeOK' /\ Keyed'
    BY <1>1, <2>3 DEF BeginShutdown, DaemonTypeOK, Keyed, Starting
  <2>4. ASSUME EndShutdown PROVE DaemonTypeOK' /\ Keyed'
    BY <1>1, <2>4 DEF EndShutdown, DaemonTypeOK, Keyed, Starting
  <2> QED
    BY <1>8, <2>1, <2>2, <2>3, <2>4 DEF TypeInv
<1>9. ASSUME Bind \/ BindPanics \/ ListenerFails \/ Panic \/ Rebuild \/ SinkStops PROVE TypeInv'
  <2>1. /\ UNCHANGED <<consoleVars, phase, cancelled, stopping, waited, since, excuse, starts>>
        /\ sink' \in {"binding", "listening", "backoff", "stopped", "failed"}
    BY <1>9 DEF Bind, BindPanics, ListenerFails, Panic, Rebuild, SinkStops, Sink
  <2>2. DaemonTypeOK' /\ Keyed'
    BY <1>1, <2>1 DEF DaemonTypeOK, Keyed
  <2> QED
    BY <1>3, <2>1, <2>2 DEF TypeInv
<1>10. ASSUME Stop \/ SinkReturns \/ Return PROVE TypeInv'
  <2>1. UNCHANGED consoleVars
    BY <1>10 DEF Stop, SinkReturns, Return
  <2>2. ASSUME Stop PROVE DaemonTypeOK' /\ Keyed'
    BY <1>1, <2>2 DEF Stop, DaemonTypeOK, Keyed
  <2>3. ASSUME SinkReturns PROVE DaemonTypeOK' /\ Keyed'
    BY <1>1, <2>3 DEF SinkReturns, DaemonTypeOK, Keyed
  <2>4. ASSUME Return PROVE DaemonTypeOK' /\ Keyed'
    BY <1>1, <2>4 DEF Return, DaemonTypeOK, Keyed
  <2> QED
    BY <1>3, <1>10, <2>1, <2>2, <2>3, <2>4 DEF TypeInv
<1>11. CASE Tick
  <2>1. since' \in 0..StopWait /\ waited' \in Nat
    BY <1>1, <1>11 DEF Tick, DaemonTypeOK
  <2>2. DaemonTypeOK' /\ Keyed' /\ UNCHANGED consoleVars
    BY <1>1, <1>11, <2>1 DEF Tick, DaemonTypeOK, Keyed
  <2> QED
    BY <1>3, <2>2 DEF TypeInv
<1>12. CASE Exit \/ Crash
  <2>1. Die
    BY <1>12 DEF Exit, Crash
  <2>2. slot' \in [Slot -> [at : {"idle", "write", "configure", "setup"},
                            left : SUBSET (Setting \X Value),
                            read : [FloodSetting -> Value] \cup {None},
                            stale : Lapse, name : Name \cup {None}]]
    BY <2>1 DEF Die, Idle
  <2>3. ConsoleTypeOK'
    BY <1>1, <2>1, <2>2 DEF Die, ConsoleTypeOK
  <2>4. Keyed' /\ SlotsShaped'
    BY <2>1 DEF Die, Keyed, SlotsShaped, Idle
  <2>5. DaemonTypeOK'
    <3>1. /\ phase' = "off" /\ sink' = "none" /\ excuse' = "none"
          /\ cancelled' = FALSE /\ stopping' = FALSE
          /\ waited' = 0 /\ since' = 0 /\ UNCHANGED starts
      BY <2>1 DEF Die
    <3>2. 0 \in 0..StopWait
      OBVIOUS
    <3> QED
      BY <1>1, <3>1, <3>2 DEF DaemonTypeOK
  <2> QED
    BY <2>3, <2>4, <2>5 DEF TypeInv
<1>13. CASE Migrating
  BY <1>1, <1>3, <1>13 DEF Migrating, TypeInv, DaemonTypeOK, Keyed
<1>14. CASE RunCommand
  <2>1. CASE UNCHANGED <<consoleVars, daemonVars>>
    BY <1>1, <1>3, <2>1 DEF TypeInv, DaemonTypeOK, Keyed
  <2>2. CASE /\ requests < MaxRequests /\ requests' = requests + 1
             /\ UNCHANGED <<memory, tables, session, slot, behind, history, daemonVars>>
    BY <1>1, <2>2 DEF TypeInv, ConsoleTypeOK, SlotsShaped, DaemonTypeOK, Keyed
  <2>3. ASSUME NEW c \in Community, NEW k \in Key, InsertCommunity(c, k, TRUE),
               UNCHANGED <<requests, daemonVars>>
        PROVE  TypeInv'
    <3>1. IsTable(communities', Community, [key : Key, enabled : BOOLEAN])
      BY <1>1, <2>3 DEF InsertCommunity, IsTable, Insert, ConsoleTypeOK
    <3>2. ConsoleTypeOK'
      BY <1>1, <2>3, <3>1 DEF InsertCommunity, ConsoleTypeOK
    <3> QED
      BY <1>1, <2>3, <3>2 DEF InsertCommunity, TypeInv, SlotsShaped, DaemonTypeOK, Keyed
  <2> QED
    BY <1>14, <2>1, <2>2, <2>3 DEF RunCommand
<1>15. CASE Serve
  <2>1. ConsoleTypeOK' /\ SlotsShaped'
    BY <1>1, <1>15, RequestTypes, RequestSlots DEF Serve
  <2>2. UNCHANGED <<http, key>>
    BY <1>15, RequestKeeps DEF Serve
  <2> QED
    BY <1>1, <1>15, <2>1, <2>2 DEF Serve, TypeInv, DaemonTypeOK, Keyed
<1>16. CASE UNCHANGED vars
  BY <1>1, <1>3, <1>16 DEF TypeInv, DaemonTypeOK, Keyed
<1> QED
  BY <1>2, <1>4, <1>5, <1>6, <1>7, <1>8, <1>9, <1>10, <1>11, <1>12, <1>13, <1>14,
     <1>15, <1>16 DEF Next

\* The types hold in every state.
LEMMA TypeInvAlways == Spec => []TypeInv
BY TypeInvInit, TypeInvStep, PTL DEF Spec

\* Every variable keeps its type, for any number of keys, users, settings and
\* requests in flight.
THEOREM DaemonTypes == Spec => []TypeOK
<1>1. MigrateInv /\ TypeInv => TypeOK
  BY DEF MigrateInv, TypeInv, TypeOK
<1> QED
  BY <1>1, MigrateInvAlways, TypeInvAlways, PTL

-----------------------------------------------------------------------------
(***************************************************************************)
(* The shutdown.                                                           *)
(***************************************************************************)

\* Where the daemon stands between Stop and its end: how much of Stop's limit
\* each wait has used, and that no request enters once the server is closed.
DrainInv ==
  /\ ~stopping => since = 0
  /\ phase \in {"off", "opening"} => ~stopping
  /\ phase \in Starting /\ stopping => excuse # "none"
  /\ phase \in {"off", "opening", "communities", "settings"} =>
       http = "down" /\ InFlight = {}
  /\ phase = "running" /\ excuse = "none" => since = 0
  /\ phase = "drain" =>
       /\ http # "up" /\ waited <= ShutdownWait
       /\ excuse = "none" => since <= waited
  /\ phase = "settle" =>
       /\ http = "down" /\ waited <= SinkWait
       /\ excuse = "none" => InFlight = {} /\ since <= ShutdownWait + waited
  /\ phase = "returned" /\ excuse = "none" =>
       sink = "failed" \/ (http = "down" /\ InFlight = {})

\* A server that is not up lets nobody in.
LEMMA ClosedServer ==
  ASSUME ConsoleRequest, http # "up", InFlight = {} PROVE InFlight' = {}
<1>1. \A s \in Slot : slot[s].at = "idle"
  BY DEF InFlight
<1>2. ~ Accept
  BY DEF Accept
<1>3. UNCHANGED slot
  BY Requests, <1>1, <1>2
  DEF UpdateSettings, SetSetting, SetSettingFails, ReloadFlood, ConfigureFlood,
      Setup, CreateAdmin, DeleteV3User, CreateV3User, UpdateV3User, DeleteCommunity,
      CreateCommunity, SetCommunityEnabled, Login, EndSession, Admitted
<1> QED
  BY <1>1, <1>3 DEF InFlight

\* Every step preserves it.
LEMMA DrainInvStep ==
  ASSUME DaemonTypeOK, DrainInv, [Next]_vars PROVE DrainInv'
<1> USE StopAssumption
<1>1. waited \in Nat /\ since \in Nat
  BY DEF DaemonTypeOK
<1>2. ASSUME UNCHANGED slot PROVE InFlight' = InFlight
  BY <1>2 DEF InFlight
<1>3. ASSUME NEW k \in Key, Start(k) PROVE DrainInv'
  BY <1>2, <1>3 DEF Start, DrainInv, Starting
<1>4. CASE Opened
  BY <1>2, <1>4 DEF Opened, DrainInv, Starting
<1>5. CASE LoadCommunities
  BY <1>2, <1>5 DEF LoadCommunities, DrainInv, Starting
<1>6. CASE LoadSettings
  BY <1>2, <1>6 DEF LoadSettings, DrainInv, Starting
<1>7. CASE LoadUsers
  BY <1>2, <1>7 DEF LoadUsers, DrainInv, Starting
<1>8. CASE HttpFails
  BY <1>2, <1>8 DEF HttpFails, DrainInv, Starting
<1>9. ASSUME Bind \/ BindPanics \/ ListenerFails \/ Panic \/ Rebuild \/ SinkStops PROVE DrainInv'
  <2>1. /\ UNCHANGED <<consoleVars, phase, cancelled, stopping, waited, since, excuse, starts>>
        /\ sink # "failed"
    BY <1>9 DEF Bind, BindPanics, ListenerFails, Panic, Rebuild, SinkStops, Sink
  <2> QED
    BY <1>2, <2>1 DEF DrainInv
<1>10. CASE Stop
  BY <1>1, <1>2, <1>10 DEF Stop, DrainInv, Starting
<1>11. CASE SinkReturns
  BY <1>2, <1>11 DEF SinkReturns, DrainInv, Starting
<1>12. CASE BeginShutdown
  BY <1>1, <1>2, <1>12 DEF BeginShutdown, DrainInv, Starting
<1>13. CASE EndShutdown
  BY <1>1, <1>2, <1>13 DEF EndShutdown, DrainInv, Starting
<1>14. CASE Return
  BY <1>1, <1>2, <1>14 DEF Return, DrainInv, Starting
<1>15. CASE Tick
  <2>1. UNCHANGED <<consoleVars, phase, sink, stopping, excuse>> /\ InFlight' = InFlight
    BY <1>2, <1>15 DEF Tick
  <2>2. CASE phase = "drain"
    BY <1>1, <1>15, <2>1, <2>2 DEF Tick, DrainInv, Starting
  <2>3. CASE phase = "settle"
    BY <1>1, <1>15, <2>1, <2>3 DEF Tick, DrainInv, Starting
  <2>4. CASE phase \in Starting /\ stopping
    BY <1>1, <1>15, <2>1, <2>4 DEF Tick, DrainInv, Starting
  <2> QED
    BY <1>15, <2>2, <2>3, <2>4 DEF Tick
<1>16. CASE Exit \/ Crash
  <2>1. Die
    BY <1>16 DEF Exit, Crash
  <2>2. InFlight' = {}
    BY <2>1 DEF Die, InFlight, Idle
  <2> QED
    BY <2>1, <2>2 DEF Die, DrainInv, Starting
<1>17. CASE Migrating
  BY <1>2, <1>17 DEF Migrating, DrainInv
<1>18. CASE RunCommand
  <2>1. UNCHANGED <<http, slot, daemonVars>>
    BY <1>18 DEF RunCommand, InsertCommunity
  <2> QED
    BY <1>2, <2>1 DEF DrainInv
<1>19. CASE Serve
  <2>1. UNCHANGED <<http, daemonVars>>
    BY <1>19, RequestKeeps DEF Serve
  <2>2. http # "up" /\ InFlight = {} => InFlight' = {}
    BY <1>19, ClosedServer DEF Serve
  <2> QED
    BY <2>1, <2>2 DEF DrainInv
<1>20. CASE UNCHANGED vars
  BY <1>2, <1>20 DEF DrainInv
<1> QED
  BY <1>3, <1>4, <1>5, <1>6, <1>7, <1>8, <1>9, <1>10, <1>11, <1>12, <1>13, <1>14,
     <1>15, <1>16, <1>17, <1>18, <1>19, <1>20 DEF Next

\* It holds in every state.
LEMMA DrainInvAlways == Spec => []DrainInv
<1>1. Init => DrainInv
  BY DEF Init, DrainInv, Starting, InFlight, Idle
<1>2. TypeInv /\ DrainInv /\ [Next]_vars => DrainInv'
  BY DrainInvStep DEF TypeInv
<1> QED
  BY <1>1, <1>2, TypeInvAlways, PTL DEF Spec

\* cmd/holonet/main.go runDaemon and Stop: whatever the waits are set to, as long
\* as Stop's is longer than the two of runDaemon together, Stop's own limit never
\* closes the store under a request.
THEOREM DaemonRequestsDrained == Spec => RequestsDrained
<1>1. TypeInv /\ DrainInv /\ [Next]_vars
        => [Exit => InFlight = {} \/ sink = "failed" \/ excuse # "none"]_vars
  <2> SUFFICES ASSUME DaemonTypeOK, DrainInv, Exit, sink # "failed", excuse = "none"
               PROVE  InFlight = {}
    BY DEF TypeInv
  <2>1. stopping /\ (phase = "returned" \/ since = StopWait)
    BY DEF Exit
  <2>2. /\ waited \in Nat /\ since \in Nat
        /\ phase \in {"off", "opening", "running", "drain", "settle", "returned"} \cup Starting
    BY DEF DaemonTypeOK
  <2>3. phase = "returned"
    <3>1. phase \notin {"off", "opening"} \cup Starting
      BY <2>1 DEF DrainInv
    <3>2. phase \in {"running", "drain", "settle"} => since < StopWait
      BY <2>2, StopAssumption DEF DrainInv
    <3> QED
      BY <2>1, <2>2, <3>1, <3>2
  <2> QED
    BY <2>3 DEF DrainInv
<1> QED
  BY <1>1, TypeInvAlways, DrainInvAlways, PTL DEF Spec, RequestsDrained

-----------------------------------------------------------------------------
(***************************************************************************)
(* The console's requests.                                                 *)
(***************************************************************************)

\* A request takes a slot that is free.
LEMMA FreeSlotIsIdle ==
  ASSUME SlotsShaped, NEW s \in Slot, s = FreeSlot PROVE slot[s] = Idle
<1>1. InFlight # Slot
  BY IdAssumption DEF FreeSlot
<1>2. \E x \in Slot : slot[x] = Idle
  BY <1>1 DEF InFlight, SlotsShaped
<1> QED
  BY <1>1, <1>2 DEF FreeSlot

\* Who may still add an account: with one there, or two under way, the set-ups
\* overlapped.
AccountInv ==
  /\ \A s, x \in Slot : slot[s].at = "setup" /\ slot[x].at = "setup" /\ s # x => contested
  /\ \A s \in Slot : slot[s].at = "setup" /\ Len(accounts) >= 1 => contested
  /\ Len(accounts) > 1 => contested

\* Every request preserves it.
LEMMA AccountInvRequest ==
  ASSUME ConsoleTypeOK, SlotsShaped, AccountInv, ConsoleRequest PROVE AccountInv'
<1>1. slot = [x \in Slot |-> slot[x]] /\ accounts \in Seq(Name) /\ Len(accounts) \in Nat
  BY DEF ConsoleTypeOK
<1>2. \A s \in Slot : {"at", "name", "left", "read", "stale"} \subseteq DOMAIN slot[s]
  BY DEF ConsoleTypeOK
<1>3. ASSUME UNCHANGED <<accounts, contested>>,
             \A s \in Slot : slot'[s].at = "setup" => slot[s].at = "setup"
      PROVE  AccountInv'
  BY <1>3 DEF AccountInv
<1>4. ASSUME NEW s \in Slot, NEW kv \in Saves, UpdateSettings(s, kv) PROVE AccountInv'
  <2>1. \E X : slot' = [slot EXCEPT ![s] = [slot[s] EXCEPT !.at = "write", !.left = X]]
    BY <1>4 DEF UpdateSettings
  <2>2. slot'[s].at = "write" /\ \A x \in Slot \ {s} : slot'[x] = slot[x]
    BY <1>1, <1>2, <2>1
  <2> QED
    BY <1>3, <1>4, <2>2 DEF UpdateSettings
<1>5. ASSUME NEW s \in Slot, SetSetting(s) PROVE AccountInv'
  <2>1. PICK q \in slot[s].left :
          slot' = [x \in Slot |->
               IF x = s THEN [slot[s] EXCEPT !.left = @ \ {q}]
               ELSE IF slot[x].at = "configure" /\ slot[x].stale = "none" /\ q[1] \in FloodSetting
                 THEN [slot[x] EXCEPT !.stale = "overtaken"] ELSE slot[x]]
    BY <1>5 DEF SetSetting
  <2>2. \A x \in Slot : slot'[x].at = slot[x].at
    BY <1>2, <2>1
  <2> QED
    BY <1>3, <1>5, <2>2 DEF SetSetting
<1>6. ASSUME NEW s \in Slot, SetSettingFails(s) \/ ConfigureFlood(s) PROVE AccountInv'
  <2>1. slot' = [slot EXCEPT ![s] = Idle] /\ UNCHANGED <<accounts, contested>>
    BY <1>6 DEF SetSettingFails, ConfigureFlood
  <2> QED
    BY <1>1, <1>3, <2>1 DEF Idle
<1>7. ASSUME NEW s \in Slot, ReloadFlood(s) PROVE AccountInv'
  <2>1. PICK D \in SUBSET FloodSetting :
          slot' = [slot EXCEPT ![s] = [slot[s] EXCEPT
                     !.at = "configure", !.read = AllSettings(D), !.stale = LapseOf(D)]]
    BY <1>7 DEF ReloadFlood
  <2>2. /\ slot'[s] = [slot[s] EXCEPT
                         !.at = "configure", !.read = AllSettings(D), !.stale = LapseOf(D)]
        /\ \A x \in Slot \ {s} : slot'[x] = slot[x]
    BY <1>1, <2>1
  <2>3. slot'[s].at = "configure"
    BY <1>2, <2>2
  <2> QED
    BY <1>3, <1>7, <2>2, <2>3 DEF ReloadFlood
<1>8. ASSUME NEW s \in Slot, NEW n \in Name, Setup(s, n) PROVE AccountInv'
  <2>1. slot' = [slot EXCEPT ![s] = [slot[s] EXCEPT !.at = "setup", !.name = n]]
    BY <1>8 DEF Setup
  <2>2. \A x \in Slot \ {s} : slot'[x] = slot[x]
    BY <1>1, <2>1
  <2>3. /\ accounts = <<>> /\ UNCHANGED accounts
        /\ contested' = (contested \/ \E x \in Slot : slot[x].at = "setup")
    BY <1>8 DEF Setup, IsConfigured
  <2>4. ~(Len(accounts') >= 1) /\ ~(Len(accounts') > 1)
    BY <2>3
  <2>5. \A x, y \in Slot : slot'[x].at = "setup" /\ slot'[y].at = "setup" /\ x # y => contested'
    BY <2>2, <2>3 DEF AccountInv
  <2> QED
    BY <2>4, <2>5 DEF AccountInv
<1>9. ASSUME NEW s \in Slot, CreateAdmin(s) PROVE AccountInv'
  <2>1. /\ slot[s].at = "setup" /\ slot' = [slot EXCEPT ![s] = Idle] /\ UNCHANGED contested
        /\ accounts' = accounts \/ accounts' = Append(accounts, slot[s].name)
    BY <1>9 DEF CreateAdmin
  <2>2. slot'[s].at # "setup" /\ \A x \in Slot \ {s} : slot'[x] = slot[x]
    BY <1>1, <2>1 DEF Idle
  <2>3. Len(accounts') \in {Len(accounts), Len(accounts) + 1}
    BY <1>1, <2>1
  <2>4. Len(accounts) >= 1 => contested
    BY <2>1 DEF AccountInv
  <2>5. \A x \in Slot : slot'[x].at = "setup" => contested
    BY <2>1, <2>2 DEF AccountInv
  <2> QED
    BY <1>1, <2>1, <2>3, <2>4, <2>5 DEF AccountInv
<1>10. CASE UNCHANGED <<slot, accounts, contested>>
  BY <1>3, <1>10
<1> QED
  BY Requests, <1>4, <1>5, <1>6, <1>7, <1>8, <1>9, <1>10
  DEF DeleteV3User, CreateV3User, UpdateV3User, DeleteCommunity, CreateCommunity,
      InsertCommunity, SetCommunityEnabled, Login, EndSession

\* What a step other than a request may do to slots, settings and accounts:
\* forget the slots.
LEMMA OtherSteps ==
  ASSUME [Next]_vars, ~Serve
  PROVE  /\ UNCHANGED <<stored, accounts, contested>>
         /\ UNCHANGED slot \/ (Die /\ \A s \in Slot : slot'[s] = Idle)
<1>1. CASE Exit \/ Crash
  BY <1>1 DEF Exit, Crash, Die
<1>2. ASSUME NEW k \in Key, Start(k) PROVE UNCHANGED <<stored, accounts, contested, slot>>
  BY <1>2 DEF Start
<1>3. CASE Migrating \/ Opened \/ LoadCommunities \/ LoadSettings \/ LoadUsers \/ HttpFails
  BY <1>3 DEF Migrating, Opened, LoadCommunities, LoadSettings, LoadUsers, HttpFails
<1>4. CASE Bind \/ BindPanics \/ ListenerFails \/ Panic \/ Rebuild \/ SinkStops
  BY <1>4 DEF Bind, BindPanics, ListenerFails, Panic, Rebuild, SinkStops, Sink
<1>5. CASE Stop \/ SinkReturns \/ BeginShutdown \/ EndShutdown \/ Return \/ Tick
  BY <1>5 DEF Stop, SinkReturns, BeginShutdown, EndShutdown, Return, Tick
<1>6. CASE RunCommand
  <2>1. UNCHANGED <<stored, accounts, contested, slot>>
    BY <1>6 DEF RunCommand, InsertCommunity
  <2> QED
    BY <2>1
<1> QED
  BY <1>1, <1>2, <1>3, <1>4, <1>5, <1>6 DEF Next

\* It holds in every state.
LEMMA AccountInvAlways == Spec => []AccountInv
<1>1. Init => AccountInv
  <2> SUFFICES ASSUME Init PROVE AccountInv
    OBVIOUS
  <2>1. ~(Len(accounts) > 1)
    <3> DEFINE m == CHOOSE n \in Name : TRUE
    <3>1. IF effects = <<>> THEN accounts = <<>> ELSE accounts = <<m>>
      BY Zenon DEF Init
    <3>2. ~(Len(<<>>) > 1) /\ ~(Len(<<m>>) > 1)
      OBVIOUS
    <3> HIDE DEF m
    <3> QED
      BY <3>1, <3>2
  <2>2. \A s \in Slot : slot[s].at # "setup"
    BY DEF Init, Idle
  <2> QED
    BY <2>1, <2>2 DEF AccountInv
<1>2. TypeInv /\ AccountInv /\ [Next]_vars => AccountInv'
  <2> SUFFICES ASSUME TypeInv, AccountInv, [Next]_vars PROVE AccountInv'
    OBVIOUS
  <2>1. CASE Serve
    BY <2>1, AccountInvRequest DEF Serve, TypeInv
  <2>2. CASE ~Serve
    BY <2>2, OtherSteps DEF AccountInv, Idle
  <2> QED
    BY <2>1, <2>2
<1> QED
  BY <1>1, <1>2, TypeInvAlways, PTL DEF Spec

\* internal/auth/auth.go Setup: a second account comes only of set-ups that were
\* handled at the same time, however many requests are.
THEOREM DaemonOneAccountUnlessContested == Spec => []OneAccountUnlessContested
<1>1. AccountInv => OneAccountUnlessContested
  BY DEF AccountInv, OneAccountUnlessContested
<1> QED
  BY <1>1, AccountInvAlways, PTL

-----------------------------------------------------------------------------

\* Why the flood controller is up to date when nobody is saving: a reload that
\* was not overtaken has read what is stored.
ReloadInv ==
  /\ \A s \in Slot : slot[s].at = "configure" /\ slot[s].stale = "none"
                     => slot[s].read = Flood(stored)
  /\ http = "up" => active = Flood(stored) \/ behind # "none" \/ \E s \in Slot : Saving(s)

\* Every request preserves it.
LEMMA ReloadInvRequest ==
  ASSUME ConsoleTypeOK, SlotsShaped, ReloadInv, ConsoleRequest PROVE ReloadInv'
<1> USE DEF Saving
<1>1. slot = [x \in Slot |-> slot[x]] /\ stored \in [Setting -> Value]
  BY DEF ConsoleTypeOK
<1>2. \A s \in Slot : {"at", "name", "left", "read", "stale"} \subseteq DOMAIN slot[s]
  BY DEF ConsoleTypeOK
<1>3. ASSUME NEW s \in Slot, NEW kv \in Saves, UpdateSettings(s, kv) PROVE ReloadInv'
  <2>1. \E X : slot' = [slot EXCEPT ![s] = [slot[s] EXCEPT !.at = "write", !.left = X]]
    BY <1>3 DEF UpdateSettings
  <2>2. slot'[s].at = "write" /\ \A x \in Slot \ {s} : slot'[x] = slot[x]
    BY <1>1, <1>2, <2>1
  <2>3. UNCHANGED stored
    BY <1>3 DEF UpdateSettings
  <2> QED
    BY <2>2, <2>3 DEF ReloadInv, Flood
<1>4. ASSUME NEW s \in Slot, SetSetting(s) PROVE ReloadInv'
  <2>1. PICK q \in slot[s].left :
          /\ stored' = [stored EXCEPT ![q[1]] = q[2]]
          /\ slot' = [x \in Slot |->
               IF x = s THEN [slot[s] EXCEPT !.left = @ \ {q}]
               ELSE IF slot[x].at = "configure" /\ slot[x].stale = "none" /\ q[1] \in FloodSetting
                 THEN [slot[x] EXCEPT !.stale = "overtaken"] ELSE slot[x]]
    BY <1>4 DEF SetSetting
  <2>2. slot'[s].at = "write"
    <3>1. slot[s].at = "write"
      BY <1>4 DEF SetSetting
    <3> QED
      BY <1>2, <2>1, <3>1
  <2>3. ASSUME NEW x \in Slot, slot'[x].at = "configure", slot'[x].stale = "none"
        PROVE  slot'[x].read = Flood(stored)'
    <3>1. x # s
      BY <2>2, <2>3
    <3>2. ~(slot[x].at = "configure" /\ slot[x].stale = "none" /\ q[1] \in FloodSetting)
      <4> SUFFICES ASSUME slot[x].at = "configure" /\ slot[x].stale = "none" /\ q[1] \in FloodSetting PROVE FALSE
        OBVIOUS
      <4>1. slot'[x] = [slot[x] EXCEPT !.stale = "overtaken"]
        BY <2>1, <3>1
      <4> QED
        BY <1>2, <2>3, <4>1
    <3>3. slot'[x] = slot[x]
      BY <2>1, <3>1, <3>2
    <3>4. q[1] \notin FloodSetting
      BY <2>3, <3>2, <3>3
    <3>5. Flood(stored)' = Flood(stored)
      BY <1>1, <2>1, <3>4 DEF Flood, Setting
    <3> QED
      BY <2>3, <3>3, <3>5 DEF ReloadInv
  <2> QED
    BY <2>2, <2>3 DEF ReloadInv
<1>5. ASSUME NEW s \in Slot, SetSettingFails(s) PROVE ReloadInv'
  <2>1. slot' = [slot EXCEPT ![s] = Idle] /\ behind' = "failed" /\ UNCHANGED stored
    BY <1>5 DEF SetSettingFails
  <2> QED
    BY <1>1, <2>1 DEF ReloadInv, Idle, Flood
<1>6. ASSUME NEW s \in Slot, ReloadFlood(s) PROVE ReloadInv'
  <2>1. PICK D \in SUBSET FloodSetting :
          slot' = [slot EXCEPT ![s] = [slot[s] EXCEPT
                     !.at = "configure", !.read = AllSettings(D), !.stale = LapseOf(D)]]
    BY <1>6 DEF ReloadFlood
  <2>2. /\ slot'[s] = [slot[s] EXCEPT
                         !.at = "configure", !.read = AllSettings(D), !.stale = LapseOf(D)]
        /\ \A x \in Slot \ {s} : slot'[x] = slot[x]
    BY <1>1, <2>1
  <2>3. /\ slot'[s].at = "configure"
        /\ slot'[s].stale = "none" => slot'[s].read = Flood(stored)
    BY <1>2, <2>2, ReadInFull
  <2>4. Flood(stored)' = Flood(stored)
    BY <1>6 DEF ReloadFlood, Flood
  <2>5. \A x \in Slot : slot'[x].at = "configure" /\ slot'[x].stale = "none"
                       => slot'[x].read = Flood(stored)'
    BY <2>2, <2>3, <2>4 DEF ReloadInv
  <2>6. (\E x \in Slot : Saving(x))'
    BY <2>3
  <2> QED
    BY <2>5, <2>6 DEF ReloadInv
<1>7. ASSUME NEW s \in Slot, ConfigureFlood(s) PROVE ReloadInv'
  <2>1. /\ slot[s].at = "configure" /\ active' = slot[s].read
        /\ behind' = slot[s].stale /\ slot' = [slot EXCEPT ![s] = Idle]
        /\ UNCHANGED stored
    BY <1>7 DEF ConfigureFlood
  <2>2. slot'[s].at = "idle" /\ \A x \in Slot \ {s} : slot'[x] = slot[x]
    BY <1>1, <2>1 DEF Idle
  <2> QED
    BY <2>1, <2>2 DEF ReloadInv, Flood
<1>8. ASSUME NEW s \in Slot, NEW n \in Name, Setup(s, n) PROVE ReloadInv'
  <2>1. slot' = [slot EXCEPT ![s] = [slot[s] EXCEPT !.at = "setup", !.name = n]]
    BY <1>8 DEF Setup
  <2>2. /\ slot'[s] = [slot[s] EXCEPT !.at = "setup", !.name = n]
        /\ \A x \in Slot \ {s} : slot'[x] = slot[x]
    BY <1>1, <2>1
  <2>3. slot'[s].at = "setup"
    BY <1>2, <2>2
  <2>4. slot[s] = Idle
    BY <1>8, FreeSlotIsIdle DEF Setup
  <2>5. slot[s].at = "idle"
    BY <2>4 DEF Idle
  <2>6. UNCHANGED <<http, active, behind>> /\ Flood(stored)' = Flood(stored)
    BY <1>8 DEF Setup, Flood
  <2>7. \A x \in Slot : slot'[x].at = "configure" /\ slot'[x].stale = "none"
                       => slot'[x].read = Flood(stored)'
    BY <2>2, <2>3, <2>6 DEF ReloadInv
  <2>8. (\E x \in Slot : Saving(x)) => (\E x \in Slot : Saving(x))'
    BY <2>2, <2>5
  <2> QED
    BY <2>6, <2>7, <2>8 DEF ReloadInv
<1>9. ASSUME NEW s \in Slot, CreateAdmin(s) PROVE ReloadInv'
  <2>1. /\ slot[s].at = "setup" /\ slot' = [slot EXCEPT ![s] = Idle]
        /\ UNCHANGED <<stored, http, active, behind>>
    BY <1>9 DEF CreateAdmin
  <2>2. slot'[s].at = "idle" /\ \A x \in Slot \ {s} : slot'[x] = slot[x]
    BY <1>1, <2>1 DEF Idle
  <2> QED
    BY <2>1, <2>2 DEF ReloadInv, Flood
<1>10. CASE UNCHANGED <<slot, stored, http, active, behind>>
  BY <1>10 DEF ReloadInv, Flood
<1> QED
  BY Requests, <1>3, <1>4, <1>5, <1>6, <1>7, <1>8, <1>9, <1>10
  DEF DeleteV3User, CreateV3User, UpdateV3User, DeleteCommunity, CreateCommunity,
      InsertCommunity, SetCommunityEnabled, Login, EndSession

\* The rest of the daemon configures the controller once, before it serves.
LEMMA ReloadInvOther ==
  ASSUME ReloadInv, [Next]_vars, ~Serve PROVE ReloadInv'
<1> USE DEF Saving
<1>1. CASE Die
  BY <1>1 DEF Die, ReloadInv, Idle, Flood
<1>2. CASE LoadSettings
  <2>1. PICK D \in SUBSET FloodSetting : active' = AllSettings(D) /\ behind' = LapseOf(D)
    BY <1>2 DEF LoadSettings
  <2>2. active' = Flood(stored) \/ behind' # "none"
    BY <2>1, ReadInFull
  <2> QED
    BY <1>2, <2>2 DEF LoadSettings, ReloadInv, Flood
<1>3. ASSUME UNCHANGED <<slot, stored>>,
             UNCHANGED <<http, active, behind>> \/ http' # "up"
      PROVE  ReloadInv'
  BY <1>3 DEF ReloadInv, Flood
<1>4. ASSUME NEW k \in Key, Start(k) PROVE UNCHANGED <<http, active, behind>>
  BY <1>4 DEF Start
<1>5. CASE Migrating \/ Opened \/ LoadCommunities \/ LoadUsers
  BY <1>3, <1>5 DEF Migrating, Opened, LoadCommunities, LoadUsers
<1>6. CASE HttpFails \/ BeginShutdown \/ EndShutdown
  BY <1>3, <1>6 DEF HttpFails, BeginShutdown, EndShutdown
<1>7. CASE Bind \/ BindPanics \/ ListenerFails \/ Panic \/ Rebuild \/ SinkStops
  BY <1>3, <1>7 DEF Bind, BindPanics, ListenerFails, Panic, Rebuild, SinkStops, Sink
<1>8. CASE Stop \/ SinkReturns \/ Return \/ Tick
  BY <1>3, <1>8 DEF Stop, SinkReturns, Return, Tick
<1>9. CASE RunCommand
  <2>1. UNCHANGED <<stored, slot, http, active, behind>>
    BY <1>9 DEF RunCommand, InsertCommunity
  <2> QED
    BY <1>3, <2>1
<1>10. CASE UNCHANGED vars
  BY <1>3, <1>10
<1> QED
  BY <1>1, <1>2, <1>3, <1>4, <1>5, <1>6, <1>7, <1>8, <1>9, <1>10, OtherSteps
  DEF Next, Exit, Crash, Start

\* cmd/holonet/main.go ReloadFlood, internal/api/handlers_resources.go
\* updateSettings: with no save in flight the flood controller runs on what is
\* stored, unless the last save failed half-way, could not read it or was
\* overtaken, for any number of settings and saves.
THEOREM DaemonConfigInForce == Spec => []ConfigInForce
<1>1. Init => ReloadInv
  BY DEF Init, ReloadInv, Idle
<1>2. TypeInv /\ ReloadInv /\ [Next]_vars => ReloadInv'
  <2> SUFFICES ASSUME TypeInv, ReloadInv, [Next]_vars PROVE ReloadInv'
    OBVIOUS
  <2>1. CASE Serve
    BY <2>1, ReloadInvRequest DEF Serve, TypeInv
  <2> QED
    BY <2>1, ReloadInvOther
<1>3. ReloadInv => ConfigInForce
  BY DEF ReloadInv, ConfigInForce, Saved
<1> QED
  BY <1>1, <1>2, <1>3, TypeInvAlways, PTL DEF Spec

-----------------------------------------------------------------------------
(***************************************************************************)
(* Credentials.                                                            *)
(***************************************************************************)

\* What is loaded agrees with the rows nobody has edited since: the communities
\* from the time they are loaded, the users from the time the listener starts.
LoadedInv ==
  /\ phase \in {"settings", "users", "running"} =>
       \A c \in DOMAIN communities \ edited :
         c \in allow <=> communities[c].enabled /\ communities[c].key = key
  /\ phase = "running" =>
       \A u \in DOMAIN users \ edited :
         u \in usm <=> users[u].enabled /\ Unseals(users[u], key)
                       /\ (u \in updated => Valid(users[u]))
  /\ \A u \in DOMAIN users : u \notin updated => Valid(users[u])

\* Every request marks the rows it writes.
LEMMA LoadedInvRequest ==
  ASSUME ConsoleTypeOK, LoadedInv, ConsoleRequest, UNCHANGED phase PROVE LoadedInv'
<1> USE IdAssumption
<1>1. UNCHANGED <<http, key, usm, allow>>
  BY RequestKeeps
<1>2. DOMAIN users \subseteq User /\ DOMAIN communities \subseteq Community
  BY DEF ConsoleTypeOK, IsTable
<1>3. ASSUME UNCHANGED <<users, communities, edited, updated>> PROVE LoadedInv'
  BY <1>1, <1>3 DEF LoadedInv, Unseals, Valid
<1>4. ASSUME NEW u \in User, UNCHANGED communities,
             \A x \in DOMAIN users' \ {u} : x \in DOMAIN users /\ users'[x] = users[x],
             edited \ {u} \subseteq edited', edited' \subseteq edited \cup {u},
             updated' \ {u} = updated \ {u},
             u \in DOMAIN users' =>
               u \in edited' /\ (u \notin updated' => Valid(users'[u]))
      PROVE  LoadedInv'
  <2>1. \A c \in DOMAIN communities' : c \in edited' <=> c \in edited
    BY <1>2, <1>4
  <2>2. \A x \in DOMAIN users' \ edited' :
          /\ x \in DOMAIN users \ edited /\ users'[x] = users[x]
          /\ x \in updated' <=> x \in updated
    BY <1>4
  <2>3. \A x \in DOMAIN users' : x \notin updated' => Valid(users'[x])
    BY <1>4 DEF LoadedInv
  <2>4. phase' = "running" =>
          \A x \in DOMAIN users' \ edited' :
            x \in usm' <=> users'[x].enabled /\ Unseals(users'[x], key')
                           /\ (x \in updated' => Valid(users'[x]))
    <3> SUFFICES ASSUME phase = "running", NEW x \in DOMAIN users' \ edited'
                 PROVE  x \in usm' <=> users'[x].enabled /\ Unseals(users'[x], key')
                                       /\ (x \in updated' => Valid(users'[x]))
      OBVIOUS
    <3>1. x \in usm <=> users[x].enabled /\ Unseals(users[x], key)
                        /\ (x \in updated => Valid(users[x]))
      BY <2>2 DEF LoadedInv
    <3> QED
      BY <1>1, <2>2, <3>1
  <2>5. phase' \in {"settings", "users", "running"} =>
          \A c \in DOMAIN communities' \ edited' :
            c \in allow' <=> communities'[c].enabled /\ communities'[c].key = key'
    BY <1>1, <1>4, <2>1 DEF LoadedInv
  <2> QED
    BY <2>3, <2>4, <2>5 DEF LoadedInv, Unseals, Valid
<1>5. ASSUME NEW c \in Community, UNCHANGED <<users, updated>>,
             \A x \in DOMAIN communities' \ {c} :
               x \in DOMAIN communities /\ communities'[x] = communities[x],
             edited \ {c} \subseteq edited', edited' \subseteq edited \cup {c},
             c \in DOMAIN communities' => c \in edited'
      PROVE  LoadedInv'
  <2>1. \A u \in DOMAIN users' : u \in edited' <=> u \in edited
    BY <1>2, <1>5
  <2>2. \A x \in DOMAIN communities' \ edited' :
          x \in DOMAIN communities \ edited /\ communities'[x] = communities[x]
    BY <1>5
  <2> QED
    BY <1>1, <1>5, <2>1, <2>2 DEF LoadedInv, Unseals, Valid
<1>6. ASSUME NEW u \in User, DeleteV3User(u) PROVE LoadedInv'
  <2>1. \A x \in DOMAIN users' : x \in DOMAIN users \ {u} /\ users'[x] = users[x]
    BY <1>6 DEF DeleteV3User, Delete
  <2>2. edited' = edited \ {u} /\ updated' = updated \ {u} /\ UNCHANGED communities
    BY <1>6 DEF DeleteV3User
  <2> QED
    BY <1>4, <2>1, <2>2
<1>7. ASSUME NEW u \in User, NEW f \in Form, CreateV3User(u, f) PROVE LoadedInv'
  <2>1. /\ \A x \in DOMAIN users' \ {u} : x \in DOMAIN users /\ users'[x] = users[x]
        /\ users'[u] = Sealed(f)
    BY <1>7 DEF CreateV3User, Insert
  <2>2. Valid(Sealed(f)) /\ edited' = edited \cup {u} /\ UNCHANGED <<communities, updated>>
    BY <1>7 DEF CreateV3User
  <2> QED
    BY <1>4, <2>1, <2>2
<1>8. ASSUME NEW u \in User, NEW f \in Form, UpdateV3User(u, f) PROVE LoadedInv'
  <2>1. \A x \in DOMAIN users' \ {u} : x \in DOMAIN users /\ users'[x] = users[x]
    BY <1>8 DEF UpdateV3User
  <2>2. /\ edited' = edited \cup {u} /\ updated' = updated \cup {u}
        /\ UNCHANGED communities
    BY <1>8 DEF UpdateV3User
  <2> QED
    BY <1>4, <2>1, <2>2
<1>9. ASSUME NEW c \in Community, DeleteCommunity(c) PROVE LoadedInv'
  <2>1. \A x \in DOMAIN communities' :
          x \in DOMAIN communities \ {c} /\ communities'[x] = communities[x]
    BY <1>9 DEF DeleteCommunity, Delete
  <2>2. edited' = edited \ {c} /\ UNCHANGED <<users, updated>>
    BY <1>9 DEF DeleteCommunity
  <2> QED
    BY <1>5, <2>1, <2>2
<1>10. ASSUME NEW c \in Community, NEW e \in BOOLEAN, CreateCommunity(c, e) PROVE LoadedInv'
  <2>1. \A x \in DOMAIN communities' \ {c} :
          x \in DOMAIN communities /\ communities'[x] = communities[x]
    BY <1>10 DEF CreateCommunity, InsertCommunity, Insert
  <2>2. edited' = edited \cup {c} /\ UNCHANGED <<users, updated>>
    BY <1>10 DEF CreateCommunity, InsertCommunity
  <2> QED
    BY <1>5, <2>1, <2>2
<1>11. ASSUME NEW c \in Community, NEW e \in BOOLEAN, SetCommunityEnabled(c, e)
       PROVE LoadedInv'
  <2>1. \A x \in DOMAIN communities' \ {c} :
          x \in DOMAIN communities /\ communities'[x] = communities[x]
    BY <1>11 DEF SetCommunityEnabled
  <2>2. edited' = edited \cup {c} /\ UNCHANGED <<users, updated>>
    BY <1>11 DEF SetCommunityEnabled
  <2> QED
    BY <1>5, <2>1, <2>2
<1> QED
  BY Requests, <1>3, <1>6, <1>7, <1>8, <1>9, <1>10, <1>11
  DEF UpdateSettings, SetSetting, SetSettingFails, ReloadFlood, ConfigureFlood, Setup,
      CreateAdmin, Login, EndSession

\* The rest of the daemon loads the credentials, or stops using them.
LEMMA LoadedInvOther ==
  ASSUME ConsoleTypeOK, LoadedInv, [Next]_vars, ~Serve PROVE LoadedInv'
<1> USE IdAssumption
<1>1. DOMAIN users \subseteq User /\ DOMAIN communities \subseteq Community
  BY DEF ConsoleTypeOK, IsTable
<1>2. ASSUME UNCHANGED <<users, communities, edited, updated, key, allow, usm, phase>>
      PROVE  LoadedInv'
  BY <1>2 DEF LoadedInv, Unseals, Valid
<1>3. ASSUME UNCHANGED <<users, communities, edited, updated>>,
              phase' \notin {"settings", "users", "running"}
       PROVE  LoadedInv'
  BY <1>3 DEF LoadedInv, Valid
<1>4. CASE LoadCommunities
  <2>1. CASE phase' = "settings"
    <3>1. /\ allow' = UnsealedCommunities(key) /\ edited' = edited \ Community
          /\ UNCHANGED <<users, communities, key, updated>>
      BY <1>4, <2>1 DEF LoadCommunities
    <3>2. \A c \in DOMAIN communities :
            c \in allow' <=> communities[c].enabled /\ communities[c].key = key
      BY <3>1 DEF UnsealedCommunities, EnabledCommunities
    <3> QED
      BY <2>1, <3>1, <3>2 DEF LoadedInv, Valid
  <2>2. CASE phase' # "settings"
    BY <1>4, <2>2 DEF LoadCommunities, LoadedInv, Valid
  <2> QED
    BY <2>1, <2>2
<1>5. CASE LoadUsers
  <2>1. /\ phase = "users" /\ phase' = "running"
        /\ usm' = USMTable(UnsealedUsers(key)) /\ edited' = edited \ User
        /\ UNCHANGED <<users, communities, key, allow, updated>>
    BY <1>5 DEF LoadUsers
  <2>2. \A u \in DOMAIN users :
          u \in usm' <=> users[u].enabled /\ Unseals(users[u], key) /\ Valid(users[u])
    BY <2>1 DEF USMTable, UnsealedUsers, EnabledUsers
  <2>3. \A c \in DOMAIN communities' : c \in edited' <=> c \in edited
    BY <1>1, <2>1
  <2>4. \A c \in DOMAIN communities' \ edited' :
          c \in allow' <=> communities'[c].enabled /\ communities'[c].key = key'
    BY <2>1, <2>3 DEF LoadedInv
  <2>5. \A u \in DOMAIN users : u \notin updated => Valid(users[u])
    BY DEF LoadedInv
  <2>6. \A u \in DOMAIN users :
          u \in usm' <=> users[u].enabled /\ Unseals(users[u], key)
                         /\ (u \in updated => Valid(users[u]))
    BY <2>2, <2>5
  <2> QED
    BY <2>1, <2>4, <2>5, <2>6 DEF LoadedInv, Unseals, Valid
<1>6. ASSUME NEW k \in Key, Start(k) PROVE LoadedInv'
  BY <1>3, <1>6 DEF Start
<1>7. CASE LoadSettings
  BY <1>7 DEF LoadSettings, LoadedInv, Unseals, Valid
<1>8. CASE Migrating \/ HttpFails \/ Stop \/ Tick
  BY <1>2, <1>8 DEF Migrating, HttpFails, Stop, Tick
<1>9. CASE Bind \/ BindPanics \/ ListenerFails \/ Panic \/ Rebuild \/ SinkStops
  BY <1>2, <1>9 DEF Bind, BindPanics, ListenerFails, Panic, Rebuild, SinkStops, Sink
<1>10. CASE Opened \/ SinkReturns \/ BeginShutdown \/ EndShutdown \/ Return \/ Exit \/ Crash
  <2>1. /\ UNCHANGED <<users, communities, edited, updated>>
        /\ phase' \notin {"settings", "users", "running"}
    BY <1>10 DEF Opened, SinkReturns, BeginShutdown, EndShutdown, Return, Exit, Crash, Die
  <2> QED
    BY <1>3, <2>1
<1>11. CASE RunCommand
  <2>1. UNCHANGED <<key, allow, usm, phase, users, updated>>
    BY <1>11 DEF RunCommand, InsertCommunity
  <2>2. ASSUME NEW c \in Community, NEW k \in Key, InsertCommunity(c, k, TRUE)
        PROVE  LoadedInv'
    <3>1. \A x \in DOMAIN communities' \ {c} :
            x \in DOMAIN communities /\ communities'[x] = communities[x]
      BY <2>2 DEF InsertCommunity, Insert
    <3>2. edited' = edited \cup {c}
      BY <2>2 DEF InsertCommunity
    <3>3. \A u \in DOMAIN users' : u \in edited' <=> u \in edited
      BY <1>1, <2>1, <3>2
    <3>4. \A x \in DOMAIN communities' \ edited' :
            x \in DOMAIN communities \ edited /\ communities'[x] = communities[x]
      BY <3>1, <3>2
    <3> QED
      BY <2>1, <3>3, <3>4 DEF LoadedInv, Unseals, Valid
  <2>3. CASE UNCHANGED <<users, communities, edited, updated>>
    BY <2>1, <2>3 DEF LoadedInv, Unseals, Valid
  <2> QED
    BY <1>11, <2>2, <2>3 DEF RunCommand
<1>12. CASE UNCHANGED vars
  BY <1>2, <1>12
<1> QED
  BY <1>4, <1>5, <1>6, <1>7, <1>8, <1>9, <1>10, <1>11, <1>12 DEF Next

\* internal/snmp/v3.go, cmd/holonet/main.go communityChecker and v3Users: while
\* the daemon runs it accepts what the tables hold and its key opens, but for
\* rows edited since, for any users, communities, keys and one-shot commands.
THEOREM DaemonCredentialsInForce == Spec => []CredentialsInForce
<1>1. Init => LoadedInv
  BY DEF Init, LoadedInv
<1>2. TypeInv /\ LoadedInv /\ [Next]_vars => LoadedInv'
  <2> SUFFICES ASSUME TypeInv, LoadedInv, [Next]_vars PROVE LoadedInv'
    OBVIOUS
  <2>1. CASE Serve
    BY <2>1, LoadedInvRequest DEF Serve, TypeInv
  <2> QED
    BY <2>1, LoadedInvOther DEF TypeInv
<1>3. LoadedInv => CredentialsInForce
  BY DEF LoadedInv, CredentialsInForce
<1> QED
  BY <1>1, <1>2, <1>3, TypeInvAlways, PTL DEF Spec

=============================================================================
