---------------------------- MODULE AccountProofs ----------------------------
(***************************************************************************)
(* One account over any number of entries, dialogs and cycles.  The        *)
(* inductive part follows the claims: a dialog that has the unique id is   *)
(* the only one and no entry exists, every other dialog is about an entry  *)
(* that exists, and a cycle is about an entry it may have outlived.        *)
(***************************************************************************)
EXTENDS Account, TLAPS

Named == \A d \in Dialogs : client[d].named =>
  /\ client[d].of = NULL
  /\ \A e \in Entries : ~Exists(e)
  /\ \A o \in Dialogs : client[o].named => o = d

Open == \A d \in Dialogs : client[d].step # "idle" =>
  /\ client[d].step \in {"form", "post", "landing"}
  /\ client[d].of = NULL => client[d].named
  /\ client[d].of # NULL => Exists(client[d].of)
  /\ client[d].step # "form" => client[d].password # NULL

\* What a cycle knows of its entry, which may be gone by now.
About(c) == LET e == client[c].of IN
  /\ client[c].step # "form"
  /\ e \in Entries /\ entry[e].state # "none"
  /\ entry[e].state = "removed" => e \in late
  /\ client[c].step = "post" /\ ~client[c].never =>
       file[e] = "fetched" \/ entry[e].state = "removed"

Kept == \A c \in Cycles : client[c].step # "idle" => About(c)

Facts == Named /\ Open /\ Kept /\ ArchiveGone /\ NewEntryNotBounced

Inv == TypeOK /\ Facts

-----------------------------------------------------------------------------
(* The shapes of a step *)

\* No entry comes or goes.
SameLife == \A e \in Entries :
  /\ entry'[e].state = "none" <=> entry[e].state = "none"
  /\ entry'[e].state = "removed" <=> entry[e].state = "removed"

\* Only client c moves.
Only(c) == \A b \in Clients \ {c} : client'[b] = client[b]

\* Archives may be touched by a cycle of entry e, and lose no fetch.
Touches(e) == \A i \in Entries :
  /\ i # e => file'[i] = file[i]
  /\ file[i] = "fetched" => file'[i] = "fetched"

\* A cycle goes on or ends.
LEMMA CycleMoves ==
  ASSUME TypeOK, Facts, NEW c \in Cycles, client[c].step # "idle",
         Only(c), SameLife, Touches(client[c].of), late' = late,
         \/ client'[c].step = "idle"
         \/ /\ client'[c].of = client[c].of
            /\ client'[c].step # "form"
            /\ client'[c].step = "post" /\ ~client'[c].never =>
                 file'[client[c].of] = "fetched"
  PROVE  Facts'
<1> USE AccountAssumption DEF Facts, Clients
<1>1. \A d \in Dialogs : client'[d] = client[d]
  BY DEF Only
<1>2. \A e \in Entries : Exists(e)' <=> Exists(e)
  BY DEF Exists, SameLife
<1>3. Named'
  BY <1>1, <1>2 DEF Named
<1>4. Open'
  <2>1. \A d \in Dialogs : client[d].of # NULL => client[d].of \in Entries
    BY DEF TypeOK, ClientStates
  <2> QED BY <1>1, <1>2, <2>1 DEF Open, Exists
<1>5. Kept'
  <2> SUFFICES ASSUME NEW b \in Cycles, client'[b].step # "idle" PROVE About(b)'
    BY DEF Kept
  <2>1. client[b].step # "idle" /\ client'[b].of = client[b].of /\ About(b)
    BY DEF Kept, Only
  <2>2. b # c => client'[b] = client[b]
    BY DEF Only
  <2>3. CASE b = c
    BY <2>1, <2>3 DEF About, SameLife
  <2>4. CASE b # c
    <3>1. client[b].of \in Entries /\ late' = late
      BY <2>1 DEF About
    <3>2. file[client[b].of] = "fetched" => file'[client[b].of] = "fetched"
      BY <3>1 DEF Touches
    <3>3. /\ entry'[client[b].of].state = "none" <=> entry[client[b].of].state = "none"
          /\ entry'[client[b].of].state = "removed" <=> entry[client[b].of].state = "removed"
      BY <3>1 DEF SameLife
    <3> QED BY <2>1, <2>2, <2>4, <3>1, <3>2, <3>3 DEF About
  <2> QED BY <2>3, <2>4
<1>6. ArchiveGone'
  BY DEF ArchiveGone, Kept, About, SameLife, Touches
<1>7. NewEntryNotBounced'
  BY <1>1 DEF NewEntryNotBounced, Asking, Touches
<1> QED BY <1>3, <1>4, <1>5, <1>6, <1>7

\* A dialog goes on, keeping what it is about, or ends.
LEMMA DialogMoves ==
  ASSUME TypeOK, Facts, NEW d \in Dialogs, Only(d), SameLife, UNCHANGED <<file, late>>,
         \/ client'[d].step = "idle" /\ ~client'[d].named
         \/ /\ client[d].step # "idle"
            /\ client'[d].step \in {"form", "post", "landing"}
            /\ client'[d].of = client[d].of /\ client'[d].named = client[d].named
            /\ client'[d].step # "form" => client'[d].password # NULL
  PROVE  Facts'
<1> USE AccountAssumption DEF Facts, Clients
<1>1. \A c \in Cycles : client'[c] = client[c]
  BY DEF Only
<1>2. \A e \in Entries : Exists(e)' <=> Exists(e)
  BY DEF Exists, SameLife
<1>3. Named'
  BY <1>2 DEF Named, Only
<1>4. Open'
  <2>1. \A o \in Dialogs : client[o].of # NULL => client[o].of \in Entries
    BY DEF TypeOK, ClientStates
  <2> QED BY <1>2, <2>1 DEF Open, Exists, Only
<1>5. Kept'
  <2> SUFFICES ASSUME NEW b \in Cycles, client'[b].step # "idle" PROVE About(b)'
    BY DEF Kept
  <2>1. client'[b] = client[b] /\ About(b)
    BY <1>1 DEF Kept
  <2> QED BY <2>1 DEF About, SameLife
<1>6. ArchiveGone'
  BY DEF ArchiveGone, SameLife
<1>7. NewEntryNotBounced'
  BY DEF NewEntryNotBounced, Asking, Only
<1> QED BY <1>3, <1>4, <1>5, <1>6, <1>7

\* Nobody moves, and no archive changes.
LEMMA NobodyMoves ==
  ASSUME TypeOK, Facts, SameLife, UNCHANGED <<client, file, late>>
  PROVE  Facts'
<1> USE AccountAssumption DEF Facts, Clients
<1>1. \A e \in Entries : Exists(e)' <=> Exists(e)
  BY DEF Exists, SameLife
<1>2. \A o \in Dialogs : client[o].of # NULL => client[o].of \in Entries
  BY DEF TypeOK, ClientStates
<1>3. Named' /\ Open'
  BY <1>1, <1>2 DEF Named, Open, Exists
<1>4. Kept' /\ ArchiveGone' /\ NewEntryNotBounced'
  BY DEF Kept, About, SameLife, ArchiveGone, NewEntryNotBounced, Asking
<1> QED BY <1>3, <1>4

\* Removed and unloaded, an entry leaves its cycles as strays.
LEMMA Unloads ==
  ASSUME TypeOK, NEW e \in Entries
  PROVE  /\ Unloaded(e) \in [Clients -> ClientStates]
         /\ \A c \in Clients : /\ Unloaded(e)[c].step = client[c].step
                               /\ Unloaded(e)[c].of = client[c].of
                               /\ Unloaded(e)[c].named = client[c].named
                               /\ Unloaded(e)[c].never = client[c].never
         /\ \A d \in Dialogs : Unloaded(e)[d] = client[d]
BY AccountAssumption DEF TypeOK, Unloaded, ClientStates, Clients

LEMMA IdleTyped == Idle \in ClientStates /\ Idle.step = "idle" /\ ~Idle.named
BY DEF Idle, ClientStates

-----------------------------------------------------------------------------
(* The records the actions write *)

\* One field after the other.
LEMMA Fields ==
  ASSUME NEW r \in ClientStates, NEW step \in {"idle", "form", "ask", "post", "landing", "pages"},
         NEW password \in Passwords \cup {NULL}, NEW flag \in BOOLEAN
  PROVE  /\ [r EXCEPT !.step = step] \in ClientStates
         /\ [r EXCEPT !.password = password] \in ClientStates
         /\ [r EXCEPT !.never = flag] \in ClientStates
         /\ [r EXCEPT !.named = flag] \in ClientStates
         /\ \A e \in Entries : [r EXCEPT !.of = e] \in ClientStates
BY DEF ClientStates

\* A form shown again, a post, a landing, the pages.
LEMMA Writes ==
  ASSUME TypeOK, NEW c \in Clients, NEW step \in {"form", "post", "landing", "pages"},
         NEW password \in Passwords \cup {NULL}, NEW never \in BOOLEAN,
         \/ client' = [client EXCEPT ![c].step = step]
         \/ client' = [client EXCEPT ![c].step = step, ![c].password = password]
         \/ client' = [client EXCEPT ![c].step = step, ![c].never = never]
         \/ client' = [client EXCEPT ![c].step = step, ![c].password = password,
                                     ![c].never = never]
  PROVE  /\ client' \in [Clients -> ClientStates] /\ Only(c)
         /\ client'[c].step = step
         /\ client'[c].of = client[c].of /\ client'[c].named = client[c].named
         /\ client'[c].password \in {client[c].password, password}
         /\ client'[c].never \in {client[c].never, never}
<1>1. client[c] \in ClientStates
  BY DEF TypeOK
<1>2. PICK r \in ClientStates : r = [client[c] EXCEPT !.step = step]
  BY <1>1, Fields
<1>3. PICK p \in ClientStates : p = [r EXCEPT !.password = password]
  BY Fields
<1>4. PICK n \in ClientStates : n = [r EXCEPT !.never = never]
  BY Fields
<1>5. PICK b \in ClientStates : b = [p EXCEPT !.never = never]
  BY Fields
<1>6. \/ client' = [client EXCEPT ![c] = r]
      \/ client' = [client EXCEPT ![c] = p]
      \/ client' = [client EXCEPT ![c] = n]
      \/ client' = [client EXCEPT ![c] = b]
  BY <1>2, <1>3, <1>4, <1>5 DEF TypeOK
<1>7. /\ r.step = step /\ r.of = client[c].of /\ r.named = client[c].named
      /\ r.password = client[c].password /\ r.never = client[c].never
  BY <1>1, <1>2 DEF ClientStates
<1>8. /\ p.step = r.step /\ p.of = r.of /\ p.named = r.named
      /\ p.password = password /\ p.never = r.never
  BY <1>3 DEF ClientStates
<1>9. /\ n.step = r.step /\ n.of = r.of /\ n.named = r.named
      /\ n.password = r.password /\ n.never = never
  BY <1>4 DEF ClientStates
<1>10. /\ b.step = p.step /\ b.of = p.of /\ b.named = p.named
       /\ b.password = p.password /\ b.never = never
  BY <1>5 DEF ClientStates
<1> QED BY <1>6, <1>7, <1>8, <1>9, <1>10 DEF TypeOK, Only

LEMMA Idles ==
  ASSUME TypeOK, NEW c \in Clients, client' = [client EXCEPT ![c] = Idle]
  PROVE  /\ client' \in [Clients -> ClientStates] /\ Only(c)
         /\ client'[c].step = "idle" /\ ~client'[c].named
BY IdleTyped DEF TypeOK, Only

\* A dialog about entry e, and a cycle that starts with its password.
LEMMA Starts ==
  ASSUME NEW step \in {"ask", "form"}, NEW e \in Entries
  PROVE  /\ \E r \in ClientStates :
              /\ r = [Idle EXCEPT !.step = step, !.of = e]
              /\ r.step = step /\ r.of = e /\ ~r.named
         /\ \A p \in Passwords \cup {NULL} : \E r \in ClientStates :
              /\ r = [Idle EXCEPT !.step = step, !.of = e, !.password = p]
              /\ r.step = step /\ r.of = e
<1>1. PICK s \in ClientStates : s = [Idle EXCEPT !.step = step] /\ s.step = step /\ ~s.named
  <2>1. PICK s \in ClientStates : s = [Idle EXCEPT !.step = step]
    BY IdleTyped, Fields
  <2> QED BY <2>1 DEF Idle
<1>2. PICK o \in ClientStates : o = [s EXCEPT !.of = e]
  BY Fields
<1>3. o.step = step /\ o.of = e /\ ~o.named
  BY <1>1, <1>2 DEF ClientStates
<1>4. ASSUME NEW p \in Passwords \cup {NULL}
      PROVE  \E r \in ClientStates :
               /\ r = [Idle EXCEPT !.step = step, !.of = e, !.password = p]
               /\ r.step = step /\ r.of = e
  <2>1. [o EXCEPT !.password = p] \in ClientStates
    BY Fields
  <2>2. [o EXCEPT !.password = p].step = step /\ [o EXCEPT !.password = p].of = e
    BY <1>3 DEF ClientStates
  <2> QED BY <1>1, <1>2, <2>1, <2>2
<1>5. o = [Idle EXCEPT !.step = step, !.of = e]
  BY <1>1, <1>2
<1> QED BY <1>3, <1>4, <1>5

\* What the end of a cycle makes of its entry.
LEMMA Settles ==
  ASSUME TypeOK, NEW e \in Entries, NEW c \in Clients, NEW state \in {"loaded", "retry", "error"},
         entry' = Settled(e, c, state)
  PROVE  entry' \in [Entries -> EntryStates] /\ SameLife
BY DEF TypeOK, Settled, EntryStates, SameLife

LEMMA Touching ==
  ASSUME TypeOK, NEW e \in Entries,
         file' \in {file, Touched(file, e), [file EXCEPT ![e] = "fetched"]}
  PROVE  file' \in [Entries -> {"none", "empty", "fetched"}] /\ Touches(e)
BY DEF TypeOK, Touched, Touches

-----------------------------------------------------------------------------
(* How logins and cycles end *)

Portal == right \in Passwords /\ healthy \in BOOLEAN /\ recent \in BOOLEAN

LEMMA UpdateFailsKeeps ==
  ASSUME Inv, NEW c \in Cycles, client[c].step # "idle", UpdateFails(c),
         file' \in {file, Touched(file, client[c].of), [file EXCEPT ![client[c].of] = "fetched"]},
         late' = late, Portal'
  PROVE  Inv'
<1> USE DEF Inv
<1>1. c \in Clients /\ client[c].of \in Entries
  BY DEF Facts, Kept, About, Clients
<1>2. entry' \in [Entries -> EntryStates] /\ SameLife
  BY <1>1, Settles DEF UpdateFails
<1>3. client' \in [Clients -> ClientStates] /\ Only(c) /\ client'[c].step = "idle"
  BY <1>1, Idles DEF UpdateFails
<1>4. file' \in [Entries -> {"none", "empty", "fetched"}] /\ Touches(client[c].of)
  BY <1>1, Touching
<1>5. TypeOK'
  BY <1>2, <1>3, <1>4 DEF TypeOK, Portal
<1>6. Facts'
  BY <1>2, <1>3, <1>4, CycleMoves
<1> QED BY <1>5, <1>6

\* A re-authentication is only opened for an entry that exists, and with a
\* fetched archive if the cycle asked for it.
LEMMA AuthFailsKeeps ==
  ASSUME Inv, NEW c \in Cycles, client[c].step = "post", ~client[c].never, AuthFails(c),
         UNCHANGED <<file, late>>, Portal'
  PROVE  Inv'
<1> USE DEF Inv
<1> DEFINE e == client[c].of
<1>1. c \in Clients /\ e \in Entries /\ (file[e] = "fetched" \/ entry[e].state = "removed")
  BY DEF Facts, Kept, About, Clients
<1>2. entry' \in [Entries -> EntryStates] /\ SameLife
  BY <1>1, Settles DEF AuthFails
<1>3. CASE client' = [client EXCEPT ![c] = Idle]
  <2>1. client' \in [Clients -> ClientStates] /\ Only(c) /\ client'[c].step = "idle"
    BY <1>1, <1>3, Idles
  <2>2. TypeOK'
    BY <1>2, <2>1 DEF TypeOK, Portal
  <2>3. Facts'
    BY <1>2, <2>1, CycleMoves DEF Touches
  <2> QED BY <2>2, <2>3
<1>4. ASSUME NEW d \in Free, Exists(e),
             client' = [client EXCEPT ![c] = Idle, ![d] = [Idle EXCEPT !.step = "form", !.of = e]]
      PROVE  Inv'
  <2>1. PICK r \in ClientStates : /\ r = [Idle EXCEPT !.step = "form", !.of = e]
                                  /\ r.step = "form" /\ r.of = e /\ ~r.named
    BY <1>1, Starts
  <2>2. d \in Dialogs /\ d \in Clients /\ c # d
    BY AccountAssumption DEF Free, Clients
  <2>3. /\ client' \in [Clients -> ClientStates]
        /\ client'[c] = Idle /\ client'[d] = r
        /\ \A b \in Clients \ {c, d} : client'[b] = client[b]
    BY <1>1, <1>4, <2>1, <2>2, IdleTyped DEF TypeOK
  <2>4. \A i \in Entries : Exists(i)' <=> Exists(i)
    BY <1>2 DEF Exists, SameLife
  <2>5. \A o \in Dialogs : o # d => client'[o] = client[o]
    BY <2>3, AccountAssumption DEF Clients
  <2>6. \A b \in Cycles : client'[b].step # "idle" => client'[b] = client[b]
    BY <2>2, <2>3, IdleTyped, AccountAssumption DEF Clients
  <2>7. Named'
    <3>1. \A o \in Dialogs : client'[o].named => o # d /\ client'[o] = client[o]
      BY <2>1, <2>3, <2>5
    <3>2. Named
      BY DEF Facts
    <3> QED BY <2>4, <3>1, <3>2 DEF Named
  <2>8. Open'
    <3>1. \A o \in Dialogs : client[o].of # NULL => client[o].of \in Entries
      BY DEF TypeOK, ClientStates, Clients
    <3> SUFFICES ASSUME NEW o \in Dialogs, client'[o].step # "idle"
                 PROVE  /\ client'[o].step \in {"form", "post", "landing"}
                        /\ client'[o].of = NULL => client'[o].named
                        /\ client'[o].of # NULL =>
                             entry'[client'[o].of].state \notin {"none", "removed"}
                        /\ client'[o].step # "form" => client'[o].password # NULL
      BY DEF Open, Exists
    <3>2. CASE o = d
      <4>1. entry'[e].state \notin {"none", "removed"}
        BY <1>1, <1>2, <1>4 DEF Exists, SameLife
      <4> QED BY <1>1, <2>1, <2>3, <3>2, <4>1, AccountAssumption
    <3>3. CASE o # d
      <4>1. client'[o] = client[o] /\ Open
        BY <2>5, <3>3 DEF Facts
      <4>2. client[o].of # NULL => entry'[client[o].of].state \notin {"none", "removed"}
        BY <1>2, <3>1, <4>1 DEF Open, Exists, SameLife
      <4> QED BY <4>1, <4>2 DEF Open
    <3> QED BY <3>2, <3>3
  <2>9. Kept'
    <3> SUFFICES ASSUME NEW b \in Cycles, client'[b].step # "idle" PROVE About(b)'
      BY DEF Kept
    <3>1. client'[b] = client[b] /\ About(b)
      BY <2>6 DEF Facts, Kept
    <3> QED BY <1>2, <3>1 DEF About, SameLife
  <2>10. ArchiveGone'
    BY <1>2 DEF Facts, ArchiveGone, SameLife
  <2>11. NewEntryNotBounced'
    <3>1. file[e] = "fetched"
      BY <1>1, <1>4 DEF Exists
    <3>2. \A i \in Entries : i # e => Asking(i)' \subseteq Asking(i)
      BY <2>1, <2>3, <2>5 DEF Asking
    <3> QED BY <3>1, <3>2 DEF Facts, NewEntryNotBounced
  <2>12. TypeOK'
    BY <1>2, <2>3 DEF TypeOK, Portal
  <2> QED BY <2>7, <2>8, <2>9, <2>10, <2>11, <2>12 DEF Facts
<1> QED BY <1>3, <1>4 DEF AuthFails

LEMMA LoginFailsKeeps ==
  ASSUME Inv, NEW c \in Clients, client[c].step \in {"post", "landing"}, NEW verdict,
         verdict = "auth" => client[c].step = "post",
         LoginFails(c, verdict), UNCHANGED <<file, late>>, Portal'
  PROVE  Inv'
<1>1. CASE c \in Cycles
  <2>1. c \notin Dialogs
    BY <1>1, AccountAssumption
  <2>2. UpdateFails(c) \/ (client[c].step = "post" /\ ~client[c].never /\ AuthFails(c))
    BY <2>1 DEF LoginFails, Rejected
  <2> QED BY <1>1, <2>2, UpdateFailsKeeps, AuthFailsKeeps
<1>2. CASE c \in Dialogs
  <2>1. /\ client' = [client EXCEPT ![c].step = "form", ![c].password = NULL]
        /\ entry' = entry
    BY <1>2, AccountAssumption DEF LoginFails
  <2>2. /\ client' \in [Clients -> ClientStates] /\ Only(c) /\ client'[c].step = "form"
        /\ client'[c].of = client[c].of /\ client'[c].named = client[c].named
    BY <2>1, Writes DEF Inv
  <2>3. TypeOK'
    BY <2>1, <2>2 DEF Inv, TypeOK, Portal
  <2>4. Facts'
    BY <1>2, <2>1, <2>2, DialogMoves DEF Inv, SameLife
  <2> QED BY <2>3, <2>4 DEF Inv
<1> QED BY <1>1, <1>2 DEF Clients

LEMMA Initially == Init => Inv
<1> SUFFICES ASSUME Init PROVE Inv
  OBVIOUS
<1>1. TypeOK
  BY IdleTyped DEF Init, TypeOK, NoEntry, EntryStates
<1>2. Facts
  BY IdleTyped DEF Init, Facts, Named, Open, Kept, ArchiveGone, NewEntryNotBounced, Asking,
     NoEntry, Clients
<1> QED BY <1>1, <1>2 DEF Inv

-----------------------------------------------------------------------------
(* Every step *)

\* A dialog that logged in finds no entry in its way.
LEMMA CreateKeeps ==
  ASSUME Inv, NEW d \in Dialogs, client[d].step = "landing", client[d].of = NULL,
         CreateEntry(d), UNCHANGED <<portalVars, late>>
  PROVE  Inv'
<1> USE DEF Inv
<1>1. d \in Clients /\ client[d].named /\ \A i \in Entries : ~Exists(i)
  BY DEF Facts, Open, Named, Clients
<1>2. PICK e \in Entries :
        /\ entry[e].state = "none"
        /\ \E password \in Passwords \cup {NULL} :
             entry' = [entry EXCEPT ![e] =
                         [[NoEntry EXCEPT !.state = "setup"] EXCEPT !.password = password]]
  <2>1. PICK e \in Unused : entry' = [i \in Entries |->
            CASE i = e -> [NoEntry EXCEPT !.state = "setup", !.password = client[d].password]
              [] i # e /\ Exists(i) -> [NoEntry EXCEPT !.state = "removed"]
              [] OTHER -> entry[i]]
    BY DEF CreateEntry
  <2>2. e \in Entries /\ entry[e].state = "none"
    BY <2>1 DEF Unused
  <2>3. client[d].password \in Passwords \cup {NULL}
    BY <1>1 DEF TypeOK, ClientStates
  <2>4. entry' = [entry EXCEPT ![e] =
                    [[NoEntry EXCEPT !.state = "setup"] EXCEPT !.password = client[d].password]]
    BY <1>1, <2>1, <2>2 DEF TypeOK
  <2> QED BY <2>2, <2>3, <2>4
<1>3. /\ entry' \in [Entries -> EntryStates] /\ entry'[e].state = "setup"
      /\ \A i \in Entries : i # e => entry'[i] = entry[i]
  <2>1. PICK n \in EntryStates : n = [NoEntry EXCEPT !.state = "setup"] /\ n.state = "setup"
    <3>1. NoEntry \in EntryStates
      BY DEF NoEntry, EntryStates
    <3>2. [NoEntry EXCEPT !.state = "setup"] \in EntryStates
      BY <3>1 DEF EntryStates
    <3> QED BY <3>2 DEF NoEntry
  <2>2. \A password \in Passwords \cup {NULL} :
          [n EXCEPT !.password = password] \in EntryStates
          /\ [n EXCEPT !.password = password].state = "setup"
    BY <2>1 DEF EntryStates
  <2> QED BY <1>2, <2>1, <2>2 DEF TypeOK
<1>4. file' = file
  BY <1>1 DEF CreateEntry, TypeOK
<1>5. client' \in [Clients -> ClientStates] /\ Only(d) /\ client'[d].step = "idle" /\ ~client'[d].named
  BY <1>1, Idles DEF CreateEntry
<1>6. \A o \in Dialogs : ~client'[o].named /\ (client'[o].step # "idle" => client'[o] = client[o])
  BY <1>1, <1>5 DEF Facts, Named, Only, Clients
<1>7. TypeOK'
  BY <1>3, <1>4, <1>5 DEF TypeOK, portalVars
<1>8. Named'
  BY <1>6 DEF Named
<1>9. Open'
  <2>1. \A o \in Dialogs : client[o].step # "idle" => client[o].of = NULL /\ client[o].named
    <3> SUFFICES ASSUME NEW o \in Dialogs, client[o].step # "idle"
                 PROVE  client[o].of = NULL /\ client[o].named
      OBVIOUS
    <3>1. client[o].of \in Entries \cup {NULL}
      BY DEF TypeOK, ClientStates, Clients
    <3> QED BY <1>1, <3>1 DEF Facts, Open
  <2> QED BY <1>6, <2>1 DEF Open
<1>10. Kept'
  <2> SUFFICES ASSUME NEW b \in Cycles, client'[b].step # "idle" PROVE About(b)'
    BY DEF Kept
  <2>1. client'[b] = client[b] /\ About(b)
    BY <1>5, AccountAssumption DEF Facts, Kept, Only, Clients
  <2>2. client[b].of # e
    BY <1>2, <2>1 DEF About
  <2> QED BY <1>3, <1>4, <2>1, <2>2 DEF About, portalVars
<1>11. ArchiveGone'
  BY <1>3, <1>4 DEF Facts, ArchiveGone
<1>12. NewEntryNotBounced'
  BY <1>4, <1>6 DEF Facts, NewEntryNotBounced, Asking
<1> QED BY <1>7, <1>8, <1>9, <1>10, <1>11, <1>12 DEF Facts

LEMMA LoginKeeps ==
  ASSUME Inv, NEW c \in Clients, Login(c)
  PROVE  Inv'
<1> USE DEF Inv
<1>1. CASE PostAccepted(c)
  <2>1. /\ client[c].step = "post" /\ entry' = entry /\ file' = file /\ late' = late
        /\ client' \in [Clients -> ClientStates] /\ Only(c) /\ client'[c].step = "landing"
        /\ client'[c].of = client[c].of /\ client'[c].named = client[c].named
        /\ client'[c].password = client[c].password
    <3>1. NULL \in Passwords \cup {NULL} /\ client[c].password \in Passwords \cup {NULL}
      BY DEF TypeOK, ClientStates
    <3>2. client' = [client EXCEPT ![c].step = "landing"]
      BY <1>1 DEF PostAccepted
    <3>3. PICK p \in Passwords \cup {NULL} : p = client[c].password
      BY <3>1
    <3>4. /\ client' \in [Clients -> ClientStates] /\ Only(c) /\ client'[c].step = "landing"
          /\ client'[c].of = client[c].of /\ client'[c].named = client[c].named
          /\ client'[c].password \in {client[c].password, p}
      BY <3>2, Writes
    <3> QED BY <1>1, <3>3, <3>4 DEF PostAccepted
  <2>2. TypeOK'
    BY <1>1, <2>1 DEF PostAccepted, TypeOK
  <2>3. CASE c \in Cycles
    BY <2>1, <2>2, <2>3, CycleMoves DEF SameLife, Touches
  <2>4. CASE c \in Dialogs
    <3>1. client[c].password # NULL
      BY <2>1, <2>4 DEF Facts, Open
    <3> QED BY <2>1, <2>2, <2>4, <3>1, DialogMoves DEF SameLife
  <2> QED BY <2>3, <2>4 DEF Clients
<1>2. CASE PostRejected(c)
  BY <1>2, LoginFailsKeeps DEF PostRejected, Portal, TypeOK
<1>3. CASE PostFails(c)
  BY <1>3, LoginFailsKeeps DEF PostFails, Portal, TypeOK, portalVars
<1>4. CASE LandElsewhere(c)
  <2>1. PICK landing \in Landings : LoginFails(c, Verdict(landing))
    BY <1>4 DEF LandElsewhere
  <2>2. Verdict(landing) # "auth"
    BY DEF Verdict
  <2> QED BY <1>4, <2>1, <2>2, LoginFailsKeeps DEF LandElsewhere, Portal, TypeOK, portalVars
<1>5. CASE LandInApp(c)
  <2>1. client[c].step = "landing" /\ UNCHANGED <<portalVars, late>>
    BY <1>5 DEF LandInApp
  <2>2. CASE c \in Dialogs /\ client[c].of = NULL
    <3>1. CreateEntry(c)
      BY <1>5, <2>2, AccountAssumption DEF LandInApp
    <3> QED BY <2>1, <2>2, <3>1, CreateKeeps
  <2>3. CASE c \in Dialogs /\ client[c].of # NULL
    <3>1. UpdateEntry(c) /\ client[c].of \in Entries
      BY <1>5, <2>3, AccountAssumption DEF LandInApp, TypeOK, ClientStates
    <3>2. client' \in [Clients -> ClientStates] /\ Only(c) /\ client'[c].step = "idle" /\ ~client'[c].named
      BY <3>1, Idles DEF UpdateEntry
    <3>3. entry' \in [Entries -> EntryStates] /\ SameLife
      <4>1. PICK n \in EntryStates : /\ n = [entry[client[c].of] EXCEPT !.password = client[c].password]
                                     /\ n.state = entry[client[c].of].state
        <5>1. client[c].password \in Passwords \cup {NULL}
          BY DEF TypeOK, ClientStates
        <5>2. PICK x \in EntryStates : x = entry[client[c].of]
          BY <3>1 DEF TypeOK
        <5>3. PICK q \in Passwords \cup {NULL} : q = client[c].password
          BY <5>1
        <5>4. [x EXCEPT !.password = q] \in EntryStates /\ [x EXCEPT !.password = q].state = x.state
          BY DEF EntryStates
        <5> QED BY <5>2, <5>3, <5>4
      <4>2. [n EXCEPT !.reload = TRUE] \in EntryStates /\ [n EXCEPT !.reload = TRUE].state = n.state
        BY DEF EntryStates
      <4>3. entry' = [entry EXCEPT ![client[c].of] = [n EXCEPT !.reload = TRUE]]
        BY <3>1, <4>1 DEF UpdateEntry, TypeOK
      <4> QED BY <3>1, <4>1, <4>2, <4>3 DEF TypeOK, SameLife
    <3>4. TypeOK'
      BY <2>1, <3>1, <3>2, <3>3 DEF UpdateEntry, TypeOK, portalVars
    <3> QED BY <2>1, <2>3, <3>1, <3>2, <3>3, <3>4, DialogMoves DEF UpdateEntry
  <2>4. CASE c \in Cycles
    <3>1. /\ client' = [client EXCEPT ![c].step = "pages", ![c].password = NULL, ![c].never = FALSE]
          /\ UNCHANGED <<entry, file>>
      BY <1>5, <2>4, AccountAssumption DEF LandInApp
    <3>2. /\ client' \in [Clients -> ClientStates] /\ Only(c) /\ client'[c].step = "pages"
          /\ client'[c].of = client[c].of
      BY <3>1, Writes
    <3>3. TypeOK'
      BY <2>1, <3>1, <3>2 DEF TypeOK, portalVars
    <3> QED BY <2>1, <2>4, <3>1, <3>2, <3>3, CycleMoves DEF SameLife, Touches
  <2> QED BY <2>2, <2>3, <2>4 DEF Clients
<1> QED BY <1>1, <1>2, <1>3, <1>4, <1>5 DEF Login

LEMMA Inductive ==
  ASSUME Inv, [Next]_vars
  PROVE  Inv'
<1> USE DEF Inv
<1>1. ASSUME NEW c \in Clients, Login(c) PROVE Inv'
  BY <1>1, LoginKeeps
<1>2. ASSUME NEW c \in Cycles, AskArchive(c) PROVE Inv'
  <2> DEFINE e == client[c].of
  <2>1. c \in Clients /\ client[c].step = "ask" /\ e \in Entries
    BY <1>2 DEF AskArchive, Facts, Kept, About, Clients
  <2>2. PICK never \in BOOLEAN : never = (file[e] # "fetched")
    OBVIOUS
  <2>3. client' = [client EXCEPT ![c].step = "post", ![c].never = never]
    BY <1>2, <2>2 DEF AskArchive
  <2>4. /\ client' \in [Clients -> ClientStates] /\ Only(c) /\ client'[c].step = "post"
        /\ client'[c].of = client[c].of
    <3>1. NULL \in Passwords \cup {NULL}
      OBVIOUS
    <3> QED BY <2>1, <2>3, <3>1, Writes
  <2>5. client'[c].never = never
    BY <2>1, <2>3 DEF TypeOK, ClientStates
  <2>6. file' \in [Entries -> {"none", "empty", "fetched"}] /\ Touches(e)
    BY <1>2, <2>1, Touching DEF AskArchive
  <2>7. TypeOK'
    BY <1>2, <2>4, <2>6 DEF AskArchive, TypeOK, portalVars
  <2>8. ~client'[c].never => file'[e] = "fetched"
    BY <2>1, <2>2, <2>5, <2>6 DEF Touches
  <2> QED BY <1>2, <2>1, <2>4, <2>6, <2>7, <2>8, CycleMoves DEF AskArchive, SameLife
<1>3. ASSUME NEW c \in Cycles, CycleSucceeds(c) PROVE Inv'
  <2>1. c \in Clients /\ client[c].step = "pages" /\ client[c].of \in Entries
    BY <1>3 DEF CycleSucceeds, Facts, Kept, About, Clients
  <2>2. entry' \in [Entries -> EntryStates] /\ SameLife
    BY <1>3, <2>1, Settles DEF CycleSucceeds
  <2>3. client' \in [Clients -> ClientStates] /\ Only(c) /\ client'[c].step = "idle"
    BY <1>3, <2>1, Idles DEF CycleSucceeds
  <2>4. file' \in [Entries -> {"none", "empty", "fetched"}] /\ Touches(client[c].of)
    BY <1>3, <2>1, Touching DEF CycleSucceeds
  <2>5. TypeOK'
    BY <1>3, <2>2, <2>3, <2>4 DEF CycleSucceeds, TypeOK, portalVars
  <2> QED BY <1>3, <2>1, <2>2, <2>3, <2>4, <2>5, CycleMoves DEF CycleSucceeds
<1>4. ASSUME NEW c \in Cycles, PagesFail(c) PROVE Inv'
  BY <1>4, UpdateFailsKeeps DEF PagesFail, Portal, TypeOK, portalVars
<1>5. ASSUME NEW d \in Dialogs, SubmitUser(d) PROVE Inv'
  <2>1. d \in Clients /\ UNCHANGED <<portalVars, entry, file, late>>
    BY <1>5 DEF SubmitUser, Clients
  <2>2. CASE client' = [client EXCEPT ![d] = Idle]
    <3>1. /\ client' \in [Clients -> ClientStates] /\ Only(d)
          /\ client'[d].step = "idle" /\ ~client'[d].named
      BY <2>1, <2>2, Idles
    <3>2. TypeOK'
      BY <2>1, <3>1 DEF TypeOK, portalVars
    <3> QED BY <2>1, <3>1, <3>2, DialogMoves DEF SameLife
  <2>3. ASSUME \A i \in Entries : ~Exists(i), \A o \in Dialogs \ {d} : ~client[o].named,
               NEW p \in Passwords,
               client' = [client EXCEPT ![d] =
                 [Idle EXCEPT !.step = "post", !.password = p, !.named = TRUE]]
        PROVE  Inv'
    <3>1. PICK r \in ClientStates :
            /\ r = [Idle EXCEPT !.step = "post", !.password = p, !.named = TRUE]
            /\ r.step = "post" /\ r.of = NULL /\ r.named /\ r.password = p
      <4>1. PICK s \in ClientStates : s = [Idle EXCEPT !.step = "post"]
        BY IdleTyped, Fields
      <4>2. s.step = "post" /\ s.of = NULL
        BY <4>1 DEF Idle
      <4>3. PICK q \in ClientStates : q = [s EXCEPT !.password = p]
        BY Fields
      <4>4. q.step = "post" /\ q.of = NULL /\ q.password = p
        BY <4>2, <4>3 DEF ClientStates
      <4>5. /\ [q EXCEPT !.named = TRUE] \in ClientStates
            /\ [q EXCEPT !.named = TRUE].step = "post" /\ [q EXCEPT !.named = TRUE].of = NULL
            /\ [q EXCEPT !.named = TRUE].named /\ [q EXCEPT !.named = TRUE].password = p
        BY <4>4 DEF ClientStates
      <4> QED BY <4>1, <4>3, <4>5
    <3>2. client' \in [Clients -> ClientStates] /\ Only(d) /\ client'[d] = r
      BY <2>1, <2>3, <3>1 DEF TypeOK, Only
    <3>3. TypeOK'
      BY <2>1, <3>2 DEF TypeOK, portalVars
    <3>4. \A o \in Dialogs : o # d => client'[o] = client[o]
      BY <3>2 DEF Only, Clients
    <3>5. \A c \in Cycles : client'[c] = client[c]
      BY <3>2, AccountAssumption DEF Only, Clients
    <3>6. Named'
      BY <2>1, <2>3, <3>1, <3>2, <3>4 DEF Named, Exists
    <3>7. Open'
      BY <2>1, <2>3, <3>1, <3>2, <3>4, AccountAssumption DEF Facts, Open, Exists
    <3>8. Kept' /\ ArchiveGone'
      BY <2>1, <3>5 DEF Facts, Kept, About, ArchiveGone
    <3>9. NewEntryNotBounced'
      <4>1. \A i \in Entries : Asking(i)' \subseteq Asking(i)
        BY <3>1, <3>2, <3>4, AccountAssumption DEF Asking
      <4> QED BY <2>1, <4>1 DEF Facts, NewEntryNotBounced
    <3> QED BY <3>3, <3>6, <3>7, <3>8, <3>9 DEF Facts
  <2> QED BY <1>5, <2>2, <2>3 DEF SubmitUser
<1>6. ASSUME NEW d \in Dialogs, SubmitReauth(d) PROVE Inv'
  <2>1. PICK p \in Passwords : client' = [client EXCEPT ![d].step = "post", ![d].password = p]
    BY <1>6 DEF SubmitReauth
  <2>2. d \in Clients /\ client[d].step = "form" /\ UNCHANGED <<portalVars, entry, file, late>>
    BY <1>6 DEF SubmitReauth, Clients
  <2>3. /\ client' \in [Clients -> ClientStates] /\ Only(d) /\ client'[d].step = "post"
        /\ client'[d].of = client[d].of /\ client'[d].named = client[d].named
    BY <2>1, <2>2, Writes
  <2>4. client'[d].password # NULL
    BY <2>1, <2>2, AccountAssumption DEF TypeOK, ClientStates
  <2>5. TypeOK'
    BY <2>2, <2>3 DEF TypeOK, portalVars
  <2> QED BY <2>2, <2>3, <2>4, <2>5, DialogMoves DEF SameLife
<1>7. ASSUME NEW d \in Dialogs, CloseDialog(d) PROVE Inv'
  <2>1. d \in Clients /\ UNCHANGED <<portalVars, entry, file, late>>
    BY <1>7 DEF CloseDialog, Clients
  <2>2. /\ client' \in [Clients -> ClientStates] /\ Only(d)
        /\ client'[d].step = "idle" /\ ~client'[d].named
    BY <1>7, <2>1, Idles DEF CloseDialog
  <2>3. TypeOK'
    BY <2>1, <2>2 DEF TypeOK, portalVars
  <2> QED BY <2>1, <2>2, <2>3, DialogMoves DEF SameLife
<1>8. ASSUME NEW c \in Cycles, NEW e \in Entries, StartCycle(c, e) PROVE Inv'
  <2>1. PICK p \in Passwords \cup {NULL} :
          client' = [client EXCEPT ![c] = [Idle EXCEPT !.step = "ask", !.of = e, !.password = p]]
    BY <1>8 DEF StartCycle, TypeOK, EntryStates
  <2>2. PICK r \in ClientStates :
          /\ r = [Idle EXCEPT !.step = "ask", !.of = e, !.password = p]
          /\ r.step = "ask" /\ r.of = e
    BY Starts
  <2>3. /\ c \in Clients /\ entry[e].state \in {"loaded", "setup"}
        /\ UNCHANGED <<portalVars, entry, late>>
    BY <1>8 DEF StartCycle, Clients
  <2>4. client' \in [Clients -> ClientStates] /\ Only(c) /\ client'[c] = r
    BY <2>1, <2>2, <2>3 DEF TypeOK, Only
  <2>5. file' \in [Entries -> {"none", "empty", "fetched"}] /\ Touches(e)
    BY <1>8, Touching DEF StartCycle
  <2>6. \A d \in Dialogs : client'[d] = client[d]
    BY <2>4, AccountAssumption DEF Only, Clients
  <2>7. TypeOK'
    BY <2>3, <2>4, <2>5 DEF TypeOK, portalVars
  <2>8. Named' /\ Open'
    BY <2>3, <2>6 DEF Facts, Named, Open, Exists
  <2>9. Kept'
    <3> SUFFICES ASSUME NEW b \in Cycles, client'[b].step # "idle" PROVE About(b)'
      BY DEF Kept
    <3>1. CASE b = c
      BY <2>2, <2>3, <2>4, <3>1 DEF About
    <3>2. CASE b # c
      <4>1. client'[b] = client[b] /\ About(b)
        BY <2>4, <3>2 DEF Facts, Kept, Only, Clients
      <4> QED BY <2>3, <2>5, <4>1 DEF About, Touches
    <3> QED BY <3>1, <3>2
  <2>10. ArchiveGone'
    BY <2>3, <2>5 DEF Facts, ArchiveGone, Touches
  <2>11. NewEntryNotBounced'
    BY <2>5, <2>6 DEF Facts, NewEntryNotBounced, Asking, Touches
  <2> QED BY <2>7, <2>8, <2>9, <2>10, <2>11 DEF Facts
<1>9. ASSUME NEW e \in Entries, SkipNetwork(e) \/ RetrySetup(e) PROVE Inv'
  <2>1. entry' \in [Entries -> EntryStates] /\ SameLife
    BY <1>9 DEF SkipNetwork, RetrySetup, TypeOK, EntryStates, SameLife
  <2>2. UNCHANGED <<portalVars, file, client, late>>
    BY <1>9 DEF SkipNetwork, RetrySetup
  <2>3. TypeOK'
    BY <2>1, <2>2 DEF TypeOK, portalVars
  <2> QED BY <2>1, <2>2, <2>3, NobodyMoves
<1>10. ASSUME NEW e \in Entries, Reload(e) PROVE Inv'
  <2>1. client' = Unloaded(e) /\ UNCHANGED <<portalVars, file, late>>
    BY <1>10 DEF Reload
  <2>2. entry' \in [Entries -> EntryStates] /\ SameLife
    <3>1. PICK n \in EntryStates : n = [entry[e] EXCEPT !.state = "setup"] /\ n.state = "setup"
      <4>1. PICK x \in EntryStates : x = entry[e]
        BY DEF TypeOK
      <4>2. /\ [x EXCEPT !.state = "setup"] \in EntryStates
            /\ [x EXCEPT !.state = "setup"].state = "setup"
        BY DEF EntryStates
      <4> QED BY <4>1, <4>2
    <3>2. [n EXCEPT !.reload = FALSE] \in EntryStates /\ [n EXCEPT !.reload = FALSE].state = "setup"
      BY <3>1 DEF EntryStates
    <3>3. entry' = [entry EXCEPT ![e] = [n EXCEPT !.reload = FALSE]]
      BY <1>10, <3>1 DEF Reload, TypeOK
    <3> QED BY <1>10, <3>2, <3>3 DEF Reload, TypeOK, SameLife
  <2>3. TypeOK'
    BY <2>1, <2>2, Unloads DEF TypeOK, portalVars
  <2>4. \A i \in Entries : Exists(i)' <=> Exists(i)
    BY <2>2 DEF Exists, SameLife
  <2>5. /\ \A d \in Dialogs : client'[d] = client[d]
        /\ \A c \in Cycles : /\ client'[c].step = client[c].step /\ client'[c].of = client[c].of
                              /\ client'[c].never = client[c].never
    BY <2>1, Unloads DEF Clients
  <2>6. Named' /\ Open'
    <3>1. \A d \in Dialogs : client[d].of # NULL => client[d].of \in Entries
      BY DEF TypeOK, ClientStates, Clients
    <3> QED BY <2>4, <2>5, <3>1 DEF Facts, Named, Open, Exists
  <2>7. Kept'
    <3> SUFFICES ASSUME NEW b \in Cycles, client'[b].step # "idle" PROVE About(b)'
      BY DEF Kept
    <3> QED BY <2>1, <2>2, <2>5 DEF Facts, Kept, About, SameLife
  <2>8. ArchiveGone' /\ NewEntryNotBounced'
    BY <2>1, <2>2, <2>5 DEF Facts, ArchiveGone, NewEntryNotBounced, Asking, SameLife
  <2> QED BY <2>3, <2>6, <2>7, <2>8 DEF Facts
<1>11. ASSUME NEW e \in Entries, Remove(e) PROVE Inv'
  <2>1. /\ \A c \in Cycles : /\ client'[c].step = client[c].step /\ client'[c].of = client[c].of
                              /\ client'[c].never = client[c].never
        /\ \A d \in Dialogs : client'[d] = IF client[d].step # "idle" /\ client[d].of = e
                                           THEN Idle ELSE client[d]
        /\ client' \in [Clients -> ClientStates]
    BY <1>11, Unloads, IdleTyped, AccountAssumption DEF Remove, Asking, Clients
  <2>2. /\ entry' \in [Entries -> EntryStates] /\ entry'[e].state = "removed"
        /\ \A i \in Entries : i # e => entry'[i] = entry[i]
    <3>1. [NoEntry EXCEPT !.state = "removed"] \in EntryStates
          /\ [NoEntry EXCEPT !.state = "removed"].state = "removed"
      <4>1. NoEntry \in EntryStates
        BY DEF NoEntry, EntryStates
      <4>2. [NoEntry EXCEPT !.state = "removed"] \in EntryStates
        BY <4>1 DEF EntryStates
      <4> QED BY <4>2 DEF NoEntry
    <3> QED BY <1>11, <3>1 DEF Remove, TypeOK
  <2>3. /\ file' = [file EXCEPT ![e] = "none"] /\ late \subseteq late' /\ late' \subseteq Entries
        /\ \A c \in Cycles : client[c].step # "idle" /\ client[c].of = e => e \in late'
    BY <1>11 DEF Remove, DeleteArchive, Running, TypeOK
  <2>4. TypeOK'
    BY <1>11, <2>1, <2>2, <2>3 DEF Remove, TypeOK, portalVars
  <2>5. Exists(e)
    BY <1>11 DEF Remove, Exists
  <2>6. Named'
    <3>1. \A d \in Dialogs : ~client'[d].named
      BY <2>1, <2>5, IdleTyped DEF Facts, Named
    <3> QED BY <3>1 DEF Named
  <2>7. Open'
    <3>1. \A d \in Dialogs : client'[d].step # "idle" => client'[d] = client[d] /\ client[d].of # e
      BY <2>1, IdleTyped
    <3>2. \A d \in Dialogs : client[d].of # NULL => client[d].of \in Entries
      BY DEF TypeOK, ClientStates, Clients
    <3> QED BY <2>2, <3>1, <3>2 DEF Facts, Open, Exists
  <2>8. Kept'
    <3> SUFFICES ASSUME NEW b \in Cycles, client'[b].step # "idle" PROVE About(b)'
      BY DEF Kept
    <3>1. About(b) /\ client'[b].of = client[b].of /\ client'[b].step = client[b].step
          /\ client'[b].never = client[b].never /\ client[b].step # "idle"
      BY <2>1 DEF Facts, Kept
    <3>2. CASE client[b].of = e
      BY <2>2, <2>3, <3>1, <3>2 DEF About
    <3>3. CASE client[b].of # e
      BY <2>2, <2>3, <3>1, <3>3 DEF About, TypeOK
    <3> QED BY <3>2, <3>3
  <2>9. ArchiveGone'
    BY <2>2, <2>3 DEF Facts, ArchiveGone, TypeOK
  <2>10. NewEntryNotBounced'
    BY <2>1, <2>3, IdleTyped DEF Facts, NewEntryNotBounced, Asking, TypeOK
  <2> QED BY <2>4, <2>6, <2>7, <2>8, <2>9, <2>10 DEF Facts
<1>12. CASE ChangePassword \/ CalmDown \/ PortalRecovers \/ UNCHANGED vars
  <2>1. UNCHANGED <<entry, file, client, late>> /\ TypeOK'
    BY <1>12 DEF ChangePassword, CalmDown, PortalRecovers, vars, portalVars, TypeOK
  <2> QED BY <2>1, NobodyMoves DEF SameLife
<1> QED BY <1>1, <1>2, <1>3, <1>4, <1>5, <1>6, <1>7, <1>8, <1>9, <1>10, <1>11, <1>12
        DEF Next, CycleStep, Refresh, Clients

LEMMA Invariant == Spec => []Inv
BY Initially, Inductive, PTL DEF Spec

\* Entries, archives and clients keep their shape.
THEOREM Typed == Spec => []TypeOK
<1>1. Inv => TypeOK
  BY DEF Inv
<1> QED BY <1>1, Invariant, PTL

\* However many dialogs and cycles overlap, an entry whose archive never saw a
\* successful fetch is not sent to re-authentication (_fetch_cycle).
THEOREM NewEntriesRetry == Spec => []NewEntryNotBounced
<1>1. Inv => NewEntryNotBounced
  BY DEF Inv, Facts
<1> QED BY <1>1, Invariant, PTL

\* A removed entry leaves no archive (async_remove_entry), unless one of its
\* cycles outlived it.
THEOREM RemovedWithArchive == Spec => []ArchiveGone
<1>1. Inv => ArchiveGone
  BY DEF Inv, Facts
<1> QED BY <1>1, Invariant, PTL
-----------------------------------------------------------------------------
(* Whose password a cycle has *)

\* A cycle that has yet to log in holds the password of its entry, unless it is
\* a stray or its entry is about to be reloaded with another one.
Current == \A c \in Cycles :
  client[c].step \in {"ask", "post"} /\ ~client[c].stray /\ ~entry[client[c].of].reload =>
    client[c].password = entry[client[c].of].password

\* A closed dialog is about nothing.
Rested == \A d \in Dialogs : client[d].step = "idle" => client[d].of = NULL

\* No entry but one about to be reloaded gets another password.
SamePasswords == \A i \in Entries :
  entry[i].state # "none" =>
    \/ entry'[i].reload
    \/ entry'[i].password = entry[i].password /\ entry'[i].reload = entry[i].reload

\* Cycle b keeps what it is about, or is past its login.
Stays(b) ==
  \/ client'[b] = client[b]
  \/ client'[b].step \notin {"ask", "post"}

LEMMA CurrentKept ==
  ASSUME Inv, Current, SamePasswords, \A b \in Cycles : Stays(b)
  PROVE  Current'
<1> SUFFICES ASSUME NEW b \in Cycles, client'[b].step \in {"ask", "post"}, ~client'[b].stray,
                    ~entry'[client'[b].of].reload
             PROVE  client'[b].password = entry'[client'[b].of].password
  BY DEF Current
<1>1. client'[b] = client[b]
  BY DEF Stays
<1>2. client[b].of \in Entries /\ entry[client[b].of].state # "none"
  BY <1>1 DEF Inv, Facts, Kept, About
<1> QED BY <1>1, <1>2 DEF SamePasswords, Current

LEMMA SettledPasswords ==
  ASSUME TypeOK, NEW e \in Entries, NEW c \in Clients, NEW state \in {"loaded", "retry", "error"},
         entry' = Settled(e, c, state)
  PROVE  SamePasswords
BY DEF TypeOK, Settled, EntryStates, SamePasswords

\* The end of a cycle, and the dialog it may open.
LEMMA EndsCurrent ==
  ASSUME Inv, Current, Rested, NEW c \in Cycles, client[c].step # "idle",
         \/ UpdateFails(c)
         \/ AuthFails(c)
         \/ client' = [client EXCEPT ![c] = Idle] /\ entry' = Settled(client[c].of, c, "loaded")
  PROVE  Current' /\ Rested'
<1> USE AccountAssumption DEF Clients
<1>1. c \in Clients /\ client[c].of \in Entries /\ TypeOK
  BY DEF Inv, Facts, Kept, About
<1>2. SamePasswords
  BY <1>1, SettledPasswords DEF UpdateFails, AuthFails
<1>3. /\ \A b \in Cycles : client'[b] = client[b] \/ client'[b] = Idle
      /\ \A d \in Dialogs : \/ client'[d] = client[d]
                            \/ client'[d] = [Idle EXCEPT !.step = "form", !.of = client[c].of]
  BY <1>1 DEF TypeOK, UpdateFails, AuthFails, Free
<1>4. \A b \in Cycles : Stays(b)
  BY <1>3, IdleTyped DEF Stays
<1>5. Rested'
  BY <1>3 DEF Rested, Idle
<1> QED BY <1>2, <1>4, <1>5, CurrentKept

LEMMA LoginCurrent ==
  ASSUME Inv, Current, Rested, NEW c \in Clients, Login(c)
  PROVE  Current' /\ Rested'
<1> USE AccountAssumption DEF Clients
<1>1. TypeOK
  BY DEF Inv
<1>2. ASSUME NEW verdict, LoginFails(c, verdict), client[c].step \in {"post", "landing"}
      PROVE  Current' /\ Rested'
  <2>1. CASE c \in Cycles
    <3>1. UpdateFails(c) \/ AuthFails(c)
      BY <1>2, <2>1 DEF LoginFails, Rejected
    <3> QED BY <1>2, <2>1, <3>1, EndsCurrent
  <2>2. CASE c \in Dialogs
    <3>1. /\ client' = [client EXCEPT ![c].step = "form", ![c].password = NULL]
          /\ entry' = entry
      BY <1>2, <2>2 DEF LoginFails
    <3>2. Only(c) /\ client'[c].step = "form"
      BY <1>1, <3>1, Writes
    <3>3. Current'
      BY <2>2, <3>1, <3>2, CurrentKept DEF SamePasswords, Stays, Only
    <3> QED BY <3>2, <3>3 DEF Rested, Only
  <2> QED BY <2>1, <2>2
<1>3. CASE PostAccepted(c)
  <2>1. Only(c) /\ client'[c].step = "landing" /\ entry' = entry
    <3>1. client' = [client EXCEPT ![c].step = "landing"]
      BY <1>3 DEF PostAccepted
    <3>2. NULL \in Passwords \cup {NULL} /\ TRUE \in BOOLEAN
      OBVIOUS
    <3> QED BY <1>1, <1>3, <3>1, <3>2, Writes DEF PostAccepted
  <2>2. Current'
    BY <2>1, CurrentKept DEF SamePasswords, Stays, Only
  <2> QED BY <2>1, <2>2 DEF Rested, Only
<1>4. CASE PostRejected(c) \/ PostFails(c) \/ LandElsewhere(c)
  BY <1>2, <1>4 DEF PostRejected, PostFails, LandElsewhere
<1>5. CASE LandInApp(c)
  <2>1. CASE c \in Dialogs /\ client[c].of = NULL
    <3>1. CreateEntry(c)
      BY <1>5, <2>1 DEF LandInApp
    <3>2. \A i \in Entries : ~Exists(i)
      BY <1>5, <2>1 DEF LandInApp, Inv, Facts, Open, Named
    <3>3. SamePasswords
      BY <3>1, <3>2 DEF CreateEntry, SamePasswords, Unused
    <3>4. Only(c) /\ client'[c] = Idle
      BY <1>1, <3>1, Idles DEF CreateEntry, TypeOK
    <3>5. Current'
      BY <2>1, <3>3, <3>4, CurrentKept DEF Stays, Only
    <3> QED BY <3>4, <3>5 DEF Rested, Only, Idle
  <2>2. CASE c \in Dialogs /\ client[c].of # NULL
    <3>1. UpdateEntry(c)
      BY <1>5, <2>2 DEF LandInApp
    <3>2. SamePasswords
      <4> DEFINE e == client[c].of
      <4>1. PICK x \in EntryStates : x = [entry[e] EXCEPT !.password = client[c].password]
        <5>1. entry[e] \in EntryStates /\ client[c].password \in Passwords \cup {NULL}
          BY <1>1, <2>2 DEF TypeOK, ClientStates
        <5> QED BY <5>1 DEF EntryStates
      <4>2. entry' = [entry EXCEPT ![e] = [x EXCEPT !.reload = TRUE]]
        BY <1>1, <3>1, <4>1 DEF UpdateEntry, TypeOK
      <4>3. [x EXCEPT !.reload = TRUE].reload = TRUE
        BY DEF EntryStates
      <4> QED BY <1>1, <4>2, <4>3 DEF SamePasswords, TypeOK
    <3>3. Only(c) /\ client'[c] = Idle
      BY <1>1, <3>1, Idles DEF UpdateEntry, TypeOK
    <3>4. Current'
      BY <2>2, <3>2, <3>3, CurrentKept DEF Stays, Only
    <3> QED BY <3>3, <3>4 DEF Rested, Only, Idle
  <2>3. CASE c \in Cycles
    <3>1. /\ client' = [client EXCEPT ![c].step = "pages", ![c].password = NULL, ![c].never = FALSE]
          /\ entry' = entry
      BY <1>5, <2>3 DEF LandInApp
    <3>2. Only(c) /\ client'[c].step = "pages"
      BY <1>1, <3>1, Writes
    <3>3. Current'
      BY <3>1, <3>2, CurrentKept DEF SamePasswords, Stays, Only
    <3> QED BY <2>3, <3>2, <3>3 DEF Rested, Only
  <2> QED BY <2>1, <2>2, <2>3
<1> QED BY <1>3, <1>4, <1>5 DEF Login

LEMMA CurrentNext ==
  ASSUME Inv, Current, Rested, [Next]_vars
  PROVE  Current' /\ Rested'
<1> USE AccountAssumption DEF Clients
<1>1. TypeOK
  BY DEF Inv
<1>2. ASSUME NEW c \in Clients, Login(c) PROVE Current' /\ Rested'
  BY <1>2, LoginCurrent
<1>3. ASSUME NEW c \in Cycles, AskArchive(c) PROVE Current' /\ Rested'
  <2>1. /\ \A b \in Clients : /\ client'[b].of = client[b].of
                              /\ client'[b].password = client[b].password
                              /\ client'[b].stray = client[b].stray
        /\ \A b \in Clients \ {c} : client'[b] = client[b]
        /\ client[c].step = "ask" /\ entry' = entry
    BY <1>1, <1>3 DEF AskArchive, TypeOK, ClientStates
  <2> QED BY <2>1 DEF Current, Rested
<1>4. ASSUME NEW c \in Cycles, CycleSucceeds(c) \/ PagesFail(c) PROVE Current' /\ Rested'
  BY <1>4, EndsCurrent DEF CycleSucceeds, PagesFail
<1>5. ASSUME NEW d \in Dialogs, SubmitUser(d) \/ SubmitReauth(d) \/ CloseDialog(d)
      PROVE  Current' /\ Rested'
  <2>1. /\ entry' = entry /\ Only(d)
        /\ \/ client'[d] = Idle
           \/ client'[d].step = "post"
    <3>1. CASE SubmitUser(d)
      <4>1. PICK r : /\ client' = [client EXCEPT ![d] = r]
                     /\ r = Idle \/ r.step = "post"
        <5>1. \A p \in Passwords :
                [Idle EXCEPT !.step = "post", !.password = p, !.named = TRUE].step = "post"
          BY DEF Idle
        <5> QED BY <3>1, <5>1 DEF SubmitUser
      <4> QED BY <1>1, <3>1, <4>1 DEF SubmitUser, TypeOK, Only
    <3>2. CASE SubmitReauth(d)
      <4>1. PICK p \in Passwords : client' = [client EXCEPT ![d].step = "post", ![d].password = p]
        BY <3>2 DEF SubmitReauth
      <4> QED BY <1>1, <3>2, <4>1, Writes DEF SubmitReauth
    <3>3. CASE CloseDialog(d)
      BY <1>1, <3>3 DEF CloseDialog, TypeOK, Only
    <3> QED BY <1>5, <3>1, <3>2, <3>3
  <2>2. Current'
    BY <2>1, CurrentKept DEF SamePasswords, Stays, Only
  <2> QED BY <2>1, <2>2 DEF Rested, Only, Idle
<1>6. ASSUME NEW c \in Cycles, NEW e \in Entries, StartCycle(c, e) PROVE Current' /\ Rested'
  <2>1. /\ client'[c].of = e /\ client'[c].password = entry[e].password /\ entry' = entry
        /\ \A b \in Clients \ {c} : client'[b] = client[b]
    BY <1>1, <1>6 DEF StartCycle, TypeOK, Idle
  <2> QED BY <2>1 DEF Current, Rested
<1>7. ASSUME NEW e \in Entries, SkipNetwork(e) \/ RetrySetup(e) PROVE Current' /\ Rested'
  <2>1. client' = client /\ SamePasswords
    BY <1>1, <1>7 DEF SkipNetwork, RetrySetup, SamePasswords, TypeOK, EntryStates
  <2> QED BY <2>1, CurrentKept DEF Stays, Rested
<1>8. ASSUME NEW e \in Entries, Reload(e) \/ Remove(e) PROVE Current' /\ Rested'
  <2>1. \A i \in Entries : i # e => entry'[i] = entry[i]
    BY <1>1, <1>8 DEF Reload, Remove, TypeOK
  <2>2. \A b \in Cycles : /\ client[b].of = e => client'[b].stray
                          /\ client[b].of # e => client'[b] = client[b]
                          /\ client'[b].of = client[b].of
    <3>1. \A b \in Cycles : client'[b] = Unloaded(e)[b]
      BY <1>8 DEF Reload, Remove, Asking
    <3> QED BY <1>1, <3>1 DEF Unloaded, TypeOK, ClientStates
  <2>3. Current'
    <3> SUFFICES ASSUME NEW b \in Cycles, client'[b].step \in {"ask", "post"},
                        ~client'[b].stray, ~entry'[client'[b].of].reload
                 PROVE  client'[b].password = entry'[client'[b].of].password
      BY DEF Current
    <3>1. client'[b] = client[b] /\ client[b].of # e
      BY <2>2
    <3>2. client[b].of \in Entries
      BY <3>1 DEF Inv, Facts, Kept, About
    <3> QED BY <2>1, <3>1, <3>2 DEF Current
  <2>4. \A d \in Dialogs : client'[d] \in {client[d], Idle}
    BY <1>8, <1>1, Unloads DEF Reload, Remove
  <2> QED BY <2>3, <2>4 DEF Rested, Idle
<1>9. CASE ChangePassword \/ CalmDown \/ PortalRecovers \/ UNCHANGED vars
  BY <1>9 DEF ChangePassword, CalmDown, PortalRecovers, vars, Current, Rested
<1> QED BY <1>2, <1>3, <1>4, <1>5, <1>6, <1>7, <1>8, <1>9 DEF Next, CycleStep, Refresh

\* A step that ends a cycle and opens a dialog is a rejected login.
LEMMA OpensByRejection ==
  ASSUME Inv, Rested, [Next]_vars, NEW c \in Cycles, NEW d \in Dialogs,
         client[c].step # "idle", client'[c].step = "idle",
         client[d].step = "idle", client'[d].of # NULL
  PROVE  PostRejected(c)
<1> USE AccountAssumption DEF Clients
<1>1. TypeOK /\ client[d].of = NULL /\ c # d
  BY DEF Inv, Rested
<1>2. client'[d] # client[d] /\ client'[c] # client[c]
  BY <1>1
<1>3. ASSUME NEW b \in Clients, Login(b) PROVE PostRejected(c)
  <2>1. CASE PostAccepted(b)
    BY <1>1, <1>2, <2>1 DEF PostAccepted, TypeOK
  <2>2. ASSUME NEW verdict, LoginFails(b, verdict), verdict # "auth" PROVE FALSE
    BY <1>1, <1>2, <2>2 DEF LoginFails, UpdateFails, TypeOK
  <2>3. CASE PostFails(b) \/ LandElsewhere(b)
    <3>1. \A landing \in Landings : Verdict(landing) # "auth"
      BY DEF Verdict
    <3> QED BY <2>2, <2>3, <3>1 DEF PostFails, LandElsewhere
  <2>4. CASE LandInApp(b)
    BY <1>1, <1>2, <2>4 DEF LandInApp, CreateEntry, UpdateEntry, TypeOK
  <2>5. CASE PostRejected(b)
    <3>1. b = c
      BY <1>1, <1>2, <2>5 DEF PostRejected, LoginFails, Rejected, UpdateFails, AuthFails, TypeOK
    <3> QED BY <2>5, <3>1
  <2> QED BY <1>3, <2>1, <2>3, <2>4, <2>5 DEF Login
<1>4. ASSUME NEW b \in Cycles, AskArchive(b) \/ CycleSucceeds(b) \/ PagesFail(b) PROVE FALSE
  BY <1>1, <1>2, <1>4 DEF AskArchive, CycleSucceeds, PagesFail, UpdateFails, TypeOK
<1>5. ASSUME NEW o \in Dialogs, SubmitUser(o) \/ SubmitReauth(o) \/ CloseDialog(o) PROVE FALSE
  BY <1>1, <1>2, <1>5 DEF SubmitUser, SubmitReauth, CloseDialog, TypeOK
<1>6. ASSUME NEW e \in Entries, Refresh(e) PROVE FALSE
  BY <1>1, <1>2, <1>6 DEF Refresh, StartCycle, SkipNetwork, TypeOK
<1>7. ASSUME NEW e \in Entries, Reload(e) \/ RetrySetup(e) \/ Remove(e) PROVE FALSE
  <2>1. client'[d] = client[d] \/ client'[d] = Idle
    BY <1>1, <1>7, Unloads DEF Reload, RetrySetup, Remove
  <2> QED BY <1>2, <2>1 DEF Idle
<1>8. CASE ChangePassword \/ CalmDown \/ PortalRecovers \/ UNCHANGED vars
  BY <1>2, <1>8 DEF ChangePassword, CalmDown, PortalRecovers, vars
<1> QED BY <1>3, <1>4, <1>5, <1>6, <1>7, <1>8 DEF Next, CycleStep

\* The user is asked for a password only after the portal has rejected the one that
\* is stored, as answer to the login itself (_fetch_cycle, attempt_login): never
\* for a login page, an interstitial, another app or no answer, and, while the
\* portal answers well and no other login came first, only when it is wrong.
THEOREM OnlyWarranted == Spec => ReauthWarranted
<1>1. Init => Current /\ Rested
  BY IdleTyped, AccountAssumption DEF Init, Current, Rested, Idle, Clients
<1>2. Inv /\ Current /\ Rested /\ [Next]_vars => (Current /\ Rested)'
  BY CurrentNext
<1>3. Inv /\ Current /\ Rested /\ [Next]_vars =>
        \A c \in Cycles, d \in Dialogs :
          LET e == client[c].of IN
          /\ client[c].step # "idle" /\ client'[c].step = "idle"
          /\ client[d].step = "idle" /\ client'[d].of = e /\ e # NULL
          /\ ~client[c].stray /\ ~entry[e].reload
          => /\ client[c].step = "post" /\ client[c].password = entry[e].password
             /\ healthy /\ ~recent => entry[e].password # right
  <2> SUFFICES ASSUME Inv, Current, Rested, [Next]_vars, NEW c \in Cycles, NEW d \in Dialogs,
                      client[c].step # "idle", client'[c].step = "idle",
                      client[d].step = "idle", client'[d].of = client[c].of, client[c].of # NULL,
                      ~client[c].stray, ~entry[client[c].of].reload
               PROVE  /\ client[c].step = "post"
                      /\ client[c].password = entry[client[c].of].password
                      /\ healthy /\ ~recent => entry[client[c].of].password # right
    OBVIOUS
  <2>1. PostRejected(c)
    BY OpensByRejection
  <2>2. client[c].step = "post" /\ (healthy /\ ~recent => client[c].password # right)
    BY <2>1 DEF PostRejected, Inv, TypeOK
  <2>3. client[c].password = entry[client[c].of].password
    BY <2>2 DEF Current
  <2> QED BY <2>2, <2>3
<1> QED BY <1>1, <1>2, <1>3, Invariant, PTL DEF Spec, ReauthWarranted

-----------------------------------------------------------------------------
(* Archives *)

\* An archive with readings goes with its entry and in no other way
\* (async_remove_entry; a new entry never takes the place of an old one).
THEOREM ArchivesKept == Spec => ArchiveKept
<1>1. Inv /\ [Next]_vars =>
        \A e \in Entries : file[e] = "fetched" /\ file'[e] # "fetched" => Remove(e)
  <2> SUFFICES ASSUME Inv, [Next]_vars, NEW e \in Entries, file[e] = "fetched",
                      file'[e] # "fetched"
               PROVE  Remove(e)
    OBVIOUS
  <2> USE AccountAssumption DEF Clients
  <2>1. TypeOK /\ file' # file
    BY DEF Inv
  <2>2. ASSUME NEW c \in Clients, Login(c) PROVE FALSE
    <3>1. c \in Dialogs /\ client[c].of = NULL /\ client[c].step = "landing" /\ CreateEntry(c)
      BY <2>1, <2>2 DEF Login, PostAccepted, PostRejected, PostFails, LandElsewhere, LandInApp,
         UpdateEntry
    <3>2. ~Exists(e)
      BY <3>1 DEF Inv, Facts, Open, Named
    <3> QED BY <3>1, <3>2 DEF CreateEntry
  <2>3. ASSUME NEW c \in Cycles, AskArchive(c) \/ CycleSucceeds(c) \/ PagesFail(c) PROVE FALSE
    BY <2>1, <2>3 DEF AskArchive, CycleSucceeds, PagesFail, Touched, TypeOK
  <2>4. ASSUME NEW d \in Dialogs, SubmitUser(d) \/ SubmitReauth(d) \/ CloseDialog(d) PROVE FALSE
    BY <2>1, <2>4 DEF SubmitUser, SubmitReauth, CloseDialog
  <2>5. ASSUME NEW i \in Entries, Refresh(i) \/ Reload(i) \/ RetrySetup(i) PROVE FALSE
    BY <2>1, <2>5 DEF Refresh, StartCycle, SkipNetwork, Reload, RetrySetup, Touched, TypeOK
  <2>6. ASSUME NEW i \in Entries, Remove(i) PROVE Remove(e)
    <3>1. i = e
      BY <2>1, <2>6 DEF Remove, TypeOK
    <3> QED BY <2>6, <3>1
  <2>7. CASE ChangePassword \/ CalmDown \/ PortalRecovers \/ UNCHANGED vars
    BY <2>1, <2>7 DEF ChangePassword, CalmDown, PortalRecovers, vars
  <2> QED BY <2>2, <2>3, <2>4, <2>5, <2>6, <2>7 DEF Next, CycleStep
<1> QED BY <1>1, Invariant, PTL DEF Spec, ArchiveKept
=============================================================================
