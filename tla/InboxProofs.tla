---------------------------- MODULE InboxProofs ----------------------------
(* What holds of uploads for any number of clients, names and files.         *)
EXTENDS Inbox, TLAPS

Stages == {"no", "parent", "delete", "ingest"}

InboxTypes ==
  /\ entry \in [Names -> Uploads \union {Nil}]
  /\ fid \in [Uploads -> Clients \union {Nil}]
  /\ at \in [Clients -> Uploads \union {Nil}]
  /\ isOpen \in [Clients -> BOOLEAN]
  /\ staged \in [Clients -> Seq(Data) \union {Nil}]
  /\ wrote \in [Clients -> Seq(Data)]
  /\ closing \in [Clients -> Stages]
  /\ held \in [Clients -> Clients \union {Nil}]

\* An open fid is the one its file has a handle for, and the other way round.
Owned ==
  /\ \A f \in Clients : isOpen[f] => at[f] # Nil /\ fid[at[f]] = f /\ closing[f] = "no"
  /\ \A u \in Uploads : fid[u] # Nil => isOpen[fid[u]] /\ at[fid[u]] = u
  /\ \A f \in Clients : closing[f] # "no" => at[f] # Nil

Apart == InboxTypes /\ Owned /\ UploadsKeepApart

\* At first no fid is open.
LEMMA InitApart == InboxInit => Apart
  BY InboxAssumption DEF InboxInit, Apart, InboxTypes, Owned, UploadsKeepApart, Stages

\* Open gives the file a handle for f, or does nothing.
LEMMA OpenedTypes ==
  ASSUME InboxTypes, NEW f \in Clients, NEW u \in Uploads,
         NEW fids \in [Uploads -> Clients \union {Nil}], Opened(fids, u, f)
  PROVE  /\ fid' \in [Uploads -> Clients \union {Nil}]
         /\ isOpen' \in [Clients -> BOOLEAN]
         /\ staged' \in [Clients -> Seq(Data) \union {Nil}]
         /\ wrote' \in [Clients -> Seq(Data)]
<1> DEFINE none == <<>>
<1>1. none \in Seq(Data)
  OBVIOUS
<1>2. CASE /\ fid' = [fids EXCEPT ![u] = f]
           /\ isOpen' = [isOpen EXCEPT ![f] = TRUE]
           /\ staged' = [staged EXCEPT ![f] = none]
           /\ wrote' = [wrote EXCEPT ![f] = none]
  <2> HIDE DEF none
  <2> QED
    BY <1>1, <1>2 DEF InboxTypes
<1>3. CASE fid' = fids /\ UNCHANGED <<isOpen, staged, wrote>>
  BY <1>3 DEF InboxTypes
<1> QED
  BY <1>2, <1>3 DEF Opened

\* Create.
LEMMA CreateApart ==
  ASSUME Apart, NEW f \in Clients, NEW n \in Names, Create(f, n)
  PROVE  Apart'
<1>0. PICK u \in Uploads :
        /\ Gone(u) /\ at[f] = Nil
        /\ Opened([fid EXCEPT ![u] = Nil], u, f)
        /\ entry' = [entry EXCEPT ![n] = u]
        /\ at' = [at EXCEPT ![f] = u]
        /\ UNCHANGED <<closing, held>>
  BY DEF Create
<1>1. InboxTypes'
  <2>1. [fid EXCEPT ![u] = Nil] \in [Uploads -> Clients \union {Nil}]
    BY DEF Apart, InboxTypes
  <2>2. /\ fid' \in [Uploads -> Clients \union {Nil}]
        /\ isOpen' \in [Clients -> BOOLEAN]
        /\ staged' \in [Clients -> Seq(Data) \union {Nil}]
        /\ wrote' \in [Clients -> Seq(Data)]
    BY <1>0, <2>1, OpenedTypes DEF Apart
  <2>3. entry' \in [Names -> Uploads \union {Nil}] /\ at' \in [Clients -> Uploads \union {Nil}]
    BY <1>0 DEF Apart, InboxTypes
  <2> QED
    BY <1>0, <2>2, <2>3 DEF Apart, InboxTypes
<1>2. Owned'
  <2>1. /\ fid[u] = Nil /\ ~isOpen[f] /\ closing[f] = "no"
        /\ [fid EXCEPT ![u] = Nil] = fid
    BY <1>0, InboxAssumption DEF Apart, InboxTypes, Owned, Gone
  <2>2. /\ at' \in [Clients -> Uploads \union {Nil}]
        /\ at'[f] = u /\ \A g \in Clients \ {f} : at'[g] = at[g] /\ at[g] # u
        /\ closing' = closing /\ u # Nil
    BY <1>0, InboxAssumption DEF Apart, InboxTypes, Gone, Uploads
  <2>3. CASE fid' = [fid EXCEPT ![u] = f] /\ isOpen' = [isOpen EXCEPT ![f] = TRUE]
    <3>1. /\ fid'[u] = f /\ \A v \in Uploads \ {u} : fid'[v] = fid[v]
          /\ isOpen'[f] /\ \A g \in Clients \ {f} : isOpen'[g] <=> isOpen[g]
      BY <2>3 DEF Apart, InboxTypes
    <3>2. ASSUME NEW g \in Clients, isOpen'[g]
          PROVE  at'[g] # Nil /\ fid'[at'[g]] = g /\ closing'[g] = "no"
      <4>1. CASE g = f
        BY <4>1, <2>1, <2>2, <3>1
      <4>2. CASE g # f
        <5>1. at[g] # Nil /\ at[g] \in Uploads /\ fid[at[g]] = g /\ closing[g] = "no"
          BY <4>2, <3>1, <3>2 DEF Apart, InboxTypes, Owned
        <5> QED
          BY <4>2, <5>1, <2>2, <3>1
      <4> QED
        BY <4>1, <4>2
    <3>3. ASSUME NEW v \in Uploads, fid'[v] # Nil
          PROVE  isOpen'[fid'[v]] /\ at'[fid'[v]] = v
      <4>1. CASE v = u
        BY <4>1, <2>2, <3>1
      <4>2. CASE v # u
        <5>1. fid[v] \in Clients /\ isOpen[fid[v]] /\ at[fid[v]] = v /\ fid'[v] = fid[v]
          BY <4>2, <3>1, <3>3 DEF Apart, InboxTypes, Owned
        <5>2. fid[v] # f
          BY <5>1, <2>1
        <5> QED
          BY <5>1, <5>2, <2>2, <3>1
      <4> QED
        BY <4>1, <4>2
    <3>4. \A g \in Clients : closing'[g] # "no" => at'[g] # Nil
      BY <2>1, <2>2 DEF Apart, InboxTypes, Owned
    <3> QED
      BY <3>2, <3>3, <3>4 DEF Owned
  <2>4. CASE fid' = fid /\ isOpen' = isOpen
    <3>1. \A g \in Clients : isOpen'[g] => at'[g] # Nil /\ fid'[at'[g]] = g /\ closing'[g] = "no"
      BY <2>1, <2>2, <2>4 DEF Apart, InboxTypes, Owned
    <3>2. \A v \in Uploads : fid'[v] # Nil => isOpen'[fid'[v]] /\ at'[fid'[v]] = v
      BY <2>1, <2>2, <2>4, InboxAssumption DEF Apart, InboxTypes, Owned
    <3>3. \A g \in Clients : closing'[g] # "no" => at'[g] # Nil
      BY <2>1, <2>2 DEF Apart, InboxTypes, Owned
    <3> QED
      BY <3>1, <3>2, <3>3 DEF Owned
  <2> QED
    BY <1>0, <2>1, <2>3, <2>4 DEF Opened
<1>3. UploadsKeepApart'
  BY InboxAssumption DEF Apart, InboxTypes, Owned, Stages, UploadsKeepApart, Create, Opened, MayOpen, Idle, Gone
<1> QED
  BY <1>1, <1>2, <1>3 DEF Apart

\* Walk.
LEMMA WalkApart ==
  ASSUME Apart, NEW f \in Clients, NEW n \in Names, Walk(f, n)
  PROVE  Apart'
<1>1. InboxTypes'
  BY InboxAssumption DEF Apart, InboxTypes, Owned, Stages, UploadsKeepApart, Walk, Opened, MayOpen, Idle, Gone
<1>2. Owned'
  BY InboxAssumption DEF Apart, InboxTypes, Owned, Stages, UploadsKeepApart, Walk, Opened, MayOpen, Idle, Gone
<1>3. UploadsKeepApart'
  BY InboxAssumption DEF Apart, InboxTypes, Owned, Stages, UploadsKeepApart, Walk, Opened, MayOpen, Idle, Gone
<1> QED
  BY <1>1, <1>2, <1>3 DEF Apart

\* InboxOpen.
LEMMA InboxOpenApart ==
  ASSUME Apart, NEW f \in Clients, InboxOpen(f)
  PROVE  Apart'
<1>0. at[f] \in Uploads /\ fid \in [Uploads -> Clients \union {Nil}]
  BY DEF Apart, InboxTypes, InboxOpen, Idle
<1>1. InboxTypes'
  <2>1. /\ fid' \in [Uploads -> Clients \union {Nil}]
        /\ isOpen' \in [Clients -> BOOLEAN]
        /\ staged' \in [Clients -> Seq(Data) \union {Nil}]
        /\ wrote' \in [Clients -> Seq(Data)]
    BY <1>0, OpenedTypes DEF Apart, InboxOpen
  <2> QED
    BY <2>1 DEF Apart, InboxTypes, InboxOpen
<1>2. Owned'
  <2>1. CASE /\ fid[at[f]] = Nil
             /\ fid' = [fid EXCEPT ![at[f]] = f]
             /\ isOpen' = [isOpen EXCEPT ![f] = TRUE]
    <3>1. UNCHANGED <<at, closing>> /\ ~isOpen[f] /\ closing[f] = "no"
      BY DEF InboxOpen, Idle
    <3>2. /\ fid'[at[f]] = f /\ \A v \in Uploads \ {at[f]} : fid'[v] = fid[v]
          /\ isOpen'[f] /\ \A g \in Clients \ {f} : isOpen'[g] <=> isOpen[g]
      BY <1>0, <2>1 DEF Apart, InboxTypes
    <3>3. at[f] # Nil /\ at' = at /\ closing' = closing /\ fid[at[f]] = Nil /\ f # Nil
      BY <1>0, <2>1, <3>1, InboxAssumption DEF Uploads
    <3>4. ASSUME NEW g \in Clients, isOpen'[g]
          PROVE  at'[g] # Nil /\ fid'[at'[g]] = g /\ closing'[g] = "no"
      <4>1. CASE g = f
        BY <4>1, <3>1, <3>2, <3>3
      <4>2. CASE g # f
        <5>1. at[g] # Nil /\ at[g] \in Uploads /\ fid[at[g]] = g /\ closing[g] = "no" /\ g # Nil
          BY <4>2, <3>2, <3>4, InboxAssumption DEF Apart, InboxTypes, Owned
        <5> QED
          BY <5>1, <3>2, <3>3
      <4> QED
        BY <4>1, <4>2
    <3>5. ASSUME NEW v \in Uploads, fid'[v] # Nil
          PROVE  isOpen'[fid'[v]] /\ at'[fid'[v]] = v
      <4>1. CASE v = at[f]
        BY <4>1, <3>2, <3>3
      <4>2. CASE v # at[f]
        <5>1. fid[v] \in Clients /\ isOpen[fid[v]] /\ at[fid[v]] = v /\ fid'[v] = fid[v]
          BY <4>2, <3>2, <3>5 DEF Apart, InboxTypes, Owned
        <5> QED
          BY <5>1, <3>1, <3>2, <3>3
      <4> QED
        BY <4>1, <4>2
    <3>6. \A g \in Clients : closing'[g] # "no" => at'[g] # Nil
      BY <3>3 DEF Apart, Owned
    <3> QED
      BY <3>4, <3>5, <3>6 DEF Owned
  <2>2. CASE UNCHANGED <<fid, isOpen>>
    BY <2>2 DEF Apart, Owned, InboxOpen
  <2> QED
    BY <2>1, <2>2 DEF InboxOpen, Opened, MayOpen
<1>3. UploadsKeepApart'
  BY InboxAssumption DEF Apart, InboxTypes, Owned, Stages, UploadsKeepApart, InboxOpen, Opened, MayOpen, Idle, Gone
<1> QED
  BY <1>1, <1>2, <1>3 DEF Apart

\* Forget.
LEMMA ForgetApart ==
  ASSUME Apart, NEW f \in Clients, Forget(f)
  PROVE  Apart'
<1>1. InboxTypes'
  BY InboxAssumption DEF Apart, InboxTypes, Owned, Stages, UploadsKeepApart, Forget, Opened, MayOpen, Idle, Gone
<1>2. Owned'
  BY InboxAssumption DEF Apart, InboxTypes, Owned, Stages, UploadsKeepApart, Forget, Opened, MayOpen, Idle, Gone
<1>3. UploadsKeepApart'
  BY InboxAssumption DEF Apart, InboxTypes, Owned, Stages, UploadsKeepApart, Forget, Opened, MayOpen, Idle, Gone
<1> QED
  BY <1>1, <1>2, <1>3 DEF Apart

\* InboxWrite.
LEMMA InboxWriteApart ==
  ASSUME Apart, NEW f \in Clients, NEW d \in Data, InboxWrite(f, d)
  PROVE  Apart'
<1>1. InboxTypes'
  BY InboxAssumption DEF Apart, InboxTypes, Owned, Stages, UploadsKeepApart, InboxWrite, Opened, MayOpen, Idle, Gone
<1>2. Owned'
  BY InboxAssumption DEF Apart, InboxTypes, Owned, Stages, UploadsKeepApart, InboxWrite, Opened, MayOpen, Idle, Gone
<1>3. UploadsKeepApart'
  BY InboxAssumption DEF Apart, InboxTypes, Owned, Stages, UploadsKeepApart, InboxWrite, Opened, MayOpen, Idle, Gone
<1> QED
  BY <1>1, <1>2, <1>3 DEF Apart

\* InboxClose.
LEMMA InboxCloseApart ==
  ASSUME Apart, NEW f \in Clients, InboxClose(f)
  PROVE  Apart'
<1>1. InboxTypes'
  BY InboxAssumption DEF Apart, InboxTypes, Owned, Stages, UploadsKeepApart, InboxClose, Opened, MayOpen, Idle, Gone
<1>2. Owned'
  BY InboxAssumption DEF Apart, InboxTypes, Owned, Stages, UploadsKeepApart, InboxClose, Opened, MayOpen, Idle, Gone
<1>3. UploadsKeepApart'
  BY InboxAssumption DEF Apart, InboxTypes, Owned, Stages, UploadsKeepApart, InboxClose, Opened, MayOpen, Idle, Gone
<1> QED
  BY <1>1, <1>2, <1>3 DEF Apart

\* FindParent.
LEMMA FindParentApart ==
  ASSUME Apart, NEW f \in Clients, FindParent(f)
  PROVE  Apart'
<1>1. InboxTypes'
  BY InboxAssumption DEF Apart, InboxTypes, Owned, Stages, UploadsKeepApart, FindParent, Opened, MayOpen, Idle, Gone
<1>2. Owned'
  BY InboxAssumption DEF Apart, InboxTypes, Owned, Stages, UploadsKeepApart, FindParent, Opened, MayOpen, Idle, Gone
<1>3. UploadsKeepApart'
  BY InboxAssumption DEF Apart, InboxTypes, Owned, Stages, UploadsKeepApart, FindParent, Opened, MayOpen, Idle, Gone
<1> QED
  BY <1>1, <1>2, <1>3 DEF Apart

\* TakeOff.
LEMMA TakeOffApart ==
  ASSUME Apart, NEW f \in Clients, TakeOff(f)
  PROVE  Apart'
<1>1. InboxTypes'
  BY InboxAssumption DEF Apart, InboxTypes, Owned, Stages, UploadsKeepApart, TakeOff, Opened, MayOpen, Idle, Gone
<1>2. Owned'
  BY InboxAssumption DEF Apart, InboxTypes, Owned, Stages, UploadsKeepApart, TakeOff, Opened, MayOpen, Idle, Gone
<1>3. UploadsKeepApart'
  BY InboxAssumption DEF Apart, InboxTypes, Owned, Stages, UploadsKeepApart, TakeOff, Opened, MayOpen, Idle, Gone
<1> QED
  BY <1>1, <1>2, <1>3 DEF Apart

\* Ingest.
LEMMA IngestApart ==
  ASSUME Apart, NEW f \in Clients, Ingest(f)
  PROVE  Apart'
<1>1. InboxTypes'
  BY InboxAssumption DEF Apart, InboxTypes, Owned, Stages, UploadsKeepApart, Ingest, Opened, MayOpen, Idle, Gone
<1>2. Owned'
  BY InboxAssumption DEF Apart, InboxTypes, Owned, Stages, UploadsKeepApart, Ingest, Opened, MayOpen, Idle, Gone
<1>3. UploadsKeepApart'
  BY InboxAssumption DEF Apart, InboxTypes, Owned, Stages, UploadsKeepApart, Ingest, Opened, MayOpen, Idle, Gone
<1> QED
  BY <1>1, <1>2, <1>3 DEF Apart

\* Whatever clients create, open, write and close, in whatever order, each upload
\* is ingested as its own fid wrote it, and none is left behind (InboxFile).
THEOREM KeepApart == InboxSpec => []UploadsKeepApart
<1>1. Apart /\ [InboxNext]_inboxvars => Apart'
  <2> SUFFICES ASSUME Apart, [InboxNext]_inboxvars PROVE Apart'
    OBVIOUS
  <2>1. CASE UNCHANGED inboxvars
    BY <2>1 DEF inboxvars, Apart, InboxTypes, Owned, UploadsKeepApart
  <2>2. CASE InboxNext
    BY <2>2, CreateApart, WalkApart, InboxOpenApart, ForgetApart, InboxWriteApart,
       InboxCloseApart, FindParentApart, TakeOffApart, IngestApart DEF InboxNext
  <2> QED
    BY <2>1, <2>2
<1>2. Apart => UploadsKeepApart
  BY DEF Apart
<1> QED
  BY InitApart, <1>1, <1>2, PTL DEF InboxSpec

-----------------------------------------------------------------------------
(* What is listed. *)

\* The files with a parent are those that are listed, each under its own name.
Parented ==
  /\ \A n \in Names : entry[n] # Nil => named[entry[n]] = n /\ entry[n] \in children
  /\ \A u \in children : u # Nil /\ \E n \in Names : entry[n] = u
  /\ \A f \in Clients : at[f] # Nil => named[at[f]] \in Names

\* Neither a file about to be ingested nor one that was is listed.
Delisted ==
  /\ \A f \in Clients : closing[f] = "ingest" => at[f] \notin children
  /\ \A u \in ended : u \notin children /\ u # Nil

Listing ==
  /\ Apart
  /\ DOMAIN named = Uploads
  /\ Parented /\ Delisted

LEMMA InitListing == InboxInit => Listing
<1>1. InboxInit => Parented /\ Delisted
  BY InboxAssumption DEF InboxInit, Parented, Delisted
<1> QED
  BY <1>1, InitApart DEF Listing, InboxInit

\* A created file is listed in place of one of its name.
LEMMA CreateListing ==
  ASSUME Listing, NEW f \in Clients, NEW n \in Names, Create(f, n)
  PROVE  Listing'
<1>1. PICK u \in Uploads :
        /\ Gone(u) /\ at[f] = Nil
        /\ named' = [named EXCEPT ![u] = n]
        /\ children' = (children \ {entry[n]}) \union {u}
        /\ entry' = [entry EXCEPT ![n] = u]
        /\ at' = [at EXCEPT ![f] = u]
        /\ ended' = ended \ {u}
        /\ closing' = closing
  BY DEF Create
<1>2. /\ \A m \in Names : entry[m] # u
      /\ \A g \in Clients : at[g] # u
      /\ u # Nil
  BY <1>1, InboxAssumption DEF Gone, Uploads
<1>3. /\ entry'[n] = u /\ \A m \in Names \ {n} : entry'[m] = entry[m]
      /\ at'[f] = u /\ \A g \in Clients \ {f} : at'[g] = at[g]
      /\ named'[u] = n /\ \A v \in Uploads \ {u} : named'[v] = named[v]
      /\ DOMAIN named' = Uploads
  BY <1>1 DEF Listing, Apart, InboxTypes
<1>4. \A m \in Names : entry[m] \in Uploads \union {Nil}
  BY DEF Listing, Apart, InboxTypes
<1>5. \A m \in Names \ {n} : entry[m] # Nil => entry[m] # entry[n] /\ named[entry[m]] = m
  BY DEF Listing, Parented
<1>6. Parented'
  <2>1. ASSUME NEW m \in Names, entry'[m] # Nil
        PROVE  named'[entry'[m]] = m /\ entry'[m] \in children'
    <3>1. CASE m = n
      BY <1>1, <1>3, <3>1
    <3>2. CASE m # n
      <4>1. entry'[m] = entry[m] /\ entry[m] \in Uploads \ {u} /\ entry[m] # entry[n]
        BY <1>2, <1>3, <1>4, <1>5, <2>1, <3>2
      <4>2. named[entry[m]] = m /\ entry[m] \in children
        BY <4>1, <2>1 DEF Listing, Parented
      <4> QED
        BY <1>1, <1>3, <4>1, <4>2
    <3> QED
      BY <3>1, <3>2
  <2>2. ASSUME NEW v \in children'
        PROVE  v # Nil /\ \E m \in Names : entry'[m] = v
    <3>1. CASE v = u
      BY <1>2, <1>3, <3>1
    <3>2. CASE v # u
      <4>1. v \in children /\ v # entry[n]
        BY <1>1, <2>2, <3>2
      <4>2. PICK m \in Names : entry[m] = v
        BY <4>1 DEF Listing, Parented
      <4>3. v # Nil /\ m # n
        BY <4>1, <4>2 DEF Listing, Parented
      <4> QED
        BY <1>3, <4>2, <4>3
    <3> QED
      BY <3>1, <3>2
  <2>3. ASSUME NEW g \in Clients, at'[g] # Nil
        PROVE  named'[at'[g]] \in Names
    <3>1. CASE g = f
      BY <1>3, <3>1
    <3>2. CASE g # f
      <4>1. at'[g] = at[g] /\ at[g] \in Uploads \ {u}
        BY <1>2, <1>3, <2>3, <3>2 DEF Listing, Apart, InboxTypes
      <4> QED
        BY <1>3, <2>3, <4>1 DEF Listing, Parented
    <3> QED
      BY <3>1, <3>2
  <2> QED
    BY <2>1, <2>2, <2>3 DEF Parented
<1>7. closing[f] = "no"
  BY <1>1 DEF Listing, Apart, Owned
<1>8. Delisted'
  <2>1. ASSUME NEW g \in Clients, closing'[g] = "ingest"
        PROVE  at'[g] \notin children'
    <3>1. g # f /\ at'[g] = at[g] /\ closing[g] = "ingest"
      BY <1>1, <1>3, <1>7, <2>1
    <3> QED
      BY <1>1, <1>2, <3>1 DEF Listing, Delisted
  <2>2. \A v \in ended' : v \notin children' /\ v # Nil
    BY <1>1 DEF Listing, Delisted
  <2> QED
    BY <2>1, <2>2 DEF Delisted
<1> QED
  BY <1>3, <1>6, <1>8, CreateApart DEF Listing

\* DeleteChild of a file's name takes off whichever file has it, itself included.
LEMMA TakeOffListing ==
  ASSUME Listing, NEW f \in Clients, TakeOff(f)
  PROVE  Listing'
<1> DEFINE n == named[at[f]]
<1>1. /\ closing[f] = "delete" /\ closing' = [closing EXCEPT ![f] = "ingest"]
      /\ children' = children \ {entry[n]}
      /\ entry' = [entry EXCEPT ![n] = Nil]
      /\ UNCHANGED <<named, at, ended>>
  BY DEF TakeOff
<1>2. \A m \in Names : entry'[m] = IF m = n THEN Nil ELSE entry[m]
  BY <1>1 DEF Listing, Apart, InboxTypes
<1>3. \A g \in Clients : closing'[g] = "ingest" => g = f \/ closing[g] = "ingest"
  BY <1>1 DEF Listing, Apart, InboxTypes
<1>4. at[f] \notin children'
  <2> SUFFICES ASSUME at[f] \in children PROVE entry[n] = at[f]
    BY <1>1
  <2>1. PICK m \in Names : entry[m] = at[f]
    BY DEF Listing, Parented
  <2>2. m = n
    BY <2>1 DEF Listing, Parented
  <2> QED
    BY <2>1, <2>2
<1>8. n \in Names
  BY <1>1 DEF Listing, Parented, Apart, Owned
<1> HIDE DEF n
<1>5. Parented'
  <2>1. ASSUME NEW m \in Names, entry'[m] # Nil
        PROVE  named'[entry'[m]] = m /\ entry'[m] \in children'
    <3>1. m # n /\ entry'[m] = entry[m]
      BY <1>2, <2>1
    <3>2. named[entry[m]] = m /\ entry[m] \in children
      BY <2>1, <3>1 DEF Listing, Parented
    <3>3. entry[m] # entry[n]
      BY <1>8, <2>1, <3>1, <3>2 DEF Listing, Parented
    <3> QED
      BY <1>1, <3>1, <3>2, <3>3
  <2>2. ASSUME NEW v \in children'
        PROVE  v # Nil /\ \E m \in Names : entry'[m] = v
    <3>1. v \in children /\ v # entry[n]
      BY <1>1
    <3>2. PICK m \in Names : entry[m] = v
      BY <3>1 DEF Listing, Parented
    <3>3. m # n /\ v # Nil
      BY <3>1, <3>2 DEF Listing, Parented
    <3> QED
      BY <1>2, <3>2, <3>3
  <2> QED
    BY <1>1, <2>1, <2>2 DEF Listing, Parented
<1>6. Delisted'
  BY <1>1, <1>3, <1>4 DEF Listing, Delisted
<1> QED
  BY <1>1, <1>5, <1>6, TakeOffApart DEF Listing

\* A file that is about to be ingested is not listed by then.
LEMMA FindParentListing ==
  ASSUME Listing, NEW f \in Clients, FindParent(f)
  PROVE  Listing'
<1>1. /\ closing' = [closing EXCEPT ![f] = IF at[f] \in children THEN "delete" ELSE "ingest"]
      /\ UNCHANGED <<entry, named, children, at, ended>>
  BY DEF FindParent
<1>2. \A g \in Clients :
        closing'[g] = "ingest" => closing[g] = "ingest" \/ (g = f /\ at[f] \notin children)
  BY <1>1 DEF Listing, Apart, InboxTypes
<1>3. Parented' /\ Delisted'
  BY <1>1, <1>2 DEF Listing, Parented, Delisted
<1> QED
  BY <1>1, <1>3, FindParentApart DEF Listing

LEMMA IngestListing ==
  ASSUME Listing, NEW f \in Clients, Ingest(f)
  PROVE  Listing'
<1>1. /\ closing[f] = "ingest" /\ closing' = [closing EXCEPT ![f] = "no"]
      /\ ended' = ended \union {at[f]} /\ at' = [at EXCEPT ![f] = Nil]
      /\ UNCHANGED <<entry, named, children>>
  BY DEF Ingest
<1>2. /\ closing'[f] = "no" /\ at'[f] = Nil
      /\ \A g \in Clients \ {f} : closing'[g] = closing[g] /\ at'[g] = at[g]
  BY <1>1 DEF Listing, Apart, InboxTypes
<1>3. Parented'
  BY <1>1, <1>2 DEF Listing, Parented
<1>4. at[f] # Nil
  BY <1>1 DEF Listing, Apart, Owned
<1>5. Delisted'
  BY <1>1, <1>2, <1>4 DEF Listing, Delisted
<1> QED
  BY <1>1, <1>3, <1>5, IngestApart DEF Listing

\* A fid that is walked to a listed file, or forgets its file, is in no close.
LEMMA WalkListing ==
  ASSUME Listing, NEW f \in Clients, NEW n \in Names, Walk(f, n)
  PROVE  Listing'
<1>1. /\ at[f] = Nil /\ entry[n] # Nil /\ at' = [at EXCEPT ![f] = entry[n]]
      /\ UNCHANGED <<entry, named, children, closing, ended>>
  BY DEF Walk
<1>2. at'[f] = entry[n] /\ \A g \in Clients \ {f} : at'[g] = at[g]
  BY <1>1 DEF Listing, Apart, InboxTypes
<1>3. closing[f] = "no"
  BY <1>1 DEF Listing, Apart, Owned
<1>4. Parented' /\ Delisted'
  BY <1>1, <1>2, <1>3 DEF Listing, Parented, Delisted
<1> QED
  BY <1>1, <1>4, WalkApart DEF Listing

LEMMA ForgetListing ==
  ASSUME Listing, NEW f \in Clients, Forget(f)
  PROVE  Listing'
<1>1. /\ closing[f] = "no" /\ at' = [at EXCEPT ![f] = Nil]
      /\ UNCHANGED <<entry, named, children, closing, ended>>
  BY DEF Forget, Idle
<1>2. at'[f] = Nil /\ \A g \in Clients \ {f} : at'[g] = at[g]
  BY <1>1 DEF Listing, Apart, InboxTypes
<1>3. Parented' /\ Delisted'
  BY <1>1, <1>2 DEF Listing, Parented, Delisted
<1> QED
  BY <1>1, <1>3, ForgetApart DEF Listing

\* What is opened, written and taken off its handle stays listed as it was.
LEMMA OtherListing ==
  ASSUME Listing, NEW f \in Clients,
         InboxOpen(f) \/ InboxClose(f) \/ \E d \in Data : InboxWrite(f, d)
  PROVE  Listing'
<1>1. UNCHANGED <<entry, named, children, at, ended>>
  BY DEF InboxOpen, InboxClose, InboxWrite
<1>2. \A g \in Clients : closing'[g] = "ingest" => closing[g] = "ingest"
  <2>1. CASE InboxClose(f)
    BY <2>1 DEF InboxClose, Listing, Apart, InboxTypes
  <2>2. CASE UNCHANGED closing
    BY <2>2
  <2> QED
    BY <2>1, <2>2 DEF InboxOpen, InboxWrite
<1>3. Parented' /\ Delisted'
  BY <1>1, <1>2 DEF Listing, Parented, Delisted
<1> QED
  BY <1>1, <1>3, InboxOpenApart, InboxCloseApart, InboxWriteApart DEF Listing

\* Whoever has created files of its name since, an upload that is over is not
\* listed (InboxFile.Close).
THEOREM EndedGone == InboxSpec => []EndedIsUnlisted
<1>1. Listing /\ [InboxNext]_inboxvars => Listing'
  <2> SUFFICES ASSUME Listing, [InboxNext]_inboxvars PROVE Listing'
    OBVIOUS
  <2>1. CASE UNCHANGED inboxvars
    BY <2>1 DEF inboxvars, Listing, Apart, InboxTypes, Owned, UploadsKeepApart, Parented, Delisted
  <2>2. CASE InboxNext
    BY <2>2, CreateListing, WalkListing, ForgetListing, OtherListing, FindParentListing,
       TakeOffListing, IngestListing DEF InboxNext
  <2> QED
    BY <2>1, <2>2
<1>2. Listing => EndedIsUnlisted
  <2> SUFFICES ASSUME Listing, NEW n \in Names PROVE entry[n] \notin ended
    BY DEF EndedIsUnlisted
  <2> QED
    BY DEF Listing, Parented, Delisted
<1> QED
  BY InitListing, <1>1, <1>2, PTL DEF InboxSpec
=============================================================================
