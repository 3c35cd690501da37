----------------------- MODULE ContainerCompareProofs -----------------------
(***************************************************************************)
(* Proofs about ContainerCompare: for every set of parameters, images and  *)
(* image labels, and both engines.                                         *)
(***************************************************************************)
EXTENDS ContainerCompare, WellFoundedInduction, TLAPS

\* A verdict other than "same" is that of the first comparison that gives one.
LEMMA FirstOfSays ==
    ASSUME NEW n \in Nat, NEW s, DOMAIN s = 1 .. n, NEW v, v # "same", FirstOf(s) = v
    PROVE  \E i \in 1 .. n : s[i] = v /\ \A j \in 1 .. n : j < i => s[j] = "same"
<1> DEFINE said == {i \in DOMAIN s : s[i] # "same"}
<1>1. said \subseteq Nat
  OBVIOUS
<1>2. said # {} /\ s[Min(said)] = v
  BY DEF FirstOf
<1> HIDE DEF said
<1>3. PICK x \in said : \A y \in said : ~(<<y, x>> \in OpToRel(<, Nat))
  BY <1>1, <1>2, NatLessThanWellFounded, WFMin
<1>4. \A y \in said : ~(y < x)
  BY <1>1, <1>3 DEF OpToRel
<1>5. \A y \in said : x <= y
  BY <1>1, <1>4
<1>6. Min(said) \in said /\ \A y \in said : Min(said) <= y
  BY <1>5 DEF Min
<1>7. PICK m \in said : m = Min(said)
  BY <1>6
<1>8. m \in Nat /\ \A y \in said : m <= y
  BY <1>1, <1>6, <1>7
<1>9. s[m] = v
  BY <1>2, <1>7
<1>10. \A j \in 1 .. n : j < m => j \notin said
  BY <1>8
<1> QED
  BY <1>7, <1>9, <1>10 DEF said

\* The verdict is "same" when every comparison says so.
LEMMA FirstOfSame ==
    ASSUME NEW n \in Nat, NEW s, DOMAIN s = 1 .. n
    PROVE  FirstOf(s) = "same" <=> \A i \in 1 .. n : s[i] = "same"
<1>1. CASE \A i \in 1 .. n : s[i] = "same"
  <2>1. {i \in DOMAIN s : s[i] # "same"} = {}
    BY <1>1
  <2> QED
    BY <1>1, <2>1 DEF FirstOf
<1>2. CASE ~(\A i \in 1 .. n : s[i] = "same")
  <2> DEFINE said == {i \in DOMAIN s : s[i] # "same"}
  <2>1. said \subseteq Nat /\ said # {}
    BY <1>2
  <2>2. FirstOf(s) = s[Min(said)]
    BY <2>1 DEF FirstOf
  <2> HIDE DEF said
  <2>3. PICK x \in said : \A y \in said : ~(<<y, x>> \in OpToRel(<, Nat))
    BY <2>1, NatLessThanWellFounded, WFMin
  <2>4. \A y \in said : ~(y < x)
    BY <2>1, <2>3 DEF OpToRel
  <2>5. \A y \in said : x <= y
    BY <2>1, <2>4
  <2>6. Min(said) \in said
    BY <2>5 DEF Min
  <2> QED
    BY <1>2, <2>2, <2>6 DEF said
<1> QED
  BY <1>1, <1>2

-----------------------------------------------------------------------------
(* Volumes.                                                                *)

VolumesOK(vols) == /\ vols \in Seq(Seq(STRING))
                   /\ \A v \in ToSet(vols) : Len(v) <= 3

\* Volumes that podman's worker takes.
PodmanOK(vols) == /\ VolumesOK(vols) /\ VolumesParse(vols)
                  /\ \A v \in Items(vols) : Len(v) # 1
                  /\ \A u, v \in Items(vols) : u[1] = v[1] /\ u[1] \in Paths => u = v

Shown(v) == <<v[1], v[2], IF Len(v) = 3 /\ v[3] = "ro" THEN "ro" ELSE "rw">>

\* A set of positions has a last one.
LEMMA MaxOf ==
    ASSUME NEW n \in Nat, NEW S \in SUBSET (1 .. n), S # {}
    PROVE  Max(S) \in S
<1> DEFINE T == {n - j : j \in S}
<1>0. \A j \in S : n - j \in Nat
  OBVIOUS
<1>1. T \subseteq Nat /\ T # {}
  BY <1>0
<1> HIDE DEF T
<1>2. PICK x \in T : \A y \in T : ~(<<y, x>> \in OpToRel(<, Nat))
  BY <1>1, NatLessThanWellFounded, WFMin
<1>3. \A y \in T : ~(y < x)
  BY <1>1, <1>2 DEF OpToRel
<1>4. PICK m \in S : x = n - m
  BY DEF T
<1>5. \A j \in S : m >= j
  <2> SUFFICES ASSUME NEW j \in S PROVE m >= j
    OBVIOUS
  <2>1. n - j \in T
    BY DEF T
  <2> QED
    BY <1>3, <1>4, <2>1
<1> QED
  BY <1>5 DEF Max

\* What generate_volumes makes of an item with a ':'.
LEMMA FullIs ==
    ASSUME NEW v \in Seq(STRING), Len(v) = 2 \/ Len(v) = 3
    PROVE  /\ Full(v)[1] = v[1] /\ Full(v)[2] = v[2]
           /\ Len(Full(v)) # 2 =>
                 /\ Len(Full(v)) = 3
                 /\ Full(v) = <<v[1], v[2], IF Len(v) = 3 THEN v[3] ELSE "rw">>
<1>1. CASE Len(v) = 3
  <2>1. v = <<v[1], v[2], v[3]>>
    BY <1>1
  <2>2. Full(v) = v
    BY <1>1 DEF Full
  <2> QED
    BY <1>1, <2>1, <2>2
<1>2. CASE Len(v) = 2
  <2> DEFINE w == Append(v, "rw")
  <2> DEFINE Text == STRING \cup {"rw"}
  <2>0. v \in Seq(Text) /\ "rw" \in Text
    OBVIOUS
  <2> HIDE DEF Text
  <2>1. w \in Seq(Text) /\ Len(w) = Len(v) + 1 /\ w[Len(v) + 1] = "rw"
        /\ \A i \in 1 .. Len(v) : w[i] = v[i]
    BY <2>0
  <2>4. w \in Seq(Text) /\ Len(w) = 3 /\ w[1] = v[1] /\ w[2] = v[2] /\ w[3] = "rw"
    BY <1>2, <2>1
  <2> HIDE DEF w
  <2>2. w = <<w[1], w[2], w[3]>>
    BY <2>4
  <2>3. Full(v) = w \/ Full(v) = v
    BY DEF Full, w
  <2> QED
    BY <1>2, <2>2, <2>3, <2>4
<1> QED
  BY <1>1, <1>2

\* Positions and items.
LEMMA ItemsAre ==
    ASSUME NEW vols, VolumesOK(vols)
    PROVE  /\ BindItems(vols) \subseteq 1 .. Len(vols) /\ Len(vols) \in Nat
           /\ \A i \in BindItems(vols) :
                 /\ vols[i] \in Items(vols) /\ vols[i] \in Seq(STRING)
                 /\ Len(vols[i]) = 2 \/ Len(vols[i]) = 3
           /\ \A v \in Items(vols) : Len(v) # 1 => \E i \in BindItems(vols) : v = vols[i]
<1>1. vols \in Seq(Seq(STRING)) /\ DOMAIN vols = 1 .. Len(vols) /\ Len(vols) \in Nat
  BY DEF VolumesOK
<1>2. \A i \in DOMAIN vols : vols[i] \in Seq(STRING) /\ vols[i] \in ToSet(vols)
                             /\ Len(vols[i]) \in Nat /\ Len(vols[i]) <= 3
  BY <1>1 DEF VolumesOK, ToSet
<1>3. \A i \in DOMAIN vols : Len(vols[i]) = 0 <=> vols[i] = <<>>
  BY <1>2
<1>4. \A v \in ToSet(vols) : \E i \in DOMAIN vols : v = vols[i]
  BY DEF ToSet
<1>5. \A i \in BindItems(vols) :
                 /\ vols[i] \in Items(vols) /\ vols[i] \in Seq(STRING)
                 /\ Len(vols[i]) = 2 \/ Len(vols[i]) = 3
  <2> SUFFICES ASSUME NEW i \in BindItems(vols)
               PROVE  /\ vols[i] \in Items(vols) /\ vols[i] \in Seq(STRING)
                      /\ Len(vols[i]) = 2 \/ Len(vols[i]) = 3
    OBVIOUS
  <2>1. i \in DOMAIN vols /\ Len(vols[i]) > 1
    BY DEF BindItems
  <2>2. Len(vols[i]) = 2 \/ Len(vols[i]) = 3
    <3>1. \A n \in Nat : n <= 3 /\ n > 1 => n = 2 \/ n = 3
      OBVIOUS
    <3>2. Len(vols[i]) \in Nat /\ Len(vols[i]) <= 3 /\ Len(vols[i]) > 1
      BY <1>2, <2>1
    <3> QED
      BY <3>1, <3>2
  <2>3. vols[i] # <<>>
    BY <1>3, <2>1, <2>2
  <2> QED
    BY <1>2, <2>1, <2>2, <2>3 DEF Items
<1>6. \A v \in Items(vols) : Len(v) # 1 => \E i \in BindItems(vols) : v = vols[i]
  <2> SUFFICES ASSUME NEW v \in Items(vols), Len(v) # 1
               PROVE  \E i \in BindItems(vols) : v = vols[i]
    OBVIOUS
  <2>1. v \in ToSet(vols) /\ v # <<>>
    BY DEF Items
  <2>2. PICK i \in DOMAIN vols : v = vols[i]
    BY <1>4, <2>1
  <2>3. Len(vols[i]) \in Nat /\ Len(vols[i]) # 0 /\ Len(vols[i]) # 1
    BY <1>2, <1>3, <2>1, <2>2
  <2>4. Len(vols[i]) > 1
    <3>1. PICK n \in Nat : n = Len(vols[i]) /\ n # 0 /\ n # 1
      BY <2>3
    <3>2. n > 1
      BY <3>1
    <3> QED
      BY <3>1, <3>2
  <2> QED
    BY <2>2, <2>4 DEF BindItems
<1> QED
  BY <1>1, <1>5, <1>6 DEF BindItems

\* vol_dict has one item of each source, and no other.
LEMMA VolDictIs ==
    ASSUME NEW vols, VolumesOK(vols)
    PROVE  /\ \A w \in VolDict(vols) : \E i \in BindItems(vols) : w = Full(vols[i])
           /\ \A i \in BindItems(vols) : \E j \in BindItems(vols) :
                 vols[j][1] = vols[i][1] /\ Full(vols[j]) \in VolDict(vols)
<1> DEFINE last(s) == Max({i \in BindItems(vols) : vols[i][1] = s})
<1>1. ASSUME NEW i \in BindItems(vols)
      PROVE  last(vols[i][1]) \in {j \in BindItems(vols) : vols[j][1] = vols[i][1]}
  <2> DEFINE S == {j \in BindItems(vols) : vols[j][1] = vols[i][1]}
  <2>1. S \in SUBSET (1 .. Len(vols)) /\ S # {} /\ Len(vols) \in Nat
    BY ItemsAre
  <2> HIDE DEF S
  <2>2. Max(S) \in S
    BY <2>1, MaxOf
  <2> QED
    BY <2>2 DEF S
<1>2. VolDict(vols) = {Full(vols[last(vols[i][1])]) : i \in BindItems(vols)}
  BY DEF VolDict
<1> HIDE DEF last
<1> QED
  BY <1>1, <1>2

\* An item of vol_dict is a source, a mount point and a mode.
LEMMA VolDictTriples ==
    ASSUME NEW vols, VolumesOK(vols), VolumesParse(vols), NEW i \in BindItems(vols)
    PROVE  /\ Len(Full(vols[i])) = 3
           /\ Full(vols[i]) = <<vols[i][1], vols[i][2],
                                IF Len(vols[i]) = 3 THEN vols[i][3] ELSE "rw">>
<1>1. vols[i] \in Items(vols) /\ vols[i] \in Seq(STRING)
      /\ (Len(vols[i]) = 2 \/ Len(vols[i]) = 3)
  BY ItemsAre
<1>2. Len(Full(vols[i])) # 2
  BY <1>1 DEF VolumesParse
<1> QED
  BY <1>1, <1>2, FullIs

\* podman shows modes 'ro' and 'rw' as they were asked for.
LEMMA ShownIsFull ==
    ASSUME NEW vols, VolumesOK(vols), VolumesParse(vols), NEW i \in BindItems(vols),
           Full(vols[i])[3] \in {"rw", "ro"}
    PROVE  Shown(vols[i]) = Full(vols[i]) /\ Shown(Full(vols[i])) = Full(vols[i])
<1> DEFINE m == IF Len(vols[i]) = 3 THEN vols[i][3] ELSE "rw"
<1>1. Full(vols[i]) = <<vols[i][1], vols[i][2], m>> /\ Len(Full(vols[i])) = 3
  BY VolDictTriples
<1>2. m \in {"rw", "ro"} /\ m = Full(vols[i])[3]
  BY <1>1
<1>3. Shown(vols[i]) = <<vols[i][1], vols[i][2], m>>
  BY <1>2 DEF Shown
<1> HIDE DEF m
<1>4. Shown(Full(vols[i])) = <<vols[i][1], vols[i][2], m>>
  BY <1>1, <1>2 DEF Shown
<1> QED
  BY <1>1, <1>3, <1>4

\* The two kinds of mounts that podman shows.
LEMMA PodmanBindsAre ==
    ASSUME NEW vols
    PROVE  PodmanBinds(vols) = {Shown(v) : v \in {w \in Items(vols) : w[1] \in Paths}}
                        \cup {Shown(v) : v \in {w \in VolDict(vols) :
                                               w[1] \notin Paths \cup {"devpts"}}}
BY DEF PodmanBinds, Shown

\* A devpts mount is in vol_dict and is no bind.
LEMMA DevptsNoBind ==
    ASSUME NEW vols, PodmanOK(vols)
    PROVE  /\ \A b \in PodmanBinds(vols) : b[1] # "devpts"
           /\ Devpts(vols) # {} => \E w \in VolDict(vols) : w[1] = "devpts"
<1>0. VolumesOK(vols) /\ VolumesParse(vols)
  BY DEF PodmanOK
<1>1. ASSUME NEW b \in PodmanBinds(vols)
      PROVE  b[1] # "devpts"
  <2>1. PICK v : b = Shown(v) /\ (v[1] \in Paths \/ v[1] # "devpts")
    BY PodmanBindsAre
  <2> QED
    BY <2>1, CompareAssumption DEF Shown
<1>2. ASSUME NEW v \in Devpts(vols)
      PROVE  \E w \in VolDict(vols) : w[1] = "devpts"
  <2>1. v \in Items(vols) /\ v[1] = "devpts"
    BY DEF Devpts
  <2>2. PICK i \in BindItems(vols) : v = vols[i]
    BY <1>0, <2>1, ItemsAre DEF PodmanOK
  <2>3. PICK j \in BindItems(vols) : vols[j][1] = v[1] /\ Full(vols[j]) \in VolDict(vols)
    BY <1>0, <2>2, VolDictIs
  <2>4. Full(vols[j])[1] = vols[j][1]
    BY <1>0, ItemsAre, FullIs
  <2> QED
    BY <2>1, <2>3, <2>4
<1> QED
  BY <1>1, <1>2

\* What podman binds is vol_dict, when the modes are 'ro' and 'rw' and none is devpts.
LEMMA PodmanMountsVolDict ==
    ASSUME NEW vols, PodmanOK(vols), \A w \in VolDict(vols) : w[3] \in {"rw", "ro"},
           Devpts(vols) = {}
    PROVE  PodmanBinds(vols) = VolDict(vols)
<1>0. VolumesOK(vols) /\ VolumesParse(vols)
  BY DEF PodmanOK
<1>1. ASSUME NEW v \in Items(vols), v[1] \in Paths
      PROVE  Shown(v) \in VolDict(vols)
  <2>1. PICK i \in BindItems(vols) : v = vols[i]
    BY <1>0, ItemsAre DEF PodmanOK
  <2>2. PICK j \in BindItems(vols) : vols[j][1] = v[1] /\ Full(vols[j]) \in VolDict(vols)
    BY <1>0, <2>1, VolDictIs
  <2>3. vols[j] \in Items(vols)
    BY <1>0, ItemsAre
  <2>4. vols[j] = v
    BY <1>1, <2>2, <2>3 DEF PodmanOK
  <2>5. Shown(vols[j]) = Full(vols[j])
    BY <1>0, <2>2, ShownIsFull
  <2> QED
    BY <2>2, <2>4, <2>5
<1>2. ASSUME NEW w \in VolDict(vols)
      PROVE  Shown(w) = w
  <2>1. PICK i \in BindItems(vols) : w = Full(vols[i])
    BY <1>0, VolDictIs
  <2> QED
    BY <1>0, <2>1, ShownIsFull
<1>3. ASSUME NEW w \in VolDict(vols), w[1] \in Paths
      PROVE  \E v \in Items(vols) : v[1] \in Paths /\ w = Shown(v)
  <2>1. PICK i \in BindItems(vols) : w = Full(vols[i])
    BY <1>0, VolDictIs
  <2>2. w[1] = vols[i][1] /\ vols[i] \in Items(vols)
    BY <1>0, <2>1, ItemsAre, FullIs
  <2>3. Shown(vols[i]) = w
    BY <1>0, <2>1, ShownIsFull
  <2> QED
    BY <1>3, <2>2, <2>3
<1>4. ASSUME NEW w \in VolDict(vols)
      PROVE  w[1] # "devpts"
  <2>1. PICK i \in BindItems(vols) : w = Full(vols[i])
    BY <1>0, VolDictIs
  <2>2. w[1] = vols[i][1] /\ vols[i] \in Items(vols)
    BY <1>0, <2>1, ItemsAre, FullIs
  <2> QED
    BY <2>2 DEF Devpts
<1> QED
  BY <1>1, <1>2, <1>3, <1>4, PodmanBindsAre

\* podman shows no other mode than 'ro' and 'rw'.
LEMMA PodmanModes ==
    ASSUME NEW vols, NEW b \in PodmanBinds(vols)
    PROVE  b[3] \in {"rw", "ro"}
<1>1. PICK v : b = Shown(v)
  BY PodmanBindsAre
<1> QED
  BY <1>1 DEF Shown

\* vol_dict with its modes reduced to 'ro' and 'rw'.
LEMMA PlainModes ==
    ASSUME NEW vols, PodmanOK(vols)
    PROVE  VolDict(vols) = {<<b[1], b[2], IF b[3] = "ro" THEN "ro" ELSE "rw">> :
                               b \in VolDict(vols)}
               <=> \A b \in VolDict(vols) : b[3] \in {"rw", "ro"}
<1> DEFINE dict == VolDict(vols)
           plain(b) == <<b[1], b[2], IF b[3] = "ro" THEN "ro" ELSE "rw">>
<1>1. \A b \in dict : b = <<b[1], b[2], b[3]>>
  <2> SUFFICES ASSUME NEW b \in dict
               PROVE  b = <<b[1], b[2], b[3]>>
    OBVIOUS
  <2>1. VolumesOK(vols) /\ VolumesParse(vols)
    BY DEF PodmanOK
  <2>2. PICK i \in BindItems(vols) : b = Full(vols[i])
    BY <2>1, VolDictIs
  <2> DEFINE m == IF Len(vols[i]) = 3 THEN vols[i][3] ELSE "rw"
  <2>3. b = <<vols[i][1], vols[i][2], m>>
    BY <2>1, <2>2, VolDictTriples
  <2> HIDE DEF m
  <2> QED
    BY <2>3
<1> HIDE DEF dict
<1>2. ASSUME NEW b \in dict, b[3] \in {"rw", "ro"}
      PROVE  plain(b) = b
  BY <1>1, <1>2
<1>3. \A b : plain(b)[3] \in {"rw", "ro"}
  OBVIOUS
<1>4. (\A b \in dict : b[3] \in {"rw", "ro"}) => dict = {plain(b) : b \in dict}
  BY <1>2
<1>5. dict = {plain(b) : b \in dict} => \A b \in dict : b[3] \in {"rw", "ro"}
  BY <1>3
<1> QED
  BY <1>4, <1>5 DEF dict

\* Every item is mounted where it was asked for, if no source is asked for twice.
LEMMA MountsAll ==
    ASSUME NEW p, NEW img, VolumesOK(p.volumes),
           \A i, j \in BindItems(p.volumes) : i # j => p.volumes[i][1] # p.volumes[j][1],
           NEW i \in BindItems(p.volumes)
    PROVE  \/ \E b \in Create(p, img).Binds : b[1] = p.volumes[i][1] /\ b[2] = p.volumes[i][2]
           \/ p.volumes[i][1] = "devpts" /\ p.volumes[i][2] \in Create(p, img).Devpts
<1> DEFINE v == p.volumes[i]
           w == Full(v)
<1>1. w \in VolDict(p.volumes)
  <2>1. PICK j \in BindItems(p.volumes) :
            p.volumes[j][1] = p.volumes[i][1] /\ Full(p.volumes[j]) \in VolDict(p.volumes)
    BY VolDictIs
  <2>2. j = i
    BY <2>1
  <2> QED
    BY <2>1, <2>2
<1>2. v \in Items(p.volumes) /\ w[1] = v[1] /\ w[2] = v[2]
  BY ItemsAre, FullIs
<1>3. CASE engine = "docker"
  <2>1. Create(p, img).Binds = VolDict(p.volumes)
    BY <1>3 DEF Create, DockerCreate
  <2> QED
    BY <1>1, <1>2, <2>1
<1>4. CASE engine # "docker"
  <2>1. /\ Create(p, img).Binds = PodmanBinds(p.volumes)
        /\ Create(p, img).Devpts = {x[2] : x \in Devpts(p.volumes)}
    BY <1>4 DEF Create, PodmanCreate, DockerCreate
  <2>4. CASE v[1] = "devpts"
    <3>1. v \in Devpts(p.volumes)
      BY <1>2, <2>4 DEF Devpts
    <3> QED
      BY <2>1, <2>4, <3>1
  <2>5. CASE v[1] # "devpts"
    <3>2. Shown(v) \in PodmanBinds(p.volumes) \/ Shown(w) \in PodmanBinds(p.volumes)
      BY <1>1, <1>2, <2>5, PodmanBindsAre
    <3>3. Shown(v)[1] = v[1] /\ Shown(v)[2] = v[2] /\ Shown(w)[1] = w[1] /\ Shown(w)[2] = w[2]
      BY DEF Shown
    <3> QED
      BY <1>2, <2>1, <3>2, <3>3
  <2> QED
    BY <2>4, <2>5
<1> QED
  BY <1>3, <1>4

-----------------------------------------------------------------------------
\* Created with its image's labels among its own.
Labelled(c) == /\ "Image" \in DOMAIN c /\ "Labels" \in DOMAIN c
               /\ DOMAIN ImageLabels[c.Image] \subseteq DOMAIN c.Labels

\* The dimensions that the API has.
LEMMA DimensionMapIs ==
    /\ Len(DimensionMap) \in Nat
    /\ DOMAIN DimensionMap = 1 .. Len(DimensionMap)
<1>1. CASE engine = "docker" /\ KernelMemoryRemoved
  <2>1. DimensionMap = <<"mem_limit", "cpu_shares">>
    BY <1>1 DEF DimensionMap
  <2> QED
    BY <2>1
<1>2. CASE ~(engine = "docker" /\ KernelMemoryRemoved)
  <2>1. DimensionMap = <<"mem_limit", "cpu_shares", "kernel_memory">>
    BY <1>2 DEF DimensionMap
  <2> QED
    BY <2>1
<1> QED
  BY <1>1, <1>2

\* The comparison of dimensions fails only for a dimension without a value, or one that
\* the API no longer has.
LEMMA DimensionsFail ==
    ASSUME NEW p, NEW c, Creatable(p), CompareDimensions(p, c) = "fail"
    PROVE  \E d \in DOMAIN p.dimensions :
              p.dimensions[d][2] = "null" \/ d \notin ToSet(DimensionMap)
<1> SUFFICES ASSUME DOMAIN p.dimensions \subseteq ToSet(DimensionMap)
             PROVE  \E d \in DOMAIN p.dimensions : p.dimensions[d][2] = "null"
  OBVIOUS
<1> DEFINE each == [i \in DOMAIN DimensionMap |->
                     LET d == DimensionMap[i]
                     IN  IF d \in DOMAIN p.dimensions
                         THEN DimensionDiffers(p.dimensions[d], c.Dimensions[d])
                         ELSE Differs(c.Dimensions[d] # 0)]
           all == each \o <<CompareUlimits(p, c)>>
<1>1. FirstOf(all) = "fail"
  BY DEF CompareDimensions
<1>2. PICK n \in Nat : n = Len(DimensionMap) /\ DOMAIN DimensionMap = 1 .. n
  BY DimensionMapIs
<1>3. DOMAIN all = 1 .. n + 1 /\ all[n + 1] = CompareUlimits(p, c)
      /\ \A i \in 1 .. n : all[i] = each[i]
  BY <1>2
<1> HIDE DEF all
<1>4. PICK i \in 1 .. n + 1 : all[i] = "fail"
  BY <1>1, <1>3, FirstOfSays
<1>5. CompareUlimits(p, c) # "fail"
  BY DEF CompareUlimits, Differs
<1>6. i \in 1 .. n /\ each[i] = "fail"
  <2>1. i # n + 1
    BY <1>3, <1>4, <1>5
  <2>2. i \in 1 .. n
    BY <2>1
  <2> QED
    BY <1>3, <1>4, <2>2
<1> DEFINE d == DimensionMap[i]
<1>7. d \in DOMAIN p.dimensions /\ DimensionDiffers(p.dimensions[d], c.Dimensions[d]) = "fail"
  BY <1>2, <1>6 DEF Differs
<1>8. p.dimensions[d][2] \notin Units
  BY <1>7 DEF DimensionDiffers, DimensionsDiffer, PodmanDimensionsDiffer, Differs
<1> QED
  BY <1>7, <1>8 DEF Creatable

\* A comparison that fails has found no difference before, so the image is the one the
\* container was created from and its labels are there.
LEMMA FailsWhereNamed ==
    ASSUME NEW p, NEW c, Labelled(c), Creatable(p), CheckContainerDiffers(p, c) = "fail"
    PROVE  NeverSame(p)
<1> DEFINE s == <<CompareCapAdd(p, c), CompareSecurityOpt(p, c), CompareImage(p, c),
              CompareIpcMode(p, c), CompareLabels(p, c), ComparePrivileged(p, c),
              ComparePidMode(p, c), CompareCgroupnsMode(p, c), CompareTmpfs(p, c),
              CompareVolumes(p, c), CompareVolumesFrom(p, c),
              CompareEnvironment(p, c), CompareContainerState(p, c),
              CompareDimensions(p, c), CompareCommand(p, c),
              CompareHealthcheck(p, c)>>
<1>1. FirstOf(s) = "fail"
  BY DEF CheckContainerDiffers
<1>2. DOMAIN s = 1 .. 16
  OBVIOUS
<1>3. s[3] = CompareImage(p, c) /\ s[5] = CompareLabels(p, c) /\ s[10] = CompareVolumes(p, c)
      /\ s[14] = CompareDimensions(p, c) /\ s[15] = CompareCommand(p, c)
      /\ s[16] = CompareHealthcheck(p, c)
  OBVIOUS
<1>4. \A i \in 1 .. 16 : i \notin {5, 10, 14, 15, 16} => s[i] # "fail"
  <2>1. CompareCapAdd(p, c) # "fail" /\ CompareSecurityOpt(p, c) # "fail"
        /\ CompareImage(p, c) # "fail" /\ CompareIpcMode(p, c) # "fail"
    BY DEF CompareCapAdd, CompareSecurityOpt, CompareImage, DockerCompareImage,
       PodmanCompareImage, CompareIpcMode, Differs
  <2>2. ComparePrivileged(p, c) # "fail" /\ ComparePidMode(p, c) # "fail"
        /\ CompareCgroupnsMode(p, c) # "fail" /\ CompareTmpfs(p, c) # "fail"
    BY DEF ComparePrivileged, ComparePidMode, DockerComparePidMode, PodmanComparePidMode,
       CompareCgroupnsMode, CompareTmpfs, Differs
  <2>3. CompareVolumesFrom(p, c) # "fail" /\ CompareEnvironment(p, c) # "fail"
        /\ CompareContainerState(p, c) # "fail"
    BY DEF CompareVolumesFrom, CompareEnvironment, CompareContainerState, Differs
  <2>4. s[1] # "fail" /\ s[2] # "fail" /\ s[3] # "fail" /\ s[4] # "fail"
        /\ s[6] # "fail" /\ s[7] # "fail" /\ s[8] # "fail" /\ s[9] # "fail"
        /\ s[11] # "fail" /\ s[12] # "fail" /\ s[13] # "fail"
    BY <2>1, <2>2, <2>3
  <2> HIDE DEF s
  <2> QED
    BY <2>4
<1> HIDE DEF s
<1>5. PICK i \in 1 .. 16 : s[i] = "fail" /\ \A j \in 1 .. 16 : j < i => s[j] = "same"
  <2>1. PICK n \in Nat : n = 16
    OBVIOUS
  <2>2. DOMAIN s = 1 .. n /\ "fail" # "same"
    BY <1>2, <2>1
  <2>3. \E i \in 1 .. n : s[i] = "fail" /\ \A j \in 1 .. n : j < i => s[j] = "same"
    BY <1>1, <2>2, FirstOfSays
  <2> QED
    BY <2>1, <2>3
<1>6. CASE i = 5
  <2>1. CompareImage(p, c) = "same" /\ CompareLabels(p, c) = "fail"
    BY <1>3, <1>5, <1>6
  <2>2. image # NoImage /\ image = c.Image
    BY <2>1 DEF CompareImage, DockerCompareImage, PodmanCompareImage, Differs
  <2> QED
    BY <2>1, <2>2 DEF CompareLabels, Labelled, Differs
<1>7. /\ CompareVolumes(p, c) = "fail" \/ CompareCommand(p, c) = "fail" => NeverSame(p)
      /\ CompareHealthcheck(p, c) # "fail"
  BY DEF CompareVolumes, PodmanCompareVolumes, CompareCommand, CompareHealthcheck,
     Creatable, NeverSame, Differs
<1>8. CASE i = 14
  <2>1. CompareDimensions(p, c) = "fail"
    BY <1>3, <1>5, <1>8
  <2> QED
    BY <2>1, DimensionsFail DEF NeverSame
<1>9. i \in {5, 10, 14, 15, 16}
  BY <1>4, <1>5
<1> QED
  BY <1>3, <1>5, <1>6, <1>7, <1>8, <1>9

-----------------------------------------------------------------------------
(* The verdict.                                                            *)

Verdicts(p, c) ==
    <<CompareCapAdd(p, c), CompareSecurityOpt(p, c), CompareImage(p, c),
      CompareIpcMode(p, c), CompareLabels(p, c), ComparePrivileged(p, c),
      ComparePidMode(p, c), CompareCgroupnsMode(p, c), CompareTmpfs(p, c),
      CompareVolumes(p, c), CompareVolumesFrom(p, c),
      CompareEnvironment(p, c), CompareContainerState(p, c),
      CompareDimensions(p, c), CompareCommand(p, c),
      CompareHealthcheck(p, c)>>

\* The sixteen comparisons.
LEMMA VerdictsAre ==
    ASSUME NEW p, NEW c
    PROVE  LET s == Verdicts(p, c) IN
           /\ DOMAIN s = 1 .. 16
           /\ s[1] = CompareCapAdd(p, c) /\ s[2] = CompareSecurityOpt(p, c)
           /\ s[3] = CompareImage(p, c) /\ s[4] = CompareIpcMode(p, c)
           /\ s[5] = CompareLabels(p, c) /\ s[6] = ComparePrivileged(p, c)
           /\ s[7] = ComparePidMode(p, c) /\ s[8] = CompareCgroupnsMode(p, c)
           /\ s[9] = CompareTmpfs(p, c) /\ s[10] = CompareVolumes(p, c)
           /\ s[11] = CompareVolumesFrom(p, c) /\ s[12] = CompareEnvironment(p, c)
           /\ s[13] = CompareContainerState(p, c) /\ s[14] = CompareDimensions(p, c)
           /\ s[15] = CompareCommand(p, c) /\ s[16] = CompareHealthcheck(p, c)
BY DEF Verdicts

\* check_container_differs says "same" when no comparison finds anything.
LEMMA AllSame ==
    ASSUME NEW p, NEW c
    PROVE  CheckContainerDiffers(p, c) = "same" <=>
           /\ CompareCapAdd(p, c) = "same" /\ CompareSecurityOpt(p, c) = "same"
           /\ CompareImage(p, c) = "same" /\ CompareIpcMode(p, c) = "same"
           /\ CompareLabels(p, c) = "same" /\ ComparePrivileged(p, c) = "same"
           /\ ComparePidMode(p, c) = "same" /\ CompareCgroupnsMode(p, c) = "same"
           /\ CompareTmpfs(p, c) = "same" /\ CompareVolumes(p, c) = "same"
           /\ CompareVolumesFrom(p, c) = "same" /\ CompareEnvironment(p, c) = "same"
           /\ CompareContainerState(p, c) = "same" /\ CompareDimensions(p, c) = "same"
           /\ CompareCommand(p, c) = "same" /\ CompareHealthcheck(p, c) = "same"
<1> DEFINE s == Verdicts(p, c)
<1>1. CheckContainerDiffers(p, c) = FirstOf(s)
  BY DEF CheckContainerDiffers, Verdicts
<1> HIDE DEF s
<1>2. PICK n \in Nat : n = 16
  OBVIOUS
<1>3. DOMAIN s = 1 .. n
  BY <1>2, VerdictsAre DEF s
<1>4. FirstOf(s) = "same" <=> \A i \in 1 .. n : s[i] = "same"
  BY <1>3, FirstOfSame
<1>5. (\A i \in 1 .. n : s[i] = "same") <=>
        /\ s[1] = "same" /\ s[2] = "same" /\ s[3] = "same" /\ s[4] = "same"
        /\ s[5] = "same" /\ s[6] = "same" /\ s[7] = "same" /\ s[8] = "same"
        /\ s[9] = "same" /\ s[10] = "same" /\ s[11] = "same" /\ s[12] = "same"
        /\ s[13] = "same" /\ s[14] = "same" /\ s[15] = "same" /\ s[16] = "same"
  BY <1>2
<1> QED
  BY <1>1, <1>4, <1>5, VerdictsAre DEF s

\* The verdict on the dimensions.
LEMMA DimensionsKinds ==
    ASSUME NEW p, NEW c
    PROVE  CompareDimensions(p, c) \in {"same", "differs", "fail"}
<1> DEFINE all == [i \in DOMAIN DimensionMap |->
                     LET d == DimensionMap[i]
                     IN  IF d \in DOMAIN p.dimensions
                         THEN DimensionDiffers(p.dimensions[d], c.Dimensions[d])
                         ELSE Differs(c.Dimensions[d] # 0)]
                     \o <<CompareUlimits(p, c)>>
           kinds == {"same", "differs", "fail"}
           v == CompareDimensions(p, c)
<1>1. v = "fail" \/ v = FirstOf(all)
  BY DEF CompareDimensions
<1>2. PICK n \in Nat : n = Len(DimensionMap) /\ DOMAIN DimensionMap = 1 .. n
  BY DimensionMapIs
<1>3. DOMAIN all = 1 .. n + 1 /\ \A i \in 1 .. n + 1 : all[i] \in kinds
  <2>1. DOMAIN all = 1 .. n + 1
    BY <1>2
  <2>2. all[n + 1] = CompareUlimits(p, c)
    BY <1>2
  <2>3. CompareUlimits(p, c) \in kinds
    BY DEF CompareUlimits, Differs
  <2>4. \A i \in 1 .. n : all[i] \in kinds
    BY <1>2 DEF DimensionDiffers, DimensionsDiffer, PodmanDimensionsDiffer, Differs
  <2>5. \A i \in 1 .. n + 1 : i = n + 1 \/ i \in 1 .. n
    OBVIOUS
  <2> HIDE DEF all
  <2> QED
    BY <2>1, <2>2, <2>3, <2>4, <2>5
<1> HIDE DEF all, v
<1>4. v = "fail" \/ v = "same" \/ \E i \in 1 .. n + 1 : all[i] = v
  BY <1>1, <1>3, FirstOfSays
<1> QED
  BY <1>3, <1>4 DEF v

\* The three verdicts.
LEMMA VerdictKinds ==
    ASSUME NEW p, NEW c
    PROVE  CheckContainerDiffers(p, c) \in {"same", "differs", "fail"}
<1> DEFINE s == Verdicts(p, c)
           kinds == {"same", "differs", "fail"}
           v == CheckContainerDiffers(p, c)
<1>1. v = FirstOf(s)
  BY DEF CheckContainerDiffers, Verdicts
<1>2. CompareCapAdd(p, c) \in kinds /\ CompareSecurityOpt(p, c) \in kinds
      /\ CompareImage(p, c) \in kinds /\ CompareIpcMode(p, c) \in kinds
      /\ CompareLabels(p, c) \in kinds /\ ComparePrivileged(p, c) \in kinds
      /\ ComparePidMode(p, c) \in kinds /\ CompareCgroupnsMode(p, c) \in kinds
  BY DEF CompareCapAdd, CompareSecurityOpt, CompareImage, DockerCompareImage,
     PodmanCompareImage, CompareIpcMode, CompareLabels, ComparePrivileged, ComparePidMode,
     DockerComparePidMode, PodmanComparePidMode, CompareCgroupnsMode, Differs
<1>3. CompareTmpfs(p, c) \in kinds /\ CompareVolumes(p, c) \in kinds
      /\ CompareVolumesFrom(p, c) \in kinds /\ CompareEnvironment(p, c) \in kinds
      /\ CompareContainerState(p, c) \in kinds
      /\ CompareCommand(p, c) \in kinds /\ CompareHealthcheck(p, c) \in kinds
  BY DEF CompareTmpfs, CompareVolumes, PodmanCompareVolumes, CompareVolumesFrom,
     CompareEnvironment, CompareContainerState, CompareCommand, CompareHealthcheck, Differs
<1>4. CompareDimensions(p, c) \in kinds
  BY DimensionsKinds
<1> HIDE DEF s, kinds, v
<1>5. PICK n \in Nat : n = 16
  OBVIOUS
<1>6. DOMAIN s = 1 .. n
  BY <1>5, VerdictsAre DEF s
<1>7. \A i \in 1 .. n : i = 1 \/ i = 2 \/ i = 3 \/ i = 4 \/ i = 5 \/ i = 6 \/ i = 7 \/ i = 8
        \/ i = 9 \/ i = 10 \/ i = 11 \/ i = 12 \/ i = 13 \/ i = 14 \/ i = 15 \/ i = 16
  BY <1>5
<1>8. \A i \in 1 .. n : s[i] \in kinds
  BY <1>2, <1>3, <1>4, <1>7, VerdictsAre DEF s
<1>9. v = "same" \/ \E i \in 1 .. n : s[i] = v
  BY <1>1, <1>6, FirstOfSays
<1>10. v \in kinds
  BY <1>8, <1>9 DEF kinds
<1> QED
  BY <1>10 DEF v, kinds

\* check_container_differs finds a difference when a comparison does.
LEMMA OneDiffers ==
    ASSUME NEW p, NEW c, CheckContainerDiffers(p, c) = "differs"
    PROVE  \/ CompareCapAdd(p, c) = "differs" \/ CompareSecurityOpt(p, c) = "differs"
           \/ CompareImage(p, c) = "differs" \/ CompareIpcMode(p, c) = "differs"
           \/ CompareLabels(p, c) = "differs" \/ ComparePrivileged(p, c) = "differs"
           \/ ComparePidMode(p, c) = "differs" \/ CompareCgroupnsMode(p, c) = "differs"
           \/ CompareTmpfs(p, c) = "differs" \/ CompareVolumes(p, c) = "differs"
           \/ CompareVolumesFrom(p, c) = "differs" \/ CompareEnvironment(p, c) = "differs"
           \/ CompareContainerState(p, c) = "differs" \/ CompareDimensions(p, c) = "differs"
           \/ CompareCommand(p, c) = "differs" \/ CompareHealthcheck(p, c) = "differs"
<1> DEFINE s == Verdicts(p, c)
<1>1. FirstOf(s) = "differs"
  BY DEF CheckContainerDiffers, Verdicts
<1> HIDE DEF s
<1>2. PICK n \in Nat : n = 16
  OBVIOUS
<1>3. DOMAIN s = 1 .. n /\ "differs" # "same"
  BY <1>2, VerdictsAre DEF s
<1>4. PICK i \in 1 .. n : s[i] = "differs"
  BY <1>1, <1>3, FirstOfSays
<1>5. \/ s[1] = "differs" \/ s[2] = "differs" \/ s[3] = "differs" \/ s[4] = "differs"
      \/ s[5] = "differs" \/ s[6] = "differs" \/ s[7] = "differs" \/ s[8] = "differs"
      \/ s[9] = "differs" \/ s[10] = "differs" \/ s[11] = "differs" \/ s[12] = "differs"
      \/ s[13] = "differs" \/ s[14] = "differs" \/ s[15] = "differs" \/ s[16] = "differs"
  BY <1>2, <1>4
<1> QED
  BY <1>5, VerdictsAre DEF s

\* The dimensions and the ulimits, one after the other.
LEMMA DimensionsVerdict ==
    ASSUME NEW p, NEW c, DOMAIN p.dimensions \subseteq ToSet(DimensionMap)
    PROVE  LET each(d) == IF d \in DOMAIN p.dimensions
                          THEN DimensionDiffers(p.dimensions[d], c.Dimensions[d])
                          ELSE Differs(c.Dimensions[d] # 0)
           IN  /\ CompareDimensions(p, c) = "same" <=>
                     /\ CompareUlimits(p, c) = "same"
                     /\ \A d \in ToSet(DimensionMap) : each(d) = "same"
               /\ CompareDimensions(p, c) = "differs" =>
                     \/ CompareUlimits(p, c) = "differs"
                     \/ \E d \in ToSet(DimensionMap) : each(d) = "differs"
<1> DEFINE each(d) == IF d \in DOMAIN p.dimensions
                      THEN DimensionDiffers(p.dimensions[d], c.Dimensions[d])
                      ELSE Differs(c.Dimensions[d] # 0)
           all == [i \in DOMAIN DimensionMap |-> each(DimensionMap[i])]
                     \o <<CompareUlimits(p, c)>>
<1>1. CompareDimensions(p, c) = FirstOf(all)
  BY DEF CompareDimensions
<1> HIDE DEF each
<1>2. PICK n \in Nat : n = Len(DimensionMap) /\ DOMAIN DimensionMap = 1 .. n
  BY DimensionMapIs
<1>3. DOMAIN all = 1 .. n + 1 /\ all[n + 1] = CompareUlimits(p, c)
      /\ \A i \in 1 .. n : all[i] = each(DimensionMap[i])
  BY <1>2
<1>4. ToSet(DimensionMap) = {DimensionMap[i] : i \in 1 .. n}
  BY <1>2 DEF ToSet
<1> HIDE DEF all
<1>5. FirstOf(all) = "same" <=> \A i \in 1 .. n + 1 : all[i] = "same"
  BY <1>3, FirstOfSame
<1>6. FirstOf(all) = "differs" => \E i \in 1 .. n + 1 : all[i] = "differs"
  BY <1>3, FirstOfSays
<1>7. \A i \in 1 .. n + 1 : i = n + 1 \/ i \in 1 .. n
  OBVIOUS
<1>8. n + 1 \in 1 .. n + 1 /\ \A i \in 1 .. n : i \in 1 .. n + 1
  OBVIOUS
<1>9. (\A i \in 1 .. n + 1 : all[i] = "same") <=>
          CompareUlimits(p, c) = "same" /\ \A d \in ToSet(DimensionMap) : each(d) = "same"
  BY <1>3, <1>4, <1>7, <1>8
<1>10. (\E i \in 1 .. n + 1 : all[i] = "differs") =>
          CompareUlimits(p, c) = "differs" \/ \E d \in ToSet(DimensionMap) : each(d) = "differs"
  BY <1>3, <1>4, <1>7
<1>11. /\ CompareDimensions(p, c) = "same" <=>
              CompareUlimits(p, c) = "same" /\ \A d \in ToSet(DimensionMap) : each(d) = "same"
       /\ CompareDimensions(p, c) = "differs" =>
              CompareUlimits(p, c) = "differs" \/ \E d \in ToSet(DimensionMap) : each(d) = "differs"
  BY <1>1, <1>5, <1>6, <1>9, <1>10
<1> QED
  BY <1>11 DEF each

\* What NeverSame names is never found to be the same.
LEMMA NeverSameSays ==
    ASSUME NEW p, NEW c, engine \in {"docker", "podman"}, NeverSame(p)
    PROVE  CheckContainerDiffers(p, c) # "same"
<1>1. CASE p.command = <<>>
  <2>1. CompareCommand(p, c) = "fail"
    BY <1>1 DEF CompareCommand
  <2> QED
    BY <2>1, AllSame
<1>2. CASE engine = "podman" /\ p.volumes = <<>>
  <2>1. CompareVolumes(p, c) = "fail"
    BY <1>2 DEF CompareVolumes, PodmanCompareVolumes
  <2> QED
    BY <2>1, AllSame
<1>3. ASSUME NEW d \in DOMAIN p.dimensions,
             p.dimensions[d][2] = "null" \/ d \notin ToSet(DimensionMap)
      PROVE  CompareDimensions(p, c) # "same"
  <2>1. CASE ~(DOMAIN p.dimensions \subseteq ToSet(DimensionMap))
    BY <2>1 DEF CompareDimensions
  <2>2. CASE DOMAIN p.dimensions \subseteq ToSet(DimensionMap)
    <3>1. d \in ToSet(DimensionMap) /\ p.dimensions[d][2] = "null"
      BY <1>3, <2>2
    <3>2. DimensionDiffers(p.dimensions[d], c.Dimensions[d]) # "same"
      <4>1. engine = "docker" => DimensionsDiffer(p.dimensions[d], c.Dimensions[d]) = "fail"
        BY <3>1 DEF DimensionsDiffer, Units
      <4>2. engine = "podman" =>
               PodmanDimensionsDiffer(p.dimensions[d], c.Dimensions[d]) = "differs"
        <5>1. <<c.Dimensions[d], "">>[2] = ""
          OBVIOUS
        <5>2. p.dimensions[d] # <<c.Dimensions[d], "">>
          BY <3>1, <5>1
        <5> QED
          BY <5>2 DEF PodmanDimensionsDiffer, Differs
      <4> QED
        BY <4>1, <4>2 DEF DimensionDiffers
    <3> QED
      BY <2>2, <3>1, <3>2, DimensionsVerdict
  <2> QED
    BY <2>1, <2>2
<1> QED
  BY <1>1, <1>2, <1>3, AllSame DEF NeverSame

-----------------------------------------------------------------------------
(* Comparing the parameters a container has just been created with.        *)

\* Parameters that a container can be created with from the present image.
Possible(p) == /\ IsParams(p) /\ Creatable(p)
               /\ engine \in {"docker", "podman"} /\ image \in Images
               /\ engine = "podman" => PodmanOK(p.volumes)

\* build_ulimits tells apart what is asked for.
LEMMA UlimitsTold ==
    ASSUME NEW u, NEW w, u \in [DOMAIN u -> Int \X Int], w \in [DOMAIN w -> Int \X Int],
           BuildUlimits(u) = BuildUlimits(w)
    PROVE  u = w
<1>1. ASSUME NEW a, NEW b, a \in [DOMAIN a -> Int \X Int], b \in [DOMAIN b -> Int \X Int],
             BuildUlimits(a) \subseteq BuildUlimits(b), NEW n \in DOMAIN a
      PROVE  n \in DOMAIN b /\ a[n] = b[n]
  <2>1. [Name |-> n, Soft |-> a[n][1], Hard |-> a[n][2]] \in BuildUlimits(b)
    BY <1>1 DEF BuildUlimits
  <2>2. PICK m \in DOMAIN b : [Name |-> n, Soft |-> a[n][1], Hard |-> a[n][2]]
                              = [Name |-> m, Soft |-> b[m][1], Hard |-> b[m][2]]
    BY <2>1 DEF BuildUlimits
  <2>3. n = m /\ a[n][1] = b[m][1] /\ a[n][2] = b[m][2]
    BY <2>2
  <2>4. a[n] \in Int \X Int /\ b[m] \in Int \X Int
    BY <1>1
  <2> QED
    BY <2>3, <2>4
<1>2. DOMAIN u = DOMAIN w /\ \A n \in DOMAIN u : u[n] = w[n]
  BY <1>1
<1> QED
  BY <1>2

\* Most comparisons find nothing in a container just created.
LEMMA AgainSame ==
    ASSUME NEW p, Possible(p), NEW c, c = Create(p, image)
    PROVE  /\ CompareCapAdd(p, c) = "same" /\ CompareImage(p, c) = "same"
           /\ CompareIpcMode(p, c) = "same" /\ ComparePrivileged(p, c) = "same"
           /\ ComparePidMode(p, c) = "same" /\ CompareCgroupnsMode(p, c) = "same"
           /\ CompareVolumesFrom(p, c) = "same" /\ CompareCommand(p, c) # "differs"
           /\ CompareHealthcheck(p, c) = "same"
<1> USE DEF Differs
<1>1. /\ c.CapAdd = p.cap_add /\ c.Image = image /\ c.ImageName = p.image
      /\ c.IpcMode = IF p.ipc_mode = Unset THEN "private" ELSE p.ipc_mode
      /\ c.Privileged = p.privileged /\ c.VolumesFrom = p.volumes_from
      /\ c.Command = IF p.command \in {<<Unset>>, <<>>} THEN <<"kolla_start">> ELSE p.command
      /\ c.Healthcheck = ParseHealthcheck(p.healthcheck)
  BY DEF Create, PodmanCreate, DockerCreate
<1>2. image # NoImage
  BY CompareAssumption DEF Possible
<1>3. CompareCapAdd(p, c) = "same" /\ CompareImage(p, c) = "same"
      /\ CompareIpcMode(p, c) = "same" /\ ComparePrivileged(p, c) = "same"
      /\ CompareVolumesFrom(p, c) = "same"
  BY <1>1, <1>2 DEF CompareCapAdd, CompareImage, DockerCompareImage, PodmanCompareImage,
     CompareIpcMode, ComparePrivileged, CompareVolumesFrom
<1>4. CompareCommand(p, c) # "differs" /\ CompareHealthcheck(p, c) = "same"
  BY <1>1 DEF CompareCommand, CompareHealthcheck, Possible, Creatable
<1>5. ComparePidMode(p, c) = "same" /\ CompareCgroupnsMode(p, c) = "same"
  <2>1. p.pid_mode # "" /\ p.cgroupns_mode # ""
    BY DEF Possible, IsParams
  <2>2. CASE engine = "docker"
    <3>1. /\ c.PidMode = IF p.pid_mode = Unset THEN "" ELSE p.pid_mode
          /\ c.CgroupnsMode = IF ~CgroupnsSupported THEN ""
                      ELSE IF p.cgroupns_mode = Unset THEN "private"
                      ELSE p.cgroupns_mode
      BY <2>2 DEF Create, DockerCreate
    <3> QED
      BY <2>1, <2>2, <3>1 DEF ComparePidMode, DockerComparePidMode, CompareCgroupnsMode
  <2>3. CASE engine # "docker"
    <3>1. /\ c.PidMode = IF p.pid_mode = Unset THEN "private" ELSE p.pid_mode
          /\ c.CgroupnsMode = IF p.cgroupns_mode = Unset THEN "private" ELSE p.cgroupns_mode
      BY <2>3 DEF Create, PodmanCreate, DockerCreate
    <3> QED
      BY <2>1, <2>3, <3>1 DEF ComparePidMode, PodmanComparePidMode, CompareCgroupnsMode
  <2> QED
    BY <2>2, <2>3
<1> QED
  BY <1>3, <1>4, <1>5

\* Security options and tmpfs, which podman's worker does not pass on, and the state.
LEMMA AgainOptions ==
    ASSUME NEW p, Possible(p), NEW c, c = Create(p, image)
    PROVE  /\ CompareSecurityOpt(p, c) =
                 Differs(engine = "podman" /\ ~HostMode(p) /\ p.security_opt # {})
           /\ CompareTmpfs(p, c) = Differs(engine = "podman" /\ p.tmpfs \ {""} # {})
           /\ CompareContainerState(p, c) = Differs(p.state # "running")
<1>1. c.Status = "running"
  BY DEF Create, PodmanCreate, DockerCreate
<1>2. CASE engine = "docker"
  <2>1. /\ c.SecurityOpt = p.security_opt \cup (IF HostMode(p) THEN {"label=disable"} ELSE {})
        /\ c.Tmpfs = p.tmpfs \ {""}
    BY <1>2 DEF Create, DockerCreate
  <2>2. ~HostMode(p) => c.SecurityOpt = p.security_opt
    BY <2>1
  <2> QED
    BY <1>1, <1>2, <2>1, <2>2 DEF CompareSecurityOpt, CompareTmpfs, CompareContainerState, Differs
<1>3. CASE engine = "podman"
  <2>1. /\ c.SecurityOpt = IF HostMode(p) THEN {"label=disable"} ELSE {}
        /\ c.Tmpfs = {}
    BY <1>3 DEF Create, PodmanCreate, DockerCreate
  <2> QED
    BY <1>1, <1>3, <2>1 DEF CompareSecurityOpt, CompareTmpfs, CompareContainerState, Differs
<1> QED
  BY <1>2, <1>3 DEF Possible

\* The labels: one of the image that is asked for with another value.
LEMMA AgainLabels ==
    ASSUME NEW p, Possible(p), NEW c, c = Create(p, image)
    PROVE  CompareLabels(p, c) =
              Differs(\E k \in DOMAIN p.labels \cap DOMAIN ImageLabels[image] :
                         p.labels[k] # ImageLabels[image][k])
<1>1. c.Labels = Overlay(p.labels, ImageLabels[image])
  BY DEF Create, PodmanCreate, DockerCreate
<1>2. image # NoImage
  BY CompareAssumption DEF Possible
<1> DEFINE inherited == DOMAIN ImageLabels[image]
           kept == inherited \cap DOMAIN p.labels
           own == [k \in DOMAIN c.Labels \ (inherited \ kept) |-> c.Labels[k]]
<1>3. DOMAIN c.Labels = DOMAIN p.labels \cup inherited
      /\ \A k \in DOMAIN p.labels : c.Labels[k] = p.labels[k]
  BY <1>1 DEF Overlay
<1>4. DOMAIN c.Labels \ (inherited \ kept) = DOMAIN p.labels
  BY <1>3
<1>5. own = p.labels
  <2>1. p.labels \in [DOMAIN p.labels -> STRING]
    BY DEF Possible, IsParams
  <2> QED
    BY <1>3, <1>4, <2>1
<1>6. (inherited \ kept) \subseteq DOMAIN c.Labels
  BY <1>3
<1> QED
  BY <1>2, <1>5, <1>6 DEF CompareLabels, Differs

\* The environment: values that are not texts, and the one that docker's worker sets.
LEMMA AgainEnvironment ==
    ASSUME NEW p, Possible(p), NEW c, c = Create(p, image)
    PROVE  CompareEnvironment(p, c) = Differs(
              \/ \E k \in DOMAIN p.environment : p.environment[k][1] # "str"
              \/ /\ engine = "docker" /\ "KOLLA_SERVICE_NAME" \in DOMAIN p.environment
                 /\ p.environment["KOLLA_SERVICE_NAME"] # ServiceName)
<1> DEFINE env == p.environment
           text(v) == IF v[1] # "none" THEN v[2]
                      ELSE IF engine = "docker" THEN "" ELSE "None"
           given == [k \in DOMAIN env |-> <<"str", text(env[k])>>]
<1>1. c.Env = EnvGiven(p)
  BY DEF Create, PodmanCreate, DockerCreate
<1>2. \A k \in DOMAIN env : env[k] \in {"str", "int", "none"} \X STRING
  BY DEF Possible, IsParams
<1>3. \A k \in DOMAIN env : given[k] = env[k] <=> env[k][1] = "str"
  <2> SUFFICES ASSUME NEW k \in DOMAIN env PROVE given[k] = env[k] <=> env[k][1] = "str"
    OBVIOUS
  <2>1. env[k] = <<env[k][1], env[k][2]>>
    BY <1>2
  <2>2. given[k] = <<"str", text(env[k])>>
    OBVIOUS
  <2>3. env[k][1] = "str" => text(env[k]) = env[k][2]
    OBVIOUS
  <2> HIDE DEF text, given, env
  <2> QED
    BY <2>1, <2>2, <2>3
<1>4. CASE engine = "docker"
  <2>1. EnvGiven(p) = Overlay([KOLLA_SERVICE_NAME |-> ServiceName], given)
    BY <1>4 DEF EnvGiven
  <2>2. \A k \in DOMAIN env :
            /\ k \in DOMAIN c.Env
            /\ c.Env[k] = IF k = "KOLLA_SERVICE_NAME" THEN ServiceName ELSE given[k]
    <3> DEFINE own == [KOLLA_SERVICE_NAME |-> ServiceName]
    <3>1. DOMAIN own = {"KOLLA_SERVICE_NAME"} /\ own["KOLLA_SERVICE_NAME"] = ServiceName
      OBVIOUS
    <3>2. DOMAIN given = DOMAIN env
      OBVIOUS
    <3>3. c.Env = Overlay(own, given)
      BY <1>1, <2>1
    <3> HIDE DEF own, given
    <3> QED
      BY <3>1, <3>2, <3>3 DEF Overlay
  <2>3. ServiceName[1] = "str"
    BY DEF ServiceName
  <2> HIDE DEF given
  <2> QED
    BY <1>3, <1>4, <2>2, <2>3 DEF CompareEnvironment, Differs
<1>5. CASE engine # "docker"
  <2>1. c.Env = given
    BY <1>1, <1>5 DEF EnvGiven
  <2>2. DOMAIN given = DOMAIN env
    OBVIOUS
  <2> HIDE DEF given
  <2> QED
    BY <1>3, <1>5, <2>1, <2>2 DEF CompareEnvironment, Differs
<1> QED
  BY <1>4, <1>5

\* The volumes: modes that podman does not show, and mounts that it does not show as
\* binds, beside others.
VolumesUnrepeatable(p) ==
    /\ engine = "podman"
    /\ \/ \E v \in VolDict(p.volumes) : v[3] \notin {"rw", "ro"}
       \/ /\ PodmanBinds(p.volumes) # {}
          /\ \/ Devpts(p.volumes) # {}
             \/ VolList(p.volumes) # {b[2] : b \in PodmanBinds(p.volumes)}

\* podman's comparison of volumes on the container it has just created.
LEMMA AgainVolumes ==
    ASSUME NEW p, Possible(p), NEW c, c = Create(p, image)
    PROVE  /\ CompareVolumes(p, c) = "differs" => VolumesUnrepeatable(p)
           /\ VolumesUnrepeatable(p) => CompareVolumes(p, c) # "same"
<1>0. VolumesParse(p.volumes)
  BY DEF Possible, Creatable
<1>1. CASE engine = "docker"
  <2>1. c.Volumes = VolList(p.volumes) /\ c.Binds = VolDict(p.volumes)
    BY <1>1 DEF Create, DockerCreate
  <2> QED
    BY <1>0, <1>1, <2>1 DEF CompareVolumes, Differs, VolumesUnrepeatable
<1>2. CASE engine = "podman"
  <2> DEFINE dict == VolDict(p.volumes)
             shown == PodmanBinds(p.volumes)
             plain == {<<b[1], b[2], IF b[3] = "ro" THEN "ro" ELSE "rw">> : b \in dict}
  <2>1. c.Volumes = {b[2] : b \in shown} /\ c.Binds = shown
    BY <1>2 DEF Create, PodmanCreate, DockerCreate
  <2>2. PodmanOK(p.volumes) /\ VolumesOK(p.volumes)
    BY <1>2 DEF Possible, PodmanOK
  <2>3. CompareVolumes(p, c) = IF p.volumes = <<>> THEN "fail"
            ELSE IF shown = {} THEN Differs(dict # plain)
            ELSE Differs(VolList(p.volumes) # {b[2] : b \in shown} \/ dict # shown)
    BY <1>0, <1>2, <2>1 DEF CompareVolumes, PodmanCompareVolumes
  <2>4. CASE shown = {}
    <3>1. dict = plain <=> \A v \in dict : v[3] \in {"rw", "ro"}
      BY <2>2, PlainModes
    <3> HIDE DEF dict, shown, plain
    <3> QED
      BY <1>2, <2>3, <2>4, <3>1 DEF Differs, VolumesUnrepeatable, dict, shown
  <2>5. CASE shown # {}
    <3>1. (\A v \in dict : v[3] \in {"rw", "ro"}) /\ Devpts(p.volumes) = {} => dict = shown
      BY <2>2, PodmanMountsVolDict
    <3>3. Devpts(p.volumes) # {} => dict # shown
      BY <2>2, DevptsNoBind
    <3>2. dict = shown => \A v \in dict : v[3] \in {"rw", "ro"}
      BY PodmanModes
    <3> HIDE DEF dict, shown
    <3> QED
      BY <1>2, <2>3, <2>5, <3>1, <3>2, <3>3 DEF Differs, VolumesUnrepeatable, dict, shown
  <2> QED
    BY <2>4, <2>5
<1> QED
  BY <1>1, <1>2 DEF Possible

\* The dimensions: a unit, which podman's comparison does not convert, and ulimits that
\* podman adds.
DimensionsUnrepeatable(p) ==
    /\ engine = "podman"
    /\ \/ \E d \in DOMAIN p.dimensions : p.dimensions[d][2] # ""
       \/ p.ulimits # Overlay(UlimitDefaults, p.ulimits)

\* What podman's creation gives every container, and what of it was asked for.
LEMMA UlimitsShown ==
    ASSUME NEW u, u \in [DOMAIN u -> Int \X Int]
    PROVE  /\ Overlay(UlimitDefaults, ParseUlimits(u)) = Overlay(UlimitDefaults, u)
           /\ Overlay(UlimitDefaults, u)
                 \in [DOMAIN Overlay(UlimitDefaults, u) -> Int \X Int]
           /\ BuildUlimits(u) = BuildUlimits(Overlay(UlimitDefaults, ParseUlimits(u)))
                 <=> u = Overlay(UlimitDefaults, u)
<1> DEFINE D == UlimitDefaults
           o == Overlay(D, u)
           q == Overlay(D, ParseUlimits(u))
<1>1. \A n \in DOMAIN D : D[n] \in Int \X Int
  BY DEF UlimitDefaults
<1> HIDE DEF D
<1>2. DOMAIN ParseUlimits(u) = DOMAIN u \ DOMAIN D
      /\ \A n \in DOMAIN u \ DOMAIN D : ParseUlimits(u)[n] = u[n]
  BY DEF ParseUlimits, D
<1>3. DOMAIN o = DOMAIN D \cup DOMAIN u
      /\ \A n \in DOMAIN o : o[n] = IF n \in DOMAIN D THEN D[n] ELSE u[n]
  BY DEF Overlay
<1>4. DOMAIN q = DOMAIN D \cup DOMAIN u
      /\ \A n \in DOMAIN q : q[n] = IF n \in DOMAIN D THEN D[n] ELSE u[n]
  BY <1>2 DEF Overlay
<1>5. o = [n \in DOMAIN o |-> o[n]] /\ q = [n \in DOMAIN q |-> q[n]]
  BY DEF Overlay
<1> HIDE DEF o, q
<1>6. q = o
  BY <1>3, <1>4, <1>5
<1>7. o \in [DOMAIN o -> Int \X Int]
  BY <1>1, <1>3, <1>5
<1>8. BuildUlimits(u) = BuildUlimits(o) => u = o
  BY <1>7, UlimitsTold
<1> QED
  BY <1>6, <1>7, <1>8 DEF o, q, D

\* A pair is told by its second part where that decides the first.
LEMMA PairIs ==
    ASSUME NEW v, NEW n, NEW e, v = <<v[1], v[2]>>, v[2] = e => n = v[1]
    PROVE  v = <<n, e>> <=> v[2] = e
OBVIOUS

\* The comparison of dimensions on the container just created.
LEMMA AgainDimensions ==
    ASSUME NEW p, Possible(p), NEW c, c = Create(p, image)
    PROVE  /\ CompareDimensions(p, c) = "differs" => DimensionsUnrepeatable(p)
           /\ DimensionsUnrepeatable(p) => CompareDimensions(p, c) # "same"
<1> DEFINE dims == p.dimensions
           each(d) == IF d \in DOMAIN p.dimensions
                      THEN DimensionDiffers(p.dimensions[d], c.Dimensions[d])
                      ELSE Differs(c.Dimensions[d] # 0)
<1>1. c.Dimensions = [d \in ToSet(DimensionMap) |->
                       IF d \in DOMAIN dims /\ dims[d][2] # "null"
                       THEN Bytes(dims[d]) ELSE 0]
  BY DEF Create, PodmanCreate, DockerCreate
<1>2. \A d \in DOMAIN dims : dims[d] \in Int \X STRING /\ dims[d][2] \in Units \cup {"null"}
  BY DEF Possible, IsParams, Creatable
<1>3. p.ulimits \in [DOMAIN p.ulimits -> Int \X Int]
  BY DEF Possible, IsParams
<1>4. CASE ~(DOMAIN dims \subseteq ToSet(DimensionMap))
  <2>1. CompareDimensions(p, c) = "fail"
    BY <1>4 DEF CompareDimensions
  <2> QED
    BY <2>1
<1>5. CASE DOMAIN dims \subseteq ToSet(DimensionMap)
  <2>1. /\ CompareDimensions(p, c) = "same" <=>
              CompareUlimits(p, c) = "same" /\ \A d \in ToSet(DimensionMap) : each(d) = "same"
        /\ CompareDimensions(p, c) = "differs" =>
              CompareUlimits(p, c) = "differs" \/ \E d \in ToSet(DimensionMap) : each(d) = "differs"
    BY <1>5, DimensionsVerdict
  <2>2. \A d \in ToSet(DimensionMap) : d \notin DOMAIN dims => each(d) = "same"
    BY <1>1 DEF Differs
  <2>3. CASE engine = "docker"
    <3>1. c.Ulimits = BuildUlimits(p.ulimits)
      BY <2>3 DEF Create, DockerCreate
    <3>2. \A d \in DOMAIN dims : each(d) # "differs"
      BY <1>1, <1>2, <1>5, <2>3 DEF DimensionDiffers, DimensionsDiffer, Differs, Units
    <3> QED
      BY <2>1, <2>2, <2>3, <3>1, <3>2 DEF CompareUlimits, Differs, DimensionsUnrepeatable
  <2>4. CASE engine = "podman"
    <3>1. c.Ulimits = BuildUlimits(Overlay(UlimitDefaults, ParseUlimits(p.ulimits)))
      BY <2>4 DEF Create, PodmanCreate, DockerCreate
    <3>2. CompareUlimits(p, c) = Differs(p.ulimits # Overlay(UlimitDefaults, p.ulimits))
      BY <1>3, <3>1, UlimitsShown DEF CompareUlimits, Differs
    <3>3. ASSUME NEW d \in DOMAIN dims
          PROVE  each(d) = Differs(dims[d][2] # "")
      <4>1. each(d) = Differs(dims[d] # <<c.Dimensions[d], "">>)
        BY <2>4 DEF DimensionDiffers, PodmanDimensionsDiffer
      <4>2. dims[d] = <<dims[d][1], dims[d][2]>> /\ dims[d][1] \in Int
        BY <1>2
      <4>3. dims[d][2] = "" => c.Dimensions[d] = dims[d][1]
        <5>1. UnitSize("") = 1 /\ "" # "null"
          BY SMT DEF UnitSize
        <5>2. PICK e : e = "" /\ e # "null" /\ UnitSize(e) = 1
          BY <5>1
        <5>3. dims[d][2] = e => Bytes(dims[d]) = dims[d][1]
          <6>1. UnitSize(e) = 1
            BY <5>2
          <6>2. \A n \in Int : n * 1 = n
            OBVIOUS
          <6> QED
            BY <4>2, <6>1, <6>2 DEF Bytes
        <5>4. dims[d][2] = e => c.Dimensions[d] = Bytes(dims[d])
          BY <1>1, <1>5, <5>2
        <5>5. dims[d][2] = e => c.Dimensions[d] = dims[d][1]
          BY <5>3, <5>4
        <5> QED
          BY <5>2, <5>5
      <4>4. dims[d] = <<c.Dimensions[d], "">> <=> dims[d][2] = ""
        BY <4>2, <4>3, PairIs
      <4> HIDE DEF dims, each
      <4> QED
        BY <4>1, <4>4 DEF Differs
    <3> HIDE DEF each
    <3> QED
      BY <1>5, <2>1, <2>2, <2>4, <3>2, <3>3 DEF Differs, DimensionsUnrepeatable
  <2> QED
    BY <2>3, <2>4 DEF Possible
<1> QED
  BY <1>4, <1>5

-----------------------------------------------------------------------------
(* container_info as a record.                                             *)

InfoFields == {"Image", "ImageName", "CapAdd", "SecurityOpt", "IpcMode", "Labels",
               "Privileged", "PidMode", "CgroupnsMode", "Tmpfs", "Volumes", "Binds",
               "VolumesFrom", "Env", "Status", "Dimensions", "Ulimits", "Command",
               "Healthcheck", "Devpts"}

\* c is a record with these fields and no others.
IsInfo(c) == DOMAIN c = InfoFields /\ c = [f \in InfoFields |-> c[f]]

\* The engine shows every container with these fields.
LEMMA CreateIsInfo ==
    ASSUME NEW p, NEW img
    PROVE  IsInfo(Create(p, img))
<1> DEFINE new == DockerCreate(p, img)
           so == new.SecurityOpt
           im == new.IpcMode
           pm == new.PidMode
           cm == new.CgroupnsMode
           tm == new.Tmpfs
           di == new.Dimensions
           co == new.Command
<1>1. new = [Image |-> img, ImageName |-> p.image, CapAdd |-> p.cap_add,
             SecurityOpt |-> so, IpcMode |-> im, Labels |-> Overlay(p.labels, ImageLabels[img]),
             Privileged |-> p.privileged, PidMode |-> pm, CgroupnsMode |-> cm, Tmpfs |-> tm,
             Volumes |-> VolList(p.volumes), Binds |-> VolDict(p.volumes),
             VolumesFrom |-> p.volumes_from, Env |-> EnvGiven(p), Status |-> "running",
             Dimensions |-> di, Ulimits |-> BuildUlimits(p.ulimits), Command |-> co,
             Healthcheck |-> ParseHealthcheck(p.healthcheck), Devpts |-> {}]
  BY DEF DockerCreate
<1> HIDE DEF so, im, pm, cm, tm, di, co
<1>2. IsInfo(new)
  BY <1>1 DEF IsInfo, InfoFields
<1>3. IsInfo(PodmanCreate(p, img))
  <2> HIDE DEF new
  <2> DEFINE s == IF HostMode(p) THEN {"label=disable"} ELSE {}
             a == IF p.pid_mode = Unset THEN "private" ELSE p.pid_mode
             b == IF p.cgroupns_mode = Unset THEN "private" ELSE p.cgroupns_mode
             v == {x[2] : x \in PodmanBinds(p.volumes)}
             w == {x[2] : x \in Devpts(p.volumes)}
             u == BuildUlimits(Overlay(UlimitDefaults, ParseUlimits(p.ulimits)))
  <2>1. PodmanCreate(p, img) =
           [new EXCEPT !.SecurityOpt = s, !.PidMode = a, !.CgroupnsMode = b, !.Tmpfs = {},
                       !.Volumes = v, !.Binds = PodmanBinds(p.volumes), !.Devpts = w,
                       !.Ulimits = u]
    BY DEF PodmanCreate, new
  <2> HIDE DEF s, a, b, v, w, u
  <2> QED
    BY <1>2, <2>1 DEF IsInfo, InfoFields
<1> QED
  BY <1>2, <1>3 DEF Create

-----------------------------------------------------------------------------
(* The container is one that create_container made, running or exited; a   *)
(* verdict is the one on the container and the image as they still are.    *)

\* The container that create_container makes, in a state it may get into.
Created(p, img, st) == [Create(p, img) EXCEPT !.Status = st]

IsMade(p, img, st) == /\ made = <<p>> /\ Creatable(p)
                      /\ info = <<Created(p, img, st)>>

CompareInv ==
    /\ engine \in {"docker", "podman"} /\ image \in Images \cup {NoImage}
    /\ made = <<>> => asked = <<>> /\ image \in Images
    /\ made # <<>> => \E p \in ParamSet[engine], img \in Images, st \in {"running", "exited"} :
                         IsMade(p, img, st)
    /\ asked = <<>> => verdict = "none"
    /\ asked # <<>> => \E p \in ParamSet[engine] :
                         asked = <<p>> /\ verdict = CheckContainerDiffers(p, info[1])

\* What create_container makes, and what check_container_differs says, is decided by the
\* engine and the image alone.
LEMMA SameAfter ==
    ASSUME engine' = engine, NEW p, NEW c, NEW img, NEW st
    PROVE  /\ Creatable(p)' = Creatable(p)
           /\ Created(p, img, st)' = Created(p, img, st)
           /\ image' = image => CheckContainerDiffers(p, c)' = CheckContainerDiffers(p, c)
<1>1. DimensionMap' = DimensionMap
  BY DEF DimensionMap
<1>2. EnvGiven(p)' = EnvGiven(p)
  BY DEF EnvGiven, Overlay
<1>3. Create(p, img)' = Create(p, img)
  BY <1>1, <1>2 DEF Create, DockerCreate, PodmanCreate
<1>4. ASSUME image' = image
      PROVE  CheckContainerDiffers(p, c)' = CheckContainerDiffers(p, c)
  <2>1. CompareImage(p, c)' = CompareImage(p, c)
    BY <1>4 DEF CompareImage, DockerCompareImage, PodmanCompareImage
  <2>2. CompareLabels(p, c)' = CompareLabels(p, c)
    BY <1>4 DEF CompareLabels
  <2>3. ComparePidMode(p, c)' = ComparePidMode(p, c)
    BY DEF ComparePidMode
  <2>4. CompareCgroupnsMode(p, c)' = CompareCgroupnsMode(p, c)
    BY DEF CompareCgroupnsMode
  <2>5. CompareVolumes(p, c)' = CompareVolumes(p, c)
    BY DEF CompareVolumes
  <2>6. CompareDimensions(p, c)' = CompareDimensions(p, c)
    BY <1>1 DEF CompareDimensions, DimensionDiffers
  <2> QED
    BY <2>1, <2>2, <2>3, <2>4, <2>5, <2>6 DEF CheckContainerDiffers
<1> QED
  BY <1>3, <1>4 DEF Creatable, Created

\* The state of the container is the only field that changes.
LEMMA CreatedFields ==
    ASSUME NEW p, NEW img, NEW st
    PROVE  LET c == Create(p, img)
               d == Created(p, img, st)
           IN  /\ Created(p, img, "running") = c
               /\ [d EXCEPT !.Status = "exited"] = Created(p, img, "exited")
               /\ IsInfo(d) /\ d.Image = img /\ d.Status = st
               /\ \A f \in InfoFields \ {"Status"} : d[f] = c[f]
<1> DEFINE c == Create(p, img)
           d == [c EXCEPT !.Status = st]
<1>1. c.Image = img /\ c.Status = "running"
  BY DEF Create, DockerCreate, PodmanCreate
<1>2. IsInfo(c)
  BY CreateIsInfo
<1>3. {"Image", "Status"} \subseteq InfoFields
  BY DEF InfoFields
<1> HIDE DEF c
<1>4. /\ [c EXCEPT !.Status = "running"] = c
      /\ [d EXCEPT !.Status = "exited"] = [c EXCEPT !.Status = "exited"]
      /\ IsInfo(d) /\ d.Image = img /\ d.Status = st
      /\ \A f \in InfoFields \ {"Status"} : d[f] = c[f]
  BY <1>1, <1>2, <1>3 DEF IsInfo
<1> QED
  BY <1>4 DEF c, Created

\* create_container leaves the labels of the image on the container.
LEMMA CreateLabels ==
    ASSUME NEW p, NEW img, NEW st
    PROVE  Labelled(Created(p, img, st))
<1> DEFINE c == Created(p, img, st)
<1>1. /\ "Image" \in DOMAIN c /\ "Labels" \in DOMAIN c
      /\ c.Image = img /\ c.Labels = Overlay(p.labels, ImageLabels[img])
  <2>1. "Image" \in InfoFields \ {"Status"} /\ "Labels" \in InfoFields \ {"Status"}
    BY DEF InfoFields
  <2>2. Create(p, img).Labels = Overlay(p.labels, ImageLabels[img])
    BY DEF Create, DockerCreate, PodmanCreate
  <2> QED
    BY <2>1, <2>2, CreatedFields DEF IsInfo
<1>2. DOMAIN ImageLabels[img] \subseteq DOMAIN Overlay(p.labels, ImageLabels[img])
  BY DEF Overlay
<1> QED
  BY <1>1, <1>2 DEF Labelled

\* A second run finds a container to be the same except for the parameters named.
LEMMA AgainVerdict ==
    ASSUME NEW p, Possible(p), NEW c, c = Create(p, image)
    PROVE  CheckContainerDiffers(p, c) = "same" <=> ~Unrepeatable(p) /\ ~NeverSame(p)
<1> DEFINE v == CheckContainerDiffers(p, c)
<1>1. Unrepeatable(p) <=>
          \/ CompareSecurityOpt(p, c) = "differs" \/ CompareTmpfs(p, c) = "differs"
          \/ CompareContainerState(p, c) = "differs" \/ CompareLabels(p, c) = "differs"
          \/ CompareEnvironment(p, c) = "differs"
          \/ VolumesUnrepeatable(p) \/ DimensionsUnrepeatable(p)
  BY AgainOptions, AgainLabels, AgainEnvironment
     DEF Unrepeatable, Differs, VolumesUnrepeatable, DimensionsUnrepeatable
<1>2. v = "differs" => Unrepeatable(p)
  BY <1>1, OneDiffers, AgainSame, AgainVolumes, AgainDimensions
<1>3. Unrepeatable(p) => v # "same"
  BY <1>1, AllSame, AgainVolumes, AgainDimensions
<1>4. v \in {"same", "differs", "fail"}
  BY VerdictKinds
<1>5. v = "fail" => NeverSame(p)
  <2>1. Labelled(c)
    BY CreatedFields, CreateLabels
  <2> QED
    BY <2>1, FailsWhereNamed DEF Possible
<1>6. NeverSame(p) => v # "same"
  BY NeverSameSays DEF Possible
<1> QED
  BY <1>2, <1>3, <1>4, <1>5, <1>6

\* CompareInv holds throughout.
LEMMA AlwaysMade == Spec => []CompareInv
<1>1. Init => CompareInv
  BY DEF Init, CompareInv
<1>2. CompareInv /\ [Next]_compareVars => CompareInv'
  <2> SUFFICES ASSUME CompareInv, [Next]_compareVars PROVE CompareInv'
    OBVIOUS
  <2>1. ASSUME NEW p \in ParamSet[engine], CreateContainer(p)
        PROVE  CompareInv'
    <3>1. /\ made = <<>> /\ asked = <<>> /\ verdict = "none" /\ image \in Images
          /\ engine \in {"docker", "podman"}
      BY <2>1 DEF CreateContainer, CompareInv
    <3>2. /\ made' = <<p>> /\ info' = <<Create(p, image)>> /\ Creatable(p)
          /\ UNCHANGED <<engine, image, asked, verdict>>
      BY <2>1 DEF CreateContainer
    <3>3. Create(p, image) = Created(p, image, "running")
      BY CreatedFields
    <3>4. Creatable(p)' /\ Created(p, image, "running")' = Created(p, image, "running")
          /\ p \in ParamSet[engine']
      BY <2>1, <3>2, SameAfter
    <3>5. IsMade(p, image, "running")'
      BY <3>2, <3>3, <3>4 DEF IsMade
    <3> QED
      BY <3>1, <3>2, <3>4, <3>5 DEF CompareInv
  <2>2. ASSUME NEW p \in ParamSet[engine], Compare(p)
        PROVE  CompareInv'
    <3>1. /\ asked' = <<p>> /\ verdict' = CheckContainerDiffers(p, info[1])
          /\ UNCHANGED <<engine, image, made, info>> /\ made # <<>>
      BY <2>2 DEF Compare
    <3>2. PICK q \in ParamSet[engine], img \in Images, st \in {"running", "exited"} :
              IsMade(q, img, st)
      BY <3>1 DEF CompareInv
    <3>3. IsMade(q, img, st)'
      BY <3>1, <3>2, SameAfter DEF IsMade
    <3>4. verdict' = CheckContainerDiffers(p, info[1])'
      BY <3>1, SameAfter
    <3> QED
      BY <3>1, <3>2, <3>3, <3>4 DEF CompareInv, ParamSet
  <2>3. CASE ImageMoves
    <3>1. /\ made # <<>> /\ asked = <<>> /\ image' \in Images \cup {NoImage}
          /\ UNCHANGED <<engine, made, info, asked, verdict>>
      BY <2>3 DEF ImageMoves
    <3>2. PICK q \in ParamSet[engine], img \in Images, st \in {"running", "exited"} :
              IsMade(q, img, st)
      BY <3>1 DEF CompareInv
    <3>3. IsMade(q, img, st)'
      BY <3>1, <3>2, SameAfter DEF IsMade
    <3> QED
      BY <3>1, <3>2, <3>3 DEF CompareInv, ParamSet
  <2>4. CASE ContainerExits
    <3>1. /\ made # <<>> /\ asked = <<>>
          /\ info' = <<[info[1] EXCEPT !.Status = "exited"]>>
          /\ UNCHANGED <<engine, image, made, asked, verdict>>
      BY <2>4 DEF ContainerExits
    <3>2. PICK q \in ParamSet[engine], img \in Images, st \in {"running", "exited"} :
              IsMade(q, img, st)
      BY <3>1 DEF CompareInv
    <3>3. info' = <<Created(q, img, "exited")>>
      <4>1. info[1] = Created(q, img, st)
        BY <3>2 DEF IsMade
      <4>2. [info[1] EXCEPT !.Status = "exited"] = Created(q, img, "exited")
        BY <4>1, CreatedFields
      <4> QED
        BY <3>1, <4>2
    <3>4. IsMade(q, img, "exited")'
      BY <3>1, <3>2, <3>3, SameAfter DEF IsMade
    <3> QED
      BY <3>1, <3>2, <3>4 DEF CompareInv, ParamSet
  <2>5. CASE UNCHANGED compareVars
    <3>1. UNCHANGED <<engine, image, made, info, asked, verdict>>
      BY <2>5 DEF compareVars
    <3>2. \A q, img, st : IsMade(q, img, st) => IsMade(q, img, st)'
      BY <3>1, SameAfter DEF IsMade
    <3>3. \A q, c : CheckContainerDiffers(q, c)' = CheckContainerDiffers(q, c)
      BY <3>1, SameAfter
    <3>4. made # <<>> => \E q \in ParamSet[engine'], img \in Images,
                            st \in {"running", "exited"} : IsMade(q, img, st)'
      BY <3>1, <3>2 DEF CompareInv
    <3>5. asked # <<>> => \E q \in ParamSet[engine'] :
              asked' = <<q>> /\ verdict' = CheckContainerDiffers(q, info[1])'
      BY <3>1, <3>3 DEF CompareInv
    <3> QED
      BY <3>1, <3>4, <3>5 DEF CompareInv, ParamSet
  <2> QED
    BY <2>1, <2>2, <2>3, <2>4, <2>5 DEF Next
<1> QED
  BY <1>1, <1>2, PTL DEF Spec

\* The parameters meet the assumption; created with, they make a container.
LEMMA ParamsPossible ==
    ASSUME CompareInv, NEW p \in ParamSet[engine], Creatable(p)
    PROVE  /\ IsParams(p) /\ VolumesOK(p.volumes)
           /\ engine = "podman" => PodmanOK(p.volumes)
           /\ image \in Images => Possible(p)
<1>1. /\ engine = "docker" => p \in DockerParams
      /\ engine = "podman" => p \in PodmanParams
      /\ engine \in {"docker", "podman"}
  BY DEF CompareInv, ParamSet
<1>2. IsParams(p)
  BY <1>1, CompareAssumption
<1>3. VolumesOK(p.volumes)
  BY <1>2 DEF IsParams, VolumesOK
<1>4. engine = "podman" => PodmanOK(p.volumes)
  BY <1>1, <1>3, CompareAssumption DEF PodmanOK, Creatable
<1> QED
  BY <1>1, <1>2, <1>3, <1>4 DEF Possible

-----------------------------------------------------------------------------
(* A container that was made with q, for which no comparison with p finds  *)
(* a difference, next to the one that would be made with p.                *)

\* Its fields are those it was made with.
LEMMA FieldsOf ==
    ASSUME NEW q, NEW st, NEW c, c = Created(q, image, st)
    PROVE  /\ c.CapAdd = Create(q, image).CapAdd
           /\ c.SecurityOpt = Create(q, image).SecurityOpt
           /\ c.Image = image /\ c.ImageName = Create(q, image).ImageName
           /\ c.IpcMode = Create(q, image).IpcMode /\ c.Labels = Create(q, image).Labels
           /\ c.Privileged = Create(q, image).Privileged
           /\ c.PidMode = Create(q, image).PidMode
           /\ c.CgroupnsMode = Create(q, image).CgroupnsMode
           /\ c.Tmpfs = Create(q, image).Tmpfs /\ c.Volumes = Create(q, image).Volumes
           /\ c.Binds = Create(q, image).Binds
           /\ c.VolumesFrom = Create(q, image).VolumesFrom /\ c.Env = Create(q, image).Env
           /\ c.Dimensions = Create(q, image).Dimensions
           /\ c.Ulimits = Create(q, image).Ulimits
           /\ c.Devpts = Create(q, image).Devpts
BY CreatedFields DEF InfoFields

\* Image, capabilities, modes, tmpfs, command and health check.
LEMMA SameOptions ==
    ASSUME NEW p, Possible(p), NEW q, Possible(q), NEW st, NEW c, c = Created(q, image, st),
           CompareCapAdd(p, c) = "same", CompareImage(p, c) = "same",
           CompareIpcMode(p, c) = "same", ComparePrivileged(p, c) = "same",
           CompareVolumesFrom(p, c) = "same", CompareCommand(p, c) = "same",
           CompareHealthcheck(p, c) = "same", CompareSecurityOpt(p, c) = "same",
           CompareContainerState(p, c) = "same", CompareTmpfs(p, c) = "same"
    PROVE  LET new == Create(p, image) IN
           /\ c.Image = new.Image /\ c.CapAdd = new.CapAdd /\ c.Privileged = new.Privileged
           /\ c.ImageName = IF engine = "podman" THEN <<c.ImageName[1], new.ImageName[2]>>
                                                 ELSE new.ImageName
           /\ c.IpcMode = IF p.ipc_mode = Unset THEN c.IpcMode ELSE new.IpcMode
           /\ c.VolumesFrom = new.VolumesFrom /\ c.Healthcheck = new.Healthcheck
           /\ c.Command = IF p.command = <<Unset>> THEN c.Command ELSE new.Command
           /\ c.SecurityOpt = IF HostMode(p) THEN c.SecurityOpt ELSE p.security_opt
           /\ c.Status = p.state /\ c.Tmpfs = new.Tmpfs
<1> DEFINE new == Create(p, image)
<1> USE DEF Differs
<1>1. /\ new.CapAdd = p.cap_add /\ new.Image = image /\ new.ImageName = p.image
      /\ new.IpcMode = IF p.ipc_mode = Unset THEN "private" ELSE p.ipc_mode
      /\ new.Privileged = p.privileged /\ new.VolumesFrom = p.volumes_from
      /\ new.Command = IF p.command \in {<<Unset>>, <<>>} THEN <<"kolla_start">> ELSE p.command
      /\ new.Healthcheck = ParseHealthcheck(p.healthcheck)
  BY DEF Create, PodmanCreate, DockerCreate
<1>2. c.CapAdd = p.cap_add /\ c.Privileged = p.privileged /\ c.VolumesFrom = p.volumes_from
      /\ c.Status = p.state
  BY DEF CompareCapAdd, ComparePrivileged, CompareVolumesFrom, CompareContainerState
<1>3. p.ipc_mode = Unset \/ p.ipc_mode = c.IpcMode
  BY DEF CompareIpcMode
<1>4. p.command = <<Unset>> \/ (p.command # <<>> /\ p.command = c.Command)
  BY DEF CompareCommand
<1>5. ParseHealthcheck(p.healthcheck) = c.Healthcheck
  BY DEF CompareHealthcheck
<1>6. HostMode(p) \/ p.security_opt = c.SecurityOpt
  BY DEF CompareSecurityOpt
<1>7. c.Image = image /\ c.ImageName = q.image
  <2>1. Create(q, image).ImageName = q.image
    BY DEF Create, PodmanCreate, DockerCreate
  <2> QED
    BY <2>1, FieldsOf
<1>8. engine = "docker" => c.ImageName = p.image
  BY DEF CompareImage, DockerCompareImage
<1>9. engine = "podman" => c.ImageName = <<c.ImageName[1], p.image[2]>>
  <2>1. engine = "podman" => c.ImageName[2] = p.image[2]
    BY DEF CompareImage, PodmanCompareImage
  <2>2. q.image = <<q.image[1], q.image[2]>>
    <3>1. q.image \in STRING \X STRING
      BY DEF Possible, IsParams
    <3> QED
      BY <3>1
  <2> QED
    BY <1>7, <2>1, <2>2
<1>10. c.Tmpfs = new.Tmpfs
  <2>1. c.Tmpfs = p.tmpfs \ {""} /\ c.Tmpfs = Create(q, image).Tmpfs
    BY FieldsOf DEF CompareTmpfs
  <2>2. engine = "docker" => new.Tmpfs = p.tmpfs \ {""}
    BY DEF Create, DockerCreate
  <2>3. engine = "podman" => new.Tmpfs = {} /\ Create(q, image).Tmpfs = {}
    BY DEF Create, PodmanCreate, DockerCreate
  <2> QED
    BY <2>1, <2>2, <2>3 DEF Possible
<1>11. engine \in {"docker", "podman"}
  BY DEF Possible
<1> HIDE DEF new
<1>12. /\ c.Image = new.Image /\ c.CapAdd = new.CapAdd /\ c.Privileged = new.Privileged
       /\ c.VolumesFrom = new.VolumesFrom /\ c.Healthcheck = new.Healthcheck
  BY <1>1, <1>2, <1>5, <1>7
<1>13. /\ c.ImageName = IF engine = "podman" THEN <<c.ImageName[1], new.ImageName[2]>>
                                             ELSE new.ImageName
       /\ c.IpcMode = IF p.ipc_mode = Unset THEN c.IpcMode ELSE new.IpcMode
       /\ c.Command = IF p.command = <<Unset>> THEN c.Command ELSE new.Command
       /\ c.SecurityOpt = IF HostMode(p) THEN c.SecurityOpt ELSE p.security_opt
  BY <1>1, <1>3, <1>4, <1>6, <1>8, <1>9, <1>11
<1> QED
  BY <1>2, <1>10, <1>12, <1>13 DEF new

\* The namespaces.  A container shows no mode by a word that stands for an unset one.
LEMMA SameModes ==
    ASSUME NEW p, Possible(p), NEW q, Possible(q), NEW st, NEW c, c = Created(q, image, st),
           ComparePidMode(p, c) = "same", CompareCgroupnsMode(p, c) = "same"
    PROVE  LET new == Create(p, image) IN
           /\ c.PidMode = new.PidMode
           /\ c.CgroupnsMode = IF p.cgroupns_mode = Unset \/ c.CgroupnsMode = ""
                               THEN c.CgroupnsMode ELSE new.CgroupnsMode
<1> DEFINE new == Create(p, image)
<1> USE DEF Differs
<1>0. PICK e : e = ""
  OBVIOUS
<1>1. p.pid_mode # e /\ p.cgroupns_mode # e /\ q.pid_mode # e /\ e # Unset /\ "private" # Unset
      /\ "private" # e
  BY <1>0 DEF Possible, IsParams, Unset
<1>2. CASE engine = "docker"
  <2>1. new.PidMode = IF p.pid_mode = Unset THEN e ELSE p.pid_mode
    BY <1>0, <1>2 DEF Create, DockerCreate
  <2>2. c.PidMode = IF q.pid_mode = Unset THEN e ELSE q.pid_mode
    <3>1. Create(q, image).PidMode = IF q.pid_mode = Unset THEN e ELSE q.pid_mode
      BY <1>0, <1>2 DEF Create, DockerCreate
    <3> QED
      BY <3>1, FieldsOf
  <2>3. p.pid_mode = IF c.PidMode = e THEN Unset ELSE c.PidMode
    BY <1>0, <1>2 DEF ComparePidMode, DockerComparePidMode
  <2>4. CgroupnsSupported => new.CgroupnsMode = IF p.cgroupns_mode = Unset THEN "private"
                                                ELSE p.cgroupns_mode
    BY <1>2 DEF Create, DockerCreate
  <2>5. ~CgroupnsSupported => c.CgroupnsMode = e
    <3>1. ~CgroupnsSupported => Create(q, image).CgroupnsMode = e
      BY <1>0, <1>2 DEF Create, DockerCreate
    <3> QED
      BY <3>1, FieldsOf
  <2>6. CgroupnsSupported =>
            \/ p.cgroupns_mode = Unset
            \/ p.cgroupns_mode = IF c.CgroupnsMode = e THEN "host" ELSE c.CgroupnsMode
    BY <1>0, <1>2 DEF CompareCgroupnsMode
  <2> HIDE DEF new
  <2>7. c.PidMode = new.PidMode
    BY <1>1, <2>1, <2>2, <2>3
  <2>8. c.CgroupnsMode = IF p.cgroupns_mode = Unset \/ c.CgroupnsMode = e
                         THEN c.CgroupnsMode ELSE new.CgroupnsMode
    BY <2>4, <2>5, <2>6
  <2> QED
    BY <1>0, <2>7, <2>8 DEF new
<1>3. CASE engine = "podman"
  <2>1. /\ new.PidMode = IF p.pid_mode = Unset THEN "private" ELSE p.pid_mode
        /\ new.CgroupnsMode = IF p.cgroupns_mode = Unset THEN "private" ELSE p.cgroupns_mode
    BY <1>3 DEF Create, PodmanCreate, DockerCreate
  <2>2. c.PidMode = IF q.pid_mode = Unset THEN "private" ELSE q.pid_mode
    <3>1. Create(q, image).PidMode = IF q.pid_mode = Unset THEN "private" ELSE q.pid_mode
      BY <1>3 DEF Create, PodmanCreate, DockerCreate
    <3> QED
      BY <3>1, FieldsOf
  <2>3. \/ p.pid_mode = Unset /\ c.PidMode = "private"
        \/ p.pid_mode = IF c.PidMode = e THEN Unset ELSE c.PidMode
    BY <1>0, <1>3 DEF ComparePidMode, PodmanComparePidMode
  <2>4. \/ p.cgroupns_mode = Unset
        \/ p.cgroupns_mode = IF c.CgroupnsMode = e THEN "host" ELSE c.CgroupnsMode
    BY <1>0, <1>3 DEF CompareCgroupnsMode
  <2> HIDE DEF new
  <2>5. c.PidMode = new.PidMode
    BY <1>1, <2>1, <2>2, <2>3
  <2>6. c.CgroupnsMode = IF p.cgroupns_mode = Unset \/ c.CgroupnsMode = e
                         THEN c.CgroupnsMode ELSE new.CgroupnsMode
    BY <2>1, <2>4
  <2> QED
    BY <1>0, <2>5, <2>6 DEF new
<1> QED
  BY <1>2, <1>3 DEF Possible

\* The labels: those that the image has as well are compared by its own.
LEMMA SameLabels ==
    ASSUME NEW p, Possible(p), NEW q, Possible(q), NEW st, NEW c, c = Created(q, image, st),
           CompareLabels(p, c) = "same"
    PROVE  LET new == Create(p, image) IN
           c.Labels = [k \in DOMAIN new.Labels |->
                          IF k \in DOMAIN p.labels THEN new.Labels[k] ELSE c.Labels[k]]
<1> DEFINE inherited == DOMAIN ImageLabels[image]
           rest == inherited \ (inherited \cap DOMAIN p.labels)
           new == Overlay(p.labels, ImageLabels[image])
<1>1. Create(p, image).Labels = new
  BY DEF Create, PodmanCreate, DockerCreate
<1>2. Create(q, image).Labels = Overlay(q.labels, ImageLabels[image])
  BY DEF Create, PodmanCreate, DockerCreate
<1>3. c.Labels = [k \in DOMAIN c.Labels |-> c.Labels[k]]
  BY <1>2, FieldsOf DEF Overlay
<1>4. rest \subseteq DOMAIN c.Labels
      /\ p.labels = [k \in DOMAIN c.Labels \ rest |-> c.Labels[k]]
  BY DEF CompareLabels, Differs
<1>5. DOMAIN p.labels = DOMAIN c.Labels \ rest
      /\ \A k \in DOMAIN p.labels : c.Labels[k] = p.labels[k]
  BY <1>4
<1>6. DOMAIN new = DOMAIN p.labels \cup inherited
      /\ \A k \in DOMAIN p.labels : new[k] = p.labels[k]
  BY DEF Overlay
<1>7. DOMAIN c.Labels = DOMAIN new
  BY <1>4, <1>5, <1>6
<1> HIDE DEF new
<1>8. c.Labels = [k \in DOMAIN new |-> IF k \in DOMAIN p.labels THEN new[k] ELSE c.Labels[k]]
  BY <1>3, <1>5, <1>6, <1>7
<1> QED
  BY <1>1, <1>8

\* The volumes: podman shows the modes that vol_dict would have.
LEMMA SameVolumes ==
    ASSUME NEW p, Possible(p), NEW q, Possible(q), NEW st, NEW c, c = Created(q, image, st),
           CompareVolumes(p, c) = "same"
    PROVE  LET new == Create(p, image) IN
           /\ c.Volumes = IF engine = "podman" /\ c.Binds = {} THEN {} ELSE new.Volumes
           /\ c.Binds = IF engine = "podman" /\ c.Binds = {} THEN {} ELSE new.Binds
           /\ c.Devpts = IF c.Binds = {} \/ new.Devpts = {} THEN c.Devpts ELSE new.Devpts
<1> DEFINE new == Create(p, image)
<1>1. CASE engine = "docker"
  <2>1. new.Volumes = VolList(p.volumes) /\ new.Binds = VolDict(p.volumes) /\ new.Devpts = {}
    BY <1>1 DEF Create, DockerCreate
  <2>2. VolList(p.volumes) = c.Volumes /\ VolDict(p.volumes) = c.Binds
    BY <1>1 DEF CompareVolumes, Differs
  <2> QED
    BY <1>1, <2>1, <2>2
<1>2. CASE engine = "podman"
  <2>1. /\ new.Binds = PodmanBinds(p.volumes)
        /\ new.Volumes = {b[2] : b \in PodmanBinds(p.volumes)}
        /\ new.Devpts = {v[2] : v \in Devpts(p.volumes)}
    BY <1>2 DEF Create, PodmanCreate, DockerCreate
  <2>2. c.Binds = PodmanBinds(q.volumes) /\ c.Volumes = {b[2] : b \in PodmanBinds(q.volumes)}
    <3>1. /\ Create(q, image).Binds = PodmanBinds(q.volumes)
          /\ Create(q, image).Volumes = {b[2] : b \in PodmanBinds(q.volumes)}
      BY <1>2 DEF Create, PodmanCreate, DockerCreate
    <3> QED
      BY <3>1, FieldsOf
  <2> HIDE DEF new
  <2>3. CASE c.Binds = {}
    <3>1. c.Volumes = {}
      BY <2>2, <2>3
    <3> QED
      BY <1>2, <2>3, <3>1
  <2>4. CASE c.Binds # {}
    <3>1. VolDict(p.volumes) = c.Binds
      BY <1>2, <2>4 DEF CompareVolumes, PodmanCompareVolumes, Differs
    <3>2. \A w \in VolDict(p.volumes) : w[3] \in {"rw", "ro"}
      BY <2>2, <3>1, PodmanModes
    <3>3. Devpts(p.volumes) = {}
      BY <1>2, <2>2, <3>1, DevptsNoBind DEF Possible
    <3>4. PodmanBinds(p.volumes) = VolDict(p.volumes)
      BY <1>2, <3>2, <3>3, PodmanMountsVolDict DEF Possible
    <3>5. new.Devpts = {}
      BY <2>1, <3>3
    <3> QED
      BY <2>1, <2>2, <2>4, <3>1, <3>4, <3>5 DEF new
  <2> QED
    BY <2>3, <2>4
<1> QED
  BY <1>1, <1>2 DEF Possible

\* The environment that is asked for: what the container has are texts.
LEMMA SameEnvironment ==
    ASSUME NEW p, Possible(p), NEW q, Possible(q), NEW st, NEW c, c = Created(q, image, st),
           CompareEnvironment(p, c) = "same", NEW k \in DOMAIN p.environment
    PROVE  c.Env[k] = Create(p, image).Env[k]
<1> DEFINE text(v) == IF v[1] # "none" THEN v[2]
                      ELSE IF engine = "docker" THEN "" ELSE "None"
           given(r) == [j \in DOMAIN r.environment |-> <<"str", text(r.environment[j])>>]
           own == [KOLLA_SERVICE_NAME |-> ServiceName]
           v == p.environment[k]
<1>1. k \in DOMAIN c.Env /\ c.Env[k] = v
  BY DEF CompareEnvironment, Differs
<1>2. Create(p, image).Env = EnvGiven(p) /\ c.Env = EnvGiven(q)
  <2>1. Create(p, image).Env = EnvGiven(p) /\ Create(q, image).Env = EnvGiven(q)
    BY DEF Create, PodmanCreate, DockerCreate
  <2> QED
    BY <2>1, FieldsOf
<1>3. v = <<v[1], v[2]>>
  <2>1. v \in {"str", "int", "none"} \X STRING
    BY DEF Possible, IsParams
  <2> QED
    BY <2>1
<1>4. ASSUME v[1] = "str"
      PROVE  given(p)[k] = v
  <2>1. given(p)[k] = <<"str", text(v)>> /\ text(v) = v[2]
    BY <1>4
  <2> QED
    BY <1>3, <1>4, <2>1
<1>5. \A j \in DOMAIN given(q) : given(q)[j][1] = "str"
  OBVIOUS
<1>6. DOMAIN given(p) = DOMAIN p.environment
  OBVIOUS
<1>7. CASE engine = "docker"
  <2>1. EnvGiven(p) = Overlay(own, given(p)) /\ EnvGiven(q) = Overlay(own, given(q))
    BY <1>7 DEF EnvGiven
  <2>2. DOMAIN own = {"KOLLA_SERVICE_NAME"} /\ own["KOLLA_SERVICE_NAME"] = ServiceName
        /\ ServiceName[1] = "str"
    BY DEF ServiceName
  <2> HIDE DEF own, given, v
  <2>3. c.Env[k] = IF k = "KOLLA_SERVICE_NAME" THEN ServiceName ELSE given(q)[k]
    BY <1>1, <1>2, <2>1, <2>2 DEF Overlay
  <2>4. EnvGiven(p)[k] = IF k = "KOLLA_SERVICE_NAME" THEN ServiceName ELSE given(p)[k]
    BY <1>6, <2>1, <2>2 DEF Overlay
  <2>5. k # "KOLLA_SERVICE_NAME" => k \in DOMAIN given(q)
    BY <1>1, <1>2, <2>1, <2>2 DEF Overlay
  <2> QED
    BY <1>1, <1>2, <1>4, <1>5, <2>3, <2>4, <2>5
<1>8. CASE engine # "docker"
  <2>1. EnvGiven(p) = given(p) /\ EnvGiven(q) = given(q)
    BY <1>8 DEF EnvGiven
  <2> HIDE DEF given, v
  <2> QED
    BY <1>1, <1>2, <1>4, <1>5, <2>1
<1> QED
  BY <1>7, <1>8

\* The dimensions and the ulimits.
LEMMA SameDimensions ==
    ASSUME NEW p, Possible(p), NEW q, Possible(q), NEW st, NEW c, c = Created(q, image, st),
           CompareDimensions(p, c) = "same"
    PROVE  c.Dimensions = Create(p, image).Dimensions /\ c.Ulimits = Create(p, image).Ulimits
<1> DEFINE dims == p.dimensions
           shown(r) == [d \in ToSet(DimensionMap) |->
                          IF d \in DOMAIN r.dimensions /\ r.dimensions[d][2] # "null"
                          THEN Bytes(r.dimensions[d]) ELSE 0]
           each(d) == IF d \in DOMAIN dims THEN DimensionDiffers(dims[d], c.Dimensions[d])
                      ELSE Differs(c.Dimensions[d] # 0)
<1>1. Create(p, image).Dimensions = shown(p) /\ c.Dimensions = shown(q)
  <2>1. \A r : Create(r, image).Dimensions = shown(r)
    BY DEF Create, PodmanCreate, DockerCreate
  <2>2. c.Dimensions = Create(q, image).Dimensions
    BY FieldsOf
  <2> QED
    BY <2>1, <2>2
<1>2. DOMAIN dims \subseteq ToSet(DimensionMap)
  BY DEF CompareDimensions
<1>3. CompareUlimits(p, c) = "same" /\ \A d \in ToSet(DimensionMap) : each(d) = "same"
  BY <1>2, DimensionsVerdict
<1>4. ASSUME NEW r, Possible(r), NEW d \in DOMAIN r.dimensions, r.dimensions[d][2] # "null"
      PROVE  Bytes(r.dimensions[d]) \in Int
  <2>1. \A x \in DOMAIN r.dimensions :
            r.dimensions[x] \in Int \X STRING /\ r.dimensions[x][2] \in Units \cup {"null"}
    BY <1>4 DEF Possible, IsParams, Creatable
  <2>2. r.dimensions[d][2] \in Units /\ r.dimensions[d][1] \in Int
    BY <1>4, <2>1
  <2>3. \A u \in Units : UnitSize(u) \in Int
    <3>1. UnitSize("") \in Int
      BY SMT DEF UnitSize
    <3>2. UnitSize("b") \in Int
      BY SMT DEF UnitSize
    <3>3. UnitSize("k") \in Int
      BY SMT DEF UnitSize
    <3>4. UnitSize("m") \in Int
      BY SMT DEF UnitSize
    <3> QED
      BY <3>1, <3>2, <3>3, <3>4, Zenon DEF Units
  <2>4. UnitSize(r.dimensions[d][2]) \in Int
    BY <2>2, <2>3
  <2>5. \A m, n \in Int : m * n \in Int
    OBVIOUS
  <2> QED
    BY <2>2, <2>4, <2>5 DEF Bytes
<1>5. \A d \in ToSet(DimensionMap) : c.Dimensions[d] \in Int
  BY <1>1, <1>4
<1>6. ASSUME NEW d \in ToSet(DimensionMap)
      PROVE  c.Dimensions[d] = shown(p)[d]
  <2>1. CASE d \notin DOMAIN dims
    BY <1>3, <2>1 DEF Differs
  <2>2. CASE d \in DOMAIN dims /\ engine = "docker"
    <3>1. DimensionsDiffer(dims[d], c.Dimensions[d]) = "same"
      BY <1>3, <2>2 DEF DimensionDiffers
    <3>2. dims[d][2] \in Units /\ Bytes(dims[d]) = c.Dimensions[d]
      BY <3>1 DEF DimensionsDiffer, Differs
    <3>3. dims[d][2] # "null"
      BY <3>2 DEF Units
    <3> QED
      BY <2>2, <3>2, <3>3
  <2>3. CASE d \in DOMAIN dims /\ engine = "podman"
    <3>1. PodmanDimensionsDiffer(dims[d], c.Dimensions[d]) = "same"
      BY <1>3, <2>3 DEF DimensionDiffers
    <3>2. UnitSize("") = 1 /\ "" # "null"
      BY SMT DEF UnitSize
    <3>3. PICK e : e = "" /\ e # "null" /\ UnitSize(e) = 1
      BY <3>2
    <3>4. dims[d] = <<c.Dimensions[d], e>>
      BY <3>1, <3>3 DEF PodmanDimensionsDiffer, Differs
    <3>5. e # "null" /\ UnitSize(e) = 1
      BY <3>3
    <3>6. dims[d][1] = c.Dimensions[d] /\ dims[d][2] = e
      BY <3>4
    <3>7. Bytes(dims[d]) = c.Dimensions[d]
      <4>1. \A n \in Int : n * 1 = n
        OBVIOUS
      <4> QED
        BY <1>5, <3>5, <3>6, <4>1 DEF Bytes
    <3> QED
      BY <2>3, <3>5, <3>6, <3>7
  <2> QED
    BY <2>1, <2>2, <2>3 DEF Possible
<1>7. c.Dimensions = shown(p)
  <2>1. DOMAIN c.Dimensions = ToSet(DimensionMap)
        /\ c.Dimensions = [d \in ToSet(DimensionMap) |-> c.Dimensions[d]]
    BY <1>1
  <2>2. shown(p) = [d \in ToSet(DimensionMap) |-> shown(p)[d]]
    OBVIOUS
  <2> HIDE DEF shown
  <2> QED
    BY <1>6, <2>1, <2>2
<1>8. c.Ulimits = BuildUlimits(p.ulimits)
  BY <1>3 DEF CompareUlimits, Differs
<1>9. c.Ulimits = Create(p, image).Ulimits
  <2>1. CASE engine = "docker"
    BY <1>8, <2>1 DEF Create, DockerCreate
  <2>2. CASE engine = "podman"
    <3> DEFINE D == UlimitDefaults
               o == Overlay(D, q.ulimits)
    <3>0. /\ p.ulimits \in [DOMAIN p.ulimits -> Int \X Int]
          /\ q.ulimits \in [DOMAIN q.ulimits -> Int \X Int]
      BY DEF Possible, IsParams
    <3>1. Create(p, image).Ulimits = BuildUlimits(Overlay(D, ParseUlimits(p.ulimits)))
      BY <2>2 DEF Create, PodmanCreate, DockerCreate
    <3>2. c.Ulimits = BuildUlimits(Overlay(D, ParseUlimits(q.ulimits)))
      <4>1. Create(q, image).Ulimits = BuildUlimits(Overlay(D, ParseUlimits(q.ulimits)))
        BY <2>2 DEF Create, PodmanCreate, DockerCreate
      <4> QED
        BY <4>1, FieldsOf
    <3>3. Overlay(D, ParseUlimits(q.ulimits)) = o /\ o \in [DOMAIN o -> Int \X Int]
      BY <3>0, UlimitsShown
    <3> HIDE DEF D
    <3>4. p.ulimits = o
      BY <1>8, <3>0, <3>2, <3>3, UlimitsTold
    <3>5. Overlay(D, o) = o
      BY DEF Overlay
    <3> QED
      BY <1>8, <3>0, <3>1, <3>4, <3>5, UlimitsShown DEF D
  <2> QED
    BY <2>1, <2>2 DEF Possible
<1> QED
  BY <1>1, <1>7, <1>9

-----------------------------------------------------------------------------
(* The theorems.                                                           *)

\* Comparing any parameters that a container can be created with, with any container
\* created before, for every image moved or lost meanwhile and all labels: it raises or
\* exits only where the command is empty, podman is asked for no volumes, or a dimension
\* has no value or is gone from the API, and then it never says "same".
THEOREM ComparesWithoutFailing == Spec => []ComparisonFailsOnlyWhereNamed
<1>1. CompareInv => ComparisonFailsOnlyWhereNamed
  <2> SUFFICES ASSUME CompareInv, asked # <<>>, Creatable(asked[1])
               PROVE  /\ verdict = "fail" => NeverSame(asked[1])
                      /\ NeverSame(asked[1]) => verdict # "same"
    BY DEF ComparisonFailsOnlyWhereNamed
  <2>1. asked # <<>> /\ made # <<>>
    BY DEF CompareInv
  <2>2. Labelled(info[1])
    <3>1. PICK p, img, st : IsMade(p, img, st)
      BY <2>1 DEF CompareInv
    <3>2. info[1] = Created(p, img, st)
      BY <3>1 DEF IsMade
    <3> QED
      BY <3>2, CreateLabels
  <2>3. verdict = CheckContainerDiffers(asked[1], info[1])
    BY <2>1 DEF CompareInv
  <2> QED
    BY <2>2, <2>3, FailsWhereNamed, NeverSameSays DEF CompareInv
<1> QED
  BY <1>1, AlwaysMade, PTL

\* A second run with the same parameters finds the container to be the same exactly when
\* none of the parameters named by Unrepeatable and NeverSame is among them (among these a
\* devpts volume beside others under podman), whatever the others are.
THEOREM SecondRunChangesNothing == Spec => []SecondRunFindsNoChange
<1>1. CompareInv => SecondRunFindsNoChange
  <2> SUFFICES ASSUME CompareInv, asked # <<>>, asked = made, image = info[1].Image,
                      info[1].Status = "running"
               PROVE  verdict = "same" <=> ~Unrepeatable(made[1]) /\ ~NeverSame(made[1])
    BY DEF SecondRunFindsNoChange
  <2>1. PICK p \in ParamSet[engine], img \in Images, st \in {"running", "exited"} :
            IsMade(p, img, st)
    BY DEF CompareInv
  <2>2. info[1] = Created(p, img, st) /\ Creatable(p) /\ made[1] = p
    BY <2>1 DEF IsMade
  <2>3. info[1].Image = img /\ info[1].Status = st
    BY <2>2, CreatedFields
  <2>4. info[1] = Create(p, image)
    <3>1. Created(p, img, "running") = Create(p, img)
      BY CreatedFields
    <3> QED
      BY <2>2, <2>3, <3>1
  <2>5. Possible(p)
    BY <2>1, <2>2, <2>3, ParamsPossible
  <2>6. verdict = CheckContainerDiffers(p, info[1])
    BY <2>2 DEF CompareInv
  <2> QED
    BY <2>2, <2>4, <2>5, <2>6, AgainVerdict
<1> QED
  BY <1>1, AlwaysMade, PTL

\* generate_volumes loses no volume unless a source is asked for twice, and podman's
\* parse_volumes none either.
THEOREM MountsEveryVolume == Spec => []EveryVolumeMounted
<1>1. CompareInv => EveryVolumeMounted
  <2> SUFFICES ASSUME CompareInv, made # <<>>,
                      \A i, j \in BindItems(made[1].volumes) :
                         i # j => made[1].volumes[i][1] # made[1].volumes[j][1],
                      NEW i \in BindItems(made[1].volumes)
               PROVE  \/ \E b \in info[1].Binds : b[1] = made[1].volumes[i][1]
                                               /\ b[2] = made[1].volumes[i][2]
                      \/ /\ made[1].volumes[i][1] = "devpts"
                         /\ made[1].volumes[i][2] \in info[1].Devpts
    BY DEF EveryVolumeMounted
  <2>1. PICK p \in ParamSet[engine], img \in Images, st \in {"running", "exited"} :
            IsMade(p, img, st)
    BY DEF CompareInv
  <2>2. info[1] = Created(p, img, st) /\ Creatable(p) /\ made[1] = p
    BY <2>1 DEF IsMade
  <2>3. info[1].Binds = Create(p, img).Binds /\ info[1].Devpts = Create(p, img).Devpts
    BY <2>2, CreatedFields DEF InfoFields
  <2>4. VolumesOK(p.volumes)
    BY <2>2, ParamsPossible
  <2> QED
    BY <2>2, <2>3, <2>4, MountsAll
<1> QED
  BY <1>1, AlwaysMade, PTL

\* A container that is kept is the one that would be created now, but for what
\* NoSilentDrift names: for all parameters it was made with and all it is compared with.
THEOREM NoDriftUnnoticed == Spec => []NoSilentDrift
<1>1. CompareInv => NoSilentDrift
  <2> SUFFICES ASSUME CompareInv, verdict = "same", Creatable(asked[1])
               PROVE  NoSilentDrift
    BY DEF NoSilentDrift
  <2>1. asked # <<>> /\ made # <<>>
    BY DEF CompareInv
  <2>2. PICK p \in ParamSet[engine] :
            asked = <<p>> /\ verdict = CheckContainerDiffers(p, info[1])
    BY <2>1 DEF CompareInv
  <2>3. PICK q \in ParamSet[engine], img \in Images, st \in {"running", "exited"} :
            IsMade(q, img, st)
    BY <2>1 DEF CompareInv
  <2> DEFINE c == info[1]
             new == Create(p, image)
             want == [new EXCEPT
                  !.Env = c.Env,
                  !.Status = p.state,
                  !.ImageName = IF engine = "podman" THEN <<c.ImageName[1], @[2]>> ELSE @,
                  !.Labels = [k \in DOMAIN @ |->
                                IF k \in DOMAIN p.labels THEN @[k] ELSE c.Labels[k]],
                  !.IpcMode = IF p.ipc_mode = Unset THEN c.IpcMode ELSE @,
                  !.CgroupnsMode = IF p.cgroupns_mode = Unset \/ c.CgroupnsMode = ""
                                   THEN c.CgroupnsMode ELSE @,
                  !.Command = IF p.command = <<Unset>> THEN c.Command ELSE @,
                  !.SecurityOpt = IF HostMode(p) THEN c.SecurityOpt ELSE p.security_opt,
                  !.Volumes = IF engine = "podman" /\ c.Binds = {} THEN {} ELSE @,
                  !.Binds = IF engine = "podman" /\ c.Binds = {} THEN {} ELSE @,
                  !.Devpts = IF c.Binds = {} \/ @ = {} THEN c.Devpts ELSE @]
  <2>4. c = Created(q, img, st) /\ Creatable(q)
    BY <2>3 DEF IsMade
  <2>5. CheckContainerDiffers(p, c) = "same" /\ asked[1] = p
    BY <2>2
  <2>6. image = img /\ image \in Images
    <3>1. CompareImage(p, c) = "same"
      BY <2>5, AllSame
    <3>2. c.Image = image
      BY <3>1 DEF CompareImage, DockerCompareImage, PodmanCompareImage, Differs
    <3> QED
      BY <2>4, <3>2, CreatedFields
  <2>7. Possible(p) /\ Possible(q) /\ c = Created(q, image, st)
    BY <2>4, <2>5, <2>6, ParamsPossible
  <2>8. IsInfo(c) /\ IsInfo(new)
    BY <2>7, CreatedFields, CreateIsInfo
  <2> HIDE DEF c
  <2>9. \A k \in DOMAIN p.environment : c.Env[k] = new.Env[k]
    BY <2>5, <2>7, AllSame, SameEnvironment
  <2>10. /\ c.Image = new.Image /\ c.CapAdd = new.CapAdd /\ c.Privileged = new.Privileged
         /\ c.ImageName = IF engine = "podman" THEN <<c.ImageName[1], new.ImageName[2]>>
                                               ELSE new.ImageName
         /\ c.IpcMode = IF p.ipc_mode = Unset THEN c.IpcMode ELSE new.IpcMode
         /\ c.VolumesFrom = new.VolumesFrom /\ c.Healthcheck = new.Healthcheck
         /\ c.Command = IF p.command = <<Unset>> THEN c.Command ELSE new.Command
         /\ c.SecurityOpt = IF HostMode(p) THEN c.SecurityOpt ELSE p.security_opt
         /\ c.Status = p.state /\ c.Tmpfs = new.Tmpfs
    BY <2>5, <2>7, AllSame, SameOptions
  <2>11. /\ c.PidMode = new.PidMode
         /\ c.CgroupnsMode = IF p.cgroupns_mode = Unset \/ c.CgroupnsMode = ""
                             THEN c.CgroupnsMode ELSE new.CgroupnsMode
    <3>1. ComparePidMode(p, c) = "same" /\ CompareCgroupnsMode(p, c) = "same"
      BY <2>5, AllSame
    <3> QED
      BY <2>7, <3>1, SameModes, Zenon
  <2>12. c.Labels = [k \in DOMAIN new.Labels |->
                        IF k \in DOMAIN p.labels THEN new.Labels[k] ELSE c.Labels[k]]
    BY <2>5, <2>7, AllSame, SameLabels
  <2>13. /\ c.Volumes = IF engine = "podman" /\ c.Binds = {} THEN {} ELSE new.Volumes
         /\ c.Binds = IF engine = "podman" /\ c.Binds = {} THEN {} ELSE new.Binds
         /\ c.Devpts = IF c.Binds = {} \/ new.Devpts = {} THEN c.Devpts ELSE new.Devpts
    BY <2>5, <2>7, AllSame, SameVolumes
  <2>14. c.Dimensions = new.Dimensions /\ c.Ulimits = new.Ulimits
    BY <2>5, <2>7, AllSame, SameDimensions
  <2> HIDE DEF new
  <2>15. c = want
    <3>1. want = [new EXCEPT
                    !.Env = c.Env, !.Status = c.Status, !.ImageName = c.ImageName,
                    !.Labels = c.Labels, !.IpcMode = c.IpcMode,
                    !.CgroupnsMode = c.CgroupnsMode, !.Command = c.Command,
                    !.SecurityOpt = c.SecurityOpt, !.Volumes = c.Volumes, !.Binds = c.Binds,
                    !.Devpts = c.Devpts]
      BY <2>8, <2>10, <2>11, <2>12, <2>13
    <3> HIDE DEF want
    <3>2. DOMAIN want = InfoFields /\ want = [f \in InfoFields |-> want[f]]
      BY <2>8, <3>1 DEF IsInfo
    <3>3. ASSUME NEW f \in InfoFields
          PROVE  want[f] = c[f]
      BY <2>8, <2>10, <2>11, <2>14, <3>1 DEF IsInfo, InfoFields
    <3> QED
      BY <2>8, <3>2, <3>3 DEF IsInfo
  <2> QED
    BY <2>5, <2>9, <2>15 DEF NoSilentDrift, c, new
<1> QED
  BY <1>1, AlwaysMade, PTL

=============================================================================
