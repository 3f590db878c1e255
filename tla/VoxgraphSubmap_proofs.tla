------------------------- MODULE VoxgraphSubmap_proofs -------------------------
(***************************************************************************)
(* Proofs about the cached members of submaps, for any number of submaps   *)
(* and clouds, any TSDF and any transform.                                 *)
(***************************************************************************)
EXTENDS VoxgraphSubmap, WellFoundedInduction, TLAPS

\* Every submap of the collection has each of its members, and outside a switch
\* there is an active one.
MembersOK ==
  /\ size \in Nat
  /\ switching \in BOOLEAN
  /\ switching \/ size # 0
  /\ DOMAIN tsdf = SubmapIds
  /\ DOMAIN clouds = SubmapIds
  /\ DOMAIN finished = SubmapIds
  /\ DOMAIN esdf = SubmapIds
  /\ DOMAIN registrationPoints = SubmapIds
  /\ DOMAIN mappingInterval = SubmapIds

Fresh(id) ==
  /\ finished[id]
  /\ esdf[id] = tsdf[id].blocks
  /\ registrationPoints[id] = tsdf[id].surface
  /\ mappingInterval[id][2] = clouds[id]

\* finishSubmap makes what registration reads of a submap anew, and touches no
\* other submap.
LEMMA FinishSubmapIsFresh ==
  ASSUME MembersOK, NEW id \in SubmapIds, NEW map, NEW surfaceBox, NEW mapBox,
         FinishSubmap(id, map, surfaceBox, mapBox),
         tsdf'[id] = map, \A i \in SubmapIds \ {id} : tsdf'[i] = tsdf[i],
         UNCHANGED clouds
  PROVE  /\ Fresh(id)'
         /\ \A i \in SubmapIds \ {id} : Fresh(i) => Fresh(i)'
         /\ DOMAIN finished' = SubmapIds
         /\ DOMAIN esdf' = SubmapIds
         /\ DOMAIN registrationPoints' = SubmapIds
         /\ DOMAIN mappingInterval' = SubmapIds
<1> USE DEF MembersOK, FinishSubmap
<1>1. /\ finished'[id] = TRUE
      /\ esdf'[id] = map.blocks
      /\ registrationPoints'[id] = map.surface
      /\ mappingInterval'[id] = Interval(clouds[id])
      /\ tsdf'[id] = map
  BY DEF Refilled
<1>2. Interval(clouds[id])[2] = clouds[id]
  BY DEF Interval
<1>3. \A i \in SubmapIds \ {id} :
        /\ finished'[i] = finished[i]
        /\ esdf'[i] = esdf[i]
        /\ registrationPoints'[i] = registrationPoints[i]
        /\ mappingInterval'[i] = mappingInterval[i]
        /\ tsdf'[i] = tsdf[i]
  OBVIOUS
<1>4. QED
  BY <1>1, <1>2, <1>3 DEF Fresh

FreshInv == MembersOK /\ \A id \in Left : Fresh(id)

\* Whatever finish_map did earlier, what the registration constraints read of
\* a submap that the mapper has left is that of all its clouds.
THEOREM RegistrationDataIsFresh == Spec => []RegistrationDataFresh
<1>1. Init => FreshInv
  BY DEF Init, FreshInv, MembersOK, Left, SubmapIds
<1>2. FreshInv /\ [Next]_vars => FreshInv'
  <2> SUFFICES ASSUME FreshInv, [Next]_vars PROVE FreshInv'
    OBVIOUS
  <2> USE DEF FreshInv
  <2>1. ASSUME NEW map \in Maps, IntegratePointcloud(map.blocks, map.surface)
        PROVE  FreshInv'
    <3>1. SubmapIds' = SubmapIds /\ Left' = SubmapIds \ {ActiveSubmap}
      BY <2>1 DEF IntegratePointcloud, SubmapIds, Left, ActiveSubmap
    <3>2. MembersOK'
      BY <2>1, <3>1 DEF IntegratePointcloud, MembersOK, cached
    <3>3. \A id \in SubmapIds \ {ActiveSubmap} :
            tsdf'[id] = tsdf[id] /\ clouds'[id] = clouds[id]
      BY <2>1 DEF IntegratePointcloud, MembersOK
    <3>4. \A id \in SubmapIds \ {ActiveSubmap} : Fresh(id)
      BY <2>1 DEF IntegratePointcloud, Left
    <3>5. QED
      BY <2>1, <3>1, <3>2, <3>3, <3>4 DEF IntegratePointcloud, cached, Fresh
  <2>2. ASSUME FinishActiveSubmap, ~switching, switching' \in BOOLEAN,
               UNCHANGED <<size, tsdf, clouds>>
        PROVE  FreshInv'
    <3>1. ActiveSubmap \in SubmapIds
      BY <2>2 DEF MembersOK, ActiveSubmap, SubmapIds
    <3>2. /\ SubmapIds' = SubmapIds
          /\ Left' \subseteq SubmapIds
          /\ \A id \in SubmapIds \ {ActiveSubmap} : Fresh(id)
      BY <2>2 DEF SubmapIds, Left, ActiveSubmap
    <3>3. QED
      BY <2>2, <3>1, <3>2, FinishSubmapIsFresh
         DEF FinishActiveSubmap, MembersOK
  <2>3. ASSUME NEW T_M_S \in PoseValues, CreateNewSubmap(T_M_S)
        PROVE  FreshInv'
    <3>1. size \in Nat /\ size' = size + 1 /\ size \notin SubmapIds
      BY <2>3 DEF CreateNewSubmap, MembersOK, SubmapIds
    <3>2. /\ SubmapIds' = SubmapIds \cup {size}
          /\ Left' = SubmapIds
          /\ Left = SubmapIds
      BY <2>3, <3>1 DEF CreateNewSubmap, SubmapIds, Left, ActiveSubmap
    <3>3. MembersOK'
      <4>1. size' \in Nat /\ switching' = FALSE /\ size' # 0
        BY <2>3, <3>1 DEF CreateNewSubmap
      <4>2. \A f, value : DOMAIN f = SubmapIds =>
              DOMAIN With(f, size, value) = SubmapIds'
        BY <3>2 DEF With
      <4>3. QED
        BY <2>3, <4>1, <4>2 DEF CreateNewSubmap, MembersOK
    <3>4. \A id \in SubmapIds :
            /\ finished'[id] = finished[id]
            /\ esdf'[id] = esdf[id]
            /\ registrationPoints'[id] = registrationPoints[id]
            /\ mappingInterval'[id] = mappingInterval[id]
            /\ tsdf'[id] = tsdf[id]
            /\ clouds'[id] = clouds[id]
      BY <2>3, <3>1 DEF CreateNewSubmap, MembersOK, With
    <3>5. QED
      BY <3>2, <3>3, <3>4 DEF Fresh
  <2>4. ASSUME NEW id \in SubmapIds, NEW shift \in Shifts,
               TransformSubmap(id, shift)
        PROVE  FreshInv'
    <3> DEFINE map == [blocks |-> Moved(tsdf[id].blocks, shift),
                       surface |-> Moved(tsdf[id].surface, shift)]
    <3>1. /\ DOMAIN tsdf' = DOMAIN tsdf
          /\ tsdf'[id] = map
          /\ \A i \in SubmapIds \ {id} : tsdf'[i] = tsdf[i]
          /\ FinishSubmap(id, map, ResetBoxes(id)[1], ResetBoxes(id)[2])
          /\ UNCHANGED <<switching, size, clouds>>
      BY <2>4 DEF TransformSubmap, MembersOK
    <3> HIDE DEF map
    <3>2. SubmapIds' = SubmapIds /\ Left' = Left /\ Left \subseteq SubmapIds
      BY <3>1 DEF SubmapIds, Left, ActiveSubmap
    <3>3. QED
      BY <3>1, <3>2, FinishSubmapIsFresh DEF MembersOK
  <2>5. CASE UNCHANGED <<switching, size, tsdf, clouds, cached>>
    BY <2>5 DEF cached, MembersOK, Left, SubmapIds, ActiveSubmap, Fresh
  <2>6. QED
    BY <2>1, <2>2, <2>3, <2>4, <2>5 DEF Next, SwitchToNewSubmap,
       FinishMapCallback, SetSubmapPose, vars, MembersOK
<1>3. FreshInv => RegistrationDataFresh
  BY DEF FreshInv, Fresh, RegistrationDataFresh
<1>4. QED
  BY <1>1, <1>2, <1>3, PTL DEF Spec

-------------------------------------------------------------------------------
(* Boxes around blocks *)

\* A non-empty set of natural numbers has a least element.
LEMMA FirstBlock ==
  ASSUME NEW S \in SUBSET Nat, S # {}
  PROVE  \E m \in S : \A n \in S : m <= n
<1> DEFINE R == {pair \in Nat \X Nat : pair[1] < pair[2]}
<1>1. IsWellFoundedOn(R, Nat)
  BY NatLessThanWellFounded DEF OpToRel
<1> HIDE DEF R
<1>2. PICK m \in S : \A n \in S : <<n, m>> \notin R
  BY <1>1, WFMin
<1>3. \A n \in S : ~(n < m)
  BY <1>2 DEF R
<1>4. QED
  BY <1>3

\* The box around blocks begins and ends at the first and the last of them.
LEMMA BoxAroundBlocks ==
  ASSUME NEW S \in SUBSET Reach
  PROVE  /\ BoxAround(S) \in Box
         /\ S # {} => /\ BoxAround(S) # NoBox
                      /\ \A b \in S : BoxAround(S)[1] <= b /\ b <= BoxAround(S)[2]
<1>1. CASE S = {}
  BY <1>1 DEF BoxAround, Box
<1>2. CASE S # {}
  <2> DEFINE lowest == 1 - Extent
             highest == 2 * Extent
  <2>1. /\ lowest \in Int /\ highest \in Int
        /\ \A b \in S : b \in Int /\ lowest <= b /\ b <= highest
    BY SubmapAssumption DEF Reach
  <2> HIDE DEF lowest, highest
  <2>2. \E m \in S : \A n \in S : m <= n
    <3> DEFINE T == {b - lowest : b \in S}
    <3>1. T \in SUBSET Nat /\ T # {}
      BY <1>2, <2>1
    <3>2. PICK t \in T : \A u \in T : t <= u
      BY <3>1, FirstBlock
    <3>3. PICK m \in S : t = m - lowest
      BY <3>2
    <3>4. ASSUME NEW n \in S PROVE m <= n
      <4>1. t <= n - lowest
        BY <3>2
      <4>2. QED
        BY <2>1, <3>3, <4>1
    <3>5. QED
      BY <3>4
  <2>3. \E m \in S : \A n \in S : n <= m
    <3> DEFINE T == {highest - b : b \in S}
    <3>1. T \in SUBSET Nat /\ T # {}
      BY <1>2, <2>1
    <3>2. PICK t \in T : \A u \in T : t <= u
      BY <3>1, FirstBlock
    <3>3. PICK m \in S : t = highest - m
      BY <3>2
    <3>4. ASSUME NEW n \in S PROVE n <= m
      <4>1. t <= highest - n
        BY <3>2
      <4>2. QED
        BY <2>1, <3>3, <4>1
    <3>5. QED
      BY <3>4
  <2> DEFINE first == CHOOSE b \in S : \A c \in S : b <= c
             last == CHOOSE b \in S : \A c \in S : c <= b
  <2>4. first \in S /\ \A c \in S : first <= c
    BY <2>2
  <2>5. last \in S /\ \A c \in S : c <= last
    BY <2>3
  <2>6. BoxAround(S) = <<first, last>>
    BY <1>2 DEF BoxAround
  <2> HIDE DEF first, last
  <2>7. first \in Int /\ last \in Int
    BY <2>1, <2>4, <2>5
  <2>8. QED
    BY <2>4, <2>5, <2>6, <2>7 DEF Box, NoBox
<1>3. QED
  BY <1>1, <1>2

-------------------------------------------------------------------------------
(* Type correctness *)

\* The blocks of a submap lie in reach, and its surface passes through allocated
\* ones.
InReach(map) == map.blocks \subseteq Reach /\ map.surface \subseteq map.blocks

SubmapInv ==
  /\ TypeOK
  /\ switching \/ size # 0
  /\ \A id \in SubmapIds : InReach(tsdf[id])

\* finishSubmap caches what has the right type.
LEMMA FinishSubmapTypes ==
  ASSUME TypeOK, NEW id \in SubmapIds, NEW map \in Tsdf, InReach(map),
         NEW surfaceBox \in Box, NEW mapBox \in Box,
         FinishSubmap(id, map, surfaceBox, mapBox)
  PROVE  /\ finished' \in [SubmapIds -> BOOLEAN]
         /\ esdf' \in [SubmapIds -> SUBSET Int]
         /\ surfaceObb' \in [SubmapIds -> Box]
         /\ mapObb' \in [SubmapIds -> Box]
         /\ registrationPoints' \in [SubmapIds -> SUBSET Int]
         /\ isosurfaceBlocks' \in [SubmapIds -> SUBSET Int]
         /\ mappingInterval' \in [SubmapIds -> (0..MaxClouds) \X (0..MaxClouds)]
<1>1. /\ map.blocks \in SUBSET Reach /\ map.surface \in SUBSET Reach
      /\ map.blocks \in SUBSET Int /\ map.surface \in SUBSET Int
  BY DEF InReach, Tsdf
<1>2. /\ Measured(mapBox, map.blocks) \in Box
      /\ Measured(surfaceBox, map.surface) \in Box
  BY <1>1, BoxAroundBlocks DEF Measured
<1>3. Interval(clouds[id]) \in (0..MaxClouds) \X (0..MaxClouds)
  BY SubmapAssumption DEF Interval, TypeOK
<1> HIDE DEF Box
<1>4. /\ surfaceObb' \in [SubmapIds -> Box]
      /\ mapObb' \in [SubmapIds -> Box]
  BY <1>2 DEF FinishSubmap, TypeOK
<1>5. mappingInterval' \in [SubmapIds -> (0..MaxClouds) \X (0..MaxClouds)]
  BY <1>3 DEF FinishSubmap, TypeOK
<1>6. QED
  BY <1>1, <1>4, <1>5 DEF FinishSubmap, Refilled, TypeOK

\* Finishing the active submap, in a switch or in finish_map.
LEMMA FinishActiveTypes ==
  ASSUME SubmapInv, ~switching, switching' \in BOOLEAN, FinishActiveSubmap,
         UNCHANGED <<size, tsdf, clouds, pose>>
  PROVE  SubmapInv'
<1>1. ActiveSubmap \in SubmapIds /\ SubmapIds' = SubmapIds /\ size # 0
  BY SubmapAssumption DEF SubmapInv, TypeOK, ActiveSubmap, SubmapIds
<1>2. /\ tsdf[ActiveSubmap] \in Tsdf
      /\ surfaceObb[ActiveSubmap] \in Box
      /\ mapObb[ActiveSubmap] \in Box
  BY <1>1 DEF SubmapInv, TypeOK
<1>3. /\ finished' \in [SubmapIds -> BOOLEAN]
      /\ esdf' \in [SubmapIds -> SUBSET Int]
      /\ surfaceObb' \in [SubmapIds -> Box]
      /\ mapObb' \in [SubmapIds -> Box]
      /\ registrationPoints' \in [SubmapIds -> SUBSET Int]
      /\ isosurfaceBlocks' \in [SubmapIds -> SUBSET Int]
      /\ mappingInterval' \in [SubmapIds -> (0..MaxClouds) \X (0..MaxClouds)]
  BY <1>1, <1>2, FinishSubmapTypes DEF FinishActiveSubmap, SubmapInv
<1>4. QED
  BY <1>1, <1>3 DEF SubmapInv, TypeOK

\* A function with one more id.
LEMMA WithTypes ==
  ASSUME NEW T, NEW f \in [SubmapIds -> T], NEW value \in T,
         size \in Nat
  PROVE  With(f, size, value) \in [0..size -> T]
<1>1. SubmapIds \cup {size} = 0..size
  BY DEF SubmapIds
<1>2. QED
  BY <1>1 DEF With

LEMMA CreateTypes ==
  ASSUME SubmapInv, NEW T_M_S \in PoseValues, CreateNewSubmap(T_M_S)
  PROVE  SubmapInv'
<1>1. /\ size \in Nat /\ size' = size + 1 /\ size' \in 0..MaxSubmaps
      /\ SubmapIds' = 0..size /\ switching' = FALSE /\ size' # 0
  BY SubmapAssumption
     DEF CreateNewSubmap, SubmapInv, TypeOK, SubmapIds
<1>2. /\ [blocks |-> {}, surface |-> {}] \in Tsdf
      /\ 0 \in 0..MaxClouds
      /\ T_M_S \in Int
      /\ NoBox \in Box
      /\ <<0, 0>> \in (0..MaxClouds) \X (0..MaxClouds)
  BY SubmapAssumption DEF Tsdf, Box
<1> HIDE DEF Box
<1>3. tsdf' \in [0..size -> Tsdf]
  BY <1>1, <1>2, WithTypes DEF CreateNewSubmap, SubmapInv, TypeOK
<1>4. clouds' \in [0..size -> 0..MaxClouds] /\ pose' \in [0..size -> Int]
  BY <1>1, <1>2, WithTypes DEF CreateNewSubmap, SubmapInv, TypeOK
<1>5. /\ finished' \in [0..size -> BOOLEAN]
      /\ esdf' \in [0..size -> SUBSET Int]
      /\ registrationPoints' \in [0..size -> SUBSET Int]
      /\ isosurfaceBlocks' \in [0..size -> SUBSET Int]
  BY <1>1, WithTypes DEF CreateNewSubmap, SubmapInv, TypeOK
<1>6. /\ surfaceObb' \in [0..size -> Box]
      /\ mapObb' \in [0..size -> Box]
      /\ mappingInterval' \in [0..size -> (0..MaxClouds) \X (0..MaxClouds)]
  BY <1>1, <1>2, WithTypes DEF CreateNewSubmap, SubmapInv, TypeOK
<1>7. \A id \in 0..size : InReach(tsdf'[id])
  BY <1>1 DEF CreateNewSubmap, SubmapInv, TypeOK, With, SubmapIds, InReach
<1>8. QED
  BY <1>1, <1>3, <1>4, <1>5, <1>6, <1>7 DEF SubmapInv, TypeOK

LEMMA IntegrateTypes ==
  ASSUME SubmapInv, NEW map \in Maps,
         IntegratePointcloud(map.blocks, map.surface)
  PROVE  SubmapInv'
<1> DEFINE grown == [blocks |-> map.blocks, surface |-> map.surface]
<1>1. SubmapIds' = SubmapIds /\ ActiveSubmap \in SubmapIds
  BY SubmapAssumption
     DEF IntegratePointcloud, SubmapInv, TypeOK, SubmapIds, ActiveSubmap
<1>2. grown \in Tsdf /\ InReach(grown)
  BY SubmapAssumption DEF Maps, Tsdf, InReach, Reach
<1>3. /\ tsdf' = [tsdf EXCEPT ![ActiveSubmap] = grown]
      /\ clouds' = [clouds EXCEPT ![ActiveSubmap] = @ + 1]
      /\ clouds[ActiveSubmap] < MaxClouds
      /\ UNCHANGED <<switching, size, pose, cached>>
  BY DEF IntegratePointcloud
<1> HIDE DEF grown
<1>4. /\ tsdf' \in [SubmapIds -> Tsdf]
      /\ \A id \in SubmapIds : InReach(tsdf'[id])
  BY <1>1, <1>2, <1>3 DEF SubmapInv, TypeOK
<1>5. clouds' \in [SubmapIds -> 0..MaxClouds]
  <2>1. clouds[ActiveSubmap] + 1 \in 0..MaxClouds
    BY <1>1, <1>3, SubmapAssumption DEF SubmapInv, TypeOK
  <2>2. QED
    BY <1>1, <1>3, <2>1 DEF SubmapInv, TypeOK
<1>6. QED
  BY <1>1, <1>3, <1>4, <1>5 DEF SubmapInv, TypeOK, cached

LEMMA TransformTypes ==
  ASSUME SubmapInv, NEW id \in SubmapIds, NEW shift \in Shifts,
         TransformSubmap(id, shift)
  PROVE  SubmapInv'
<1> DEFINE map == [blocks |-> Moved(tsdf[id].blocks, shift),
                   surface |-> Moved(tsdf[id].surface, shift)]
<1>1. /\ map.blocks \subseteq Reach
      /\ tsdf' = [tsdf EXCEPT ![id] = map]
      /\ pose' = [pose EXCEPT ![id] = @ - shift]
      /\ FinishSubmap(id, map, NoBox, NoBox)
      /\ UNCHANGED <<switching, size, clouds>>
  BY DEF TransformSubmap, ResetBoxes
<1>2. map \in Tsdf /\ InReach(map)
  <2>1. tsdf[id] \in Tsdf /\ InReach(tsdf[id]) /\ shift \in Int
    BY SubmapAssumption DEF SubmapInv, TypeOK
  <2>2. Moved(tsdf[id].surface, shift) \subseteq Moved(tsdf[id].blocks, shift)
    BY <2>1 DEF Moved, InReach
  <2>3. Moved(tsdf[id].blocks, shift) \subseteq Int
    BY <2>1 DEF Moved, Tsdf
  <2>4. QED
    BY <1>1, <2>2, <2>3 DEF InReach, Tsdf
<1>3. SubmapIds' = SubmapIds /\ NoBox \in Box
  BY <1>1 DEF SubmapIds, Box
<1> HIDE DEF map
<1>4. /\ tsdf' \in [SubmapIds -> Tsdf]
      /\ \A i \in SubmapIds : InReach(tsdf'[i])
  BY <1>1, <1>2 DEF SubmapInv, TypeOK
<1>5. pose' \in [SubmapIds -> Int]
  BY <1>1, SubmapAssumption DEF SubmapInv, TypeOK
<1>6. /\ finished' \in [SubmapIds -> BOOLEAN]
      /\ esdf' \in [SubmapIds -> SUBSET Int]
      /\ surfaceObb' \in [SubmapIds -> Box]
      /\ mapObb' \in [SubmapIds -> Box]
      /\ registrationPoints' \in [SubmapIds -> SUBSET Int]
      /\ isosurfaceBlocks' \in [SubmapIds -> SUBSET Int]
      /\ mappingInterval' \in [SubmapIds -> (0..MaxClouds) \X (0..MaxClouds)]
  BY <1>1, <1>2, <1>3, FinishSubmapTypes DEF SubmapInv
<1>7. QED
  BY <1>1, <1>3, <1>4, <1>5, <1>6 DEF SubmapInv, TypeOK

LEMMA SubmapInvariant == Spec => []SubmapInv
<1>1. Init => SubmapInv
  BY SubmapAssumption DEF Init, SubmapInv, TypeOK, SubmapIds
<1>2. SubmapInv /\ [Next]_vars => SubmapInv'
  <2> SUFFICES ASSUME SubmapInv, [Next]_vars PROVE SubmapInv'
    OBVIOUS
  <2>1. CASE SwitchToNewSubmap \/ FinishMapCallback
    BY <2>1, FinishActiveTypes
       DEF SwitchToNewSubmap, FinishMapCallback, SubmapInv, TypeOK
  <2>2. ASSUME NEW id \in SubmapIds, NEW T_M_S \in PoseValues,
               SetSubmapPose(id, T_M_S)
        PROVE  SubmapInv'
    <3>1. pose' \in [SubmapIds -> Int]
      BY <2>2, SubmapAssumption DEF SetSubmapPose, SubmapInv, TypeOK
    <3>2. QED
      BY <2>2, <3>1 DEF SetSubmapPose, SubmapInv, TypeOK, cached, SubmapIds
  <2>3. CASE UNCHANGED vars
    BY <2>3 DEF vars, cached, SubmapInv, TypeOK, SubmapIds
  <2>4. QED
    BY <2>1, <2>2, <2>3, IntegrateTypes, CreateTypes, TransformTypes DEF Next
<1>3. QED
  BY <1>1, <1>2, PTL DEF Spec

\* Every member of every submap keeps its type: boxes have whole numbers of
\* blocks for ends, whatever is integrated, moved or finished.
THEOREM TypeCorrect == Spec => []TypeOK
<1>1. SubmapInv => TypeOK
  BY DEF SubmapInv
<1>2. QED
  BY <1>1, SubmapInvariant, PTL

-------------------------------------------------------------------------------
(* Boxes and overlap where finish_map is not called *)

\* The boxes are those of the TSDF, and all surface is among the blocks that the
\* overlap test walks.
Boxed(id) ==
  /\ surfaceObb[id] = BoxAround(tsdf[id].surface)
  /\ mapObb[id] = BoxAround(tsdf[id].blocks)
  /\ tsdf[id].surface \subseteq isosurfaceBlocks[id]

\* A submap that clouds go into has no boxes yet.
Unboxed(id) == surfaceObb[id] = NoBox /\ mapObb[id] = NoBox

BoxInv ==
  \A id \in SubmapIds : IF id \in Left THEN Boxed(id)
                                       ELSE ~finished[id] /\ Unboxed(id)

\* finishSubmap measures a submap that has no boxes, and touches no other one.
LEMMA FinishSubmapBoxes ==
  ASSUME TypeOK, NEW id \in SubmapIds, NEW map,
         FinishSubmap(id, map, NoBox, NoBox),
         tsdf'[id] = map, \A i \in SubmapIds \ {id} : tsdf'[i] = tsdf[i]
  PROVE  /\ Boxed(id)'
         /\ \A i \in SubmapIds \ {id} :
              /\ Boxed(i) => Boxed(i)'
              /\ ~finished[i] /\ Unboxed(i) => ~finished'[i] /\ Unboxed(i)'
<1>1. /\ surfaceObb'[id] = BoxAround(map.surface)
      /\ mapObb'[id] = BoxAround(map.blocks)
      /\ isosurfaceBlocks'[id] = isosurfaceBlocks[id] \cup map.surface
  BY DEF FinishSubmap, Measured, TypeOK
<1>2. \A i \in SubmapIds \ {id} :
        /\ surfaceObb'[i] = surfaceObb[i]
        /\ mapObb'[i] = mapObb[i]
        /\ isosurfaceBlocks'[i] = isosurfaceBlocks[i]
        /\ finished'[i] = finished[i]
        /\ tsdf'[i] = tsdf[i]
  BY DEF FinishSubmap, TypeOK
<1>3. QED
  BY <1>1, <1>2 DEF Boxed, Unboxed

LEMMA BoxInvariant == ASSUME FinishMap = FALSE PROVE Spec => []BoxInv
<1>1. Init => BoxInv
  BY DEF Init, BoxInv, SubmapIds
<1>2. SubmapInv /\ BoxInv /\ [Next]_vars => BoxInv'
  <2> SUFFICES ASSUME SubmapInv, BoxInv, [Next]_vars PROVE BoxInv'
    OBVIOUS
  <2>0. TypeOK /\ (switching \/ size # 0)
    BY DEF SubmapInv
  <2>1. ASSUME NEW map \in Maps, IntegratePointcloud(map.blocks, map.surface)
        PROVE  BoxInv'
    <3>1. /\ ~switching /\ UNCHANGED <<switching, size, cached>>
          /\ \A i \in SubmapIds \ {ActiveSubmap} : tsdf'[i] = tsdf[i]
      BY <2>0, <2>1 DEF IntegratePointcloud, TypeOK
    <3>2. /\ SubmapIds' = SubmapIds /\ Left' = Left
          /\ Left = SubmapIds \ {ActiveSubmap}
      BY <3>1 DEF SubmapIds, Left, ActiveSubmap
    <3>3. QED
      BY <3>1, <3>2 DEF BoxInv, Boxed, Unboxed, cached
  <2>2. CASE SwitchToNewSubmap
    <3>1. /\ ActiveSubmap \in SubmapIds
          /\ Left = SubmapIds \ {ActiveSubmap}
          /\ SubmapIds' = SubmapIds /\ Left' = SubmapIds
      BY <2>0, <2>2, SubmapAssumption DEF SwitchToNewSubmap, TypeOK, SubmapIds,
         ActiveSubmap, Left
    <3>2. Unboxed(ActiveSubmap)
      BY <3>1 DEF BoxInv
    <3>3. PICK active \in SubmapIds : active = ActiveSubmap
      BY <3>1
    <3> DEFINE map == tsdf[active]
    <3>4. /\ FinishSubmap(active, map, NoBox, NoBox)
          /\ tsdf'[active] = map
          /\ \A i \in SubmapIds \ {active} : tsdf'[i] = tsdf[i]
      BY <2>2, <3>2, <3>3 DEF SwitchToNewSubmap, FinishActiveSubmap, Unboxed
    <3> HIDE DEF map
    <3>5. /\ Boxed(active)'
          /\ \A i \in SubmapIds \ {active} : Boxed(i) => Boxed(i)'
      BY <2>0, <3>4, FinishSubmapBoxes
    <3>6. \A i \in SubmapIds \ {active} : Boxed(i)
      BY <3>1, <3>3 DEF BoxInv
    <3>7. \A i \in SubmapIds : Boxed(i)'
      BY <3>5, <3>6
    <3>8. QED
      BY <3>1, <3>7 DEF BoxInv
  <2>3. ASSUME NEW T_M_S \in PoseValues, CreateNewSubmap(T_M_S)
        PROVE  BoxInv'
    <3>1. /\ size \in Nat /\ size' = size + 1 /\ size \notin SubmapIds
          /\ SubmapIds' = SubmapIds \cup {size}
          /\ Left = SubmapIds /\ Left' = SubmapIds
      <4>1. /\ size \in Nat /\ size' = size + 1
            /\ switching = TRUE
            /\ switching' = FALSE
        BY <2>0, <2>3, SubmapAssumption DEF CreateNewSubmap, TypeOK
      <4>2. size \notin SubmapIds /\ SubmapIds' = SubmapIds \cup {size}
        BY <4>1 DEF SubmapIds
      <4>3. Left = SubmapIds
        BY <4>1 DEF Left, SubmapIds
      <4>4. Left' = SubmapIds
        BY <4>1, <4>2 DEF Left, ActiveSubmap
      <4>5. QED
        BY <4>1, <4>2, <4>3, <4>4
    <3>2. \A id \in SubmapIds :
            /\ tsdf'[id] = tsdf[id]
            /\ surfaceObb'[id] = surfaceObb[id]
            /\ mapObb'[id] = mapObb[id]
            /\ isosurfaceBlocks'[id] = isosurfaceBlocks[id]
      BY <2>0, <2>3, <3>1 DEF CreateNewSubmap, TypeOK, With
    <3>3. \A f, value : With(f, size, value)[size] = value
      BY DEF With
    <3>4. /\ finished'[size] = FALSE
          /\ surfaceObb'[size] = NoBox /\ mapObb'[size] = NoBox
      BY <2>3, <3>3 DEF CreateNewSubmap
    <3>5. ASSUME NEW id \in SubmapIds PROVE Boxed(id)'
      BY <3>1, <3>2 DEF BoxInv, Boxed
    <3>6. ASSUME NEW id, id = size PROVE ~finished'[id] /\ Unboxed(id)'
      BY <3>4, <3>6 DEF Unboxed
    <3>7. QED
      BY <3>1, <3>5, <3>6 DEF BoxInv
  <2>4. ASSUME NEW id \in SubmapIds, NEW shift \in Shifts,
               TransformSubmap(id, shift)
        PROVE  BoxInv'
    <3> DEFINE map == [blocks |-> Moved(tsdf[id].blocks, shift),
                       surface |-> Moved(tsdf[id].surface, shift)]
    <3>1. /\ finished[id]
          /\ FinishSubmap(id, map, NoBox, NoBox)
          /\ tsdf'[id] = map
          /\ \A i \in SubmapIds \ {id} : tsdf'[i] = tsdf[i]
          /\ UNCHANGED <<switching, size>>
      BY <2>0, <2>4 DEF TransformSubmap, ResetBoxes, TypeOK
    <3> HIDE DEF map
    <3>2. SubmapIds' = SubmapIds /\ Left' = Left /\ id \in Left
      BY <3>1 DEF SubmapIds, Left, ActiveSubmap, BoxInv
    <3>3. QED
      BY <2>0, <3>1, <3>2, FinishSubmapBoxes DEF BoxInv
  <2>5. CASE UNCHANGED <<switching, size, tsdf, cached>>
    BY <2>5 DEF cached, BoxInv, Boxed, Unboxed, Left, SubmapIds, ActiveSubmap
  <2>6. ~FinishMapCallback
    BY DEF FinishMapCallback
  <2>7. QED
    BY <2>1, <2>2, <2>3, <2>4, <2>5, <2>6 DEF Next, SetSubmapPose, vars
<1>3. QED
  BY <1>1, <1>2, SubmapInvariant, PTL DEF Spec

\* Where finish_map is not called, the boxes of a submap that the mapper has left
\* are those of all its clouds, whatever transforms do to it
\* (voxgraph_submap.h:55).
THEOREM BoxesAreFresh == ASSUME FinishMap = FALSE PROVE Spec => []BoxesFresh
<1>1. BoxInv => BoxesFresh
  BY DEF BoxInv, BoxesFresh, Boxed, Left
<1>2. QED
  BY <1>1, BoxInvariant, PTL

\* Submaps with a piece of surface in common overlap.
LEMMA CommonSurfaceOverlaps ==
  ASSUME SubmapInv, NEW a \in SubmapIds, NEW b \in SubmapIds,
         Boxed(a), Boxed(b),
         InMission(tsdf[a].surface, a) \cap InMission(tsdf[b].surface, b) # {}
  PROVE  OverlapsWith(a, b)
<1>1. /\ pose[a] \in Int /\ pose[b] \in Int
      /\ tsdf[a].surface \in SUBSET Reach /\ tsdf[b].surface \in SUBSET Reach
      /\ tsdf[b].surface \subseteq tsdf[b].blocks
      /\ Reach \subseteq Int
  BY SubmapAssumption DEF SubmapInv, TypeOK, InReach, Reach
<1>2. PICK r \in tsdf[a].surface, s \in tsdf[b].surface : r + pose[a] = s + pose[b]
  BY DEF InMission
<1>3. r \in Int /\ s \in Int
  BY <1>1, <1>2
<1>4. ~SurfacesApart(a, b)
  <2> DEFINE boxA == BoxAround(tsdf[a].surface)
             boxB == BoxAround(tsdf[b].surface)
  <2>1. /\ boxA \in Box /\ boxA # NoBox /\ boxA[1] <= r /\ r <= boxA[2]
        /\ boxB \in Box /\ boxB # NoBox /\ boxB[1] <= s /\ s <= boxB[2]
    BY <1>1, <1>2, BoxAroundBlocks
  <2>2. /\ Measured(surfaceObb[a], tsdf[a].surface) = boxA
        /\ Measured(surfaceObb[b], tsdf[b].surface) = boxB
    BY <2>1 DEF Boxed, Measured
  <2> HIDE DEF boxA, boxB
  <2>3. /\ boxA[1] \in Int /\ boxA[2] \in Int
        /\ boxB[1] \in Int /\ boxB[2] \in Int
    BY <2>1 DEF Box, NoBox
  <2>4. /\ boxA[1] + pose[a] <= boxB[2] + pose[b]
        /\ boxB[1] + pose[b] <= boxA[2] + pose[a]
    BY <1>1, <1>2, <1>3, <2>1, <2>3
  <2>5. ~Apart(MissionAabb(a, boxA), MissionAabb(b, boxB))
    BY <1>1, <2>3, <2>4 DEF Apart, MissionAabb
  <2>6. QED
    BY <2>1, <2>2, <2>5 DEF SurfacesApart
<1>5. BlockIn(r, a, b) = s
  BY <1>1, <1>2, <1>3 DEF BlockIn
<1>6. r \in isosurfaceBlocks[a] /\ BlockIn(r, a, b) \in tsdf[b].blocks
  BY <1>1, <1>2, <1>5 DEF Boxed
<1>7. QED
  BY <1>4, <1>6 DEF OverlapsWith

\* Where finish_map is not called, the overlap test finds every pair of submaps
\* with a piece of surface in common, whichever of the two comes first, for
\* submaps of any extent and any poses
\* (voxgraph_submap.cpp:239-272).
THEOREM SharedSurfaceIsFound ==
  ASSUME FinishMap = FALSE PROVE Spec => []SharedSurfaceOverlaps
<1>1. SubmapInv /\ BoxInv => SharedSurfaceOverlaps
  BY CommonSurfaceOverlaps DEF SharedSurfaceOverlaps, BoxInv, Left
<1>2. QED
  BY <1>1, SubmapInvariant, BoxInvariant, PTL
===============================================================================
