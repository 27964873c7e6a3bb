--------------------------- MODULE ReferenceAnalysis ---------------------------
(***************************************************************************)
(* custom_colors/analysis.py: the profile computed from the reference image   *)
(* of a color, what reading it back accepts, and the crop made from it.       *)
(*                                                                         *)
(* A picture is a size and a scene, whatever that is, and what is measured of *)
(* a part of it is Look.  Colors are triples of Lab as Pillow encodes it: the *)
(* lightness in 0..255, the two others less 128.                             *)
(***************************************************************************)
EXTENDS Integers, Sequences, FiniteSets, FiniteSetsExt, SequencesExt

CONSTANT Look(_, _)  \* Look(picture, box): the median color (lab) of a part of the
                     \* working copy, and its mean edge (edges) and mean standard
                     \* deviation (noise), rounded up

Clamped(low, high, n) == Max({low, Min({high, n})})

(* _ProviderRegion, in thousandths of the picture.                           *)
Regions ==
    {region \in [x : 0..999, y : 0..999, width : 1..1000, height : 1..1000] :
        region.x + region.width <= 1000 /\ region.y + region.height <= 1000}

(* The elements of s whose indices are kept, in their order.                 *)
Selected(s, kept) ==
    LET Take(taken, i) == IF i \in kept THEN Append(taken, s[i]) ELSE taken
    IN  FoldLeftDomain(Take, <<>>, s)

(* s in descending order of the keys, equals in their order: a stable sort.    *)
Ranked(s, key) ==
    LET Insert(order, i) ==
            LET Before(j) == key[j] >= key[i]
            IN  InsertAt(order, SelectLastInSeq(order, Before) + 1, i)
        order == FoldLeftDomain(Insert, <<>>, s)
    IN  [n \in DOMAIN s |-> s[order[n]]]

(* Mutant of Rounded: a tie goes up.                                         *)
MutantRoundsHalfUp(n, d) == (2 * n + d) \div (2 * d)

(* round(n / d) of Python: to nearest, a tie to the even neighbour.          *)
Rounded(n, d) ==
    LET q == n \div d
        r == n % d
    IN  IF 2 * r < d \/ (2 * r = d /\ q % 2 = 0) THEN q ELSE q + 1

(* _scale_region, and _source_box, which is the same: thousandths to pixels.   *)
Scaled(region, width, height) ==
    LET left == Rounded(region.x * width, 1000)
        top  == Rounded(region.y * height, 1000)
    IN  [left |-> left, top |-> top,
         right  |-> Max({left + 1, Rounded((region.x + region.width) * width, 1000)}),
         bottom |-> Max({top + 1, Rounded((region.y + region.height) * height, 1000)})]

(* _normalize_box: pixels to thousandths.                                    *)
Normalized(box, width, height) ==
    [x      |-> Clamped(0, 999, Rounded(box.left * 1000, width)),
     y      |-> Clamped(0, 999, Rounded(box.top * 1000, height)),
     width  |-> Clamped(1, 1000, Rounded((box.right - box.left) * 1000, width)),
     height |-> Clamped(1, 1000, Rounded((box.bottom - box.top) * 1000, height))]

(* _normalized_box_valid.                                                    *)
BoxValid(box) ==
    /\ box.x \in 0..999 /\ box.y \in 0..999
    /\ box.width \in 1..1000 /\ box.height \in 1..1000
    /\ box.x + box.width <= 1000
    /\ box.y + box.height <= 1000

(* _intersection_ratio(box, other) >= 0.2.                                   *)
Covered(box, other) ==
    LET width  == Min({box.right, other.right}) - Max({box.left, other.left})
        height == Min({box.bottom, other.bottom}) - Max({box.top, other.top})
    IN  /\ width > 0 /\ height > 0
        /\ 5 * width * height >= (box.right - box.left) * (box.bottom - box.top)

-----------------------------------------------------------------------------
(* Tiles.                                                                    *)

(* The working copy of a picture: its longer side is 512 at most.            *)
Working(picture) ==
    LET longest == Max({picture.width, picture.height})
        Side(n) == IF longest <= 512 THEN n ELSE Max({1, Rounded(n * 512, longest)})
    IN  [width |-> Side(picture.width), height |-> Side(picture.height)]

(* range(low, high + 1, stride)                                              *)
Steps(low, high, stride) ==
    [i \in 1..(IF high < low THEN 0 ELSE (high - low) \div stride + 1) |-> low + (i - 1) * stride]

(* The tiles of one candidate area, row by row.                              *)
TilesIn(area, side, stride) ==
    LET ys == Steps(area.top, area.bottom - side, stride)
        xs == Steps(area.left, area.right - side, stride)
    IN  [i \in 1..(Len(ys) * Len(xs)) |->
            LET y == ys[(i - 1) \div Len(xs) + 1]
                x == xs[((i - 1) % Len(xs)) + 1]
            IN  [left |-> x, top |-> y, right |-> x + side, bottom |-> y + side]]

(* The areas to look at: those the moderation located with confidence, or the *)
(* middle of the picture.                                                    *)
Areas(size, located) ==
    IF located.confidence >= 50 /\ located.material # <<>>
    THEN [i \in DOMAIN located.material |-> Scaled(located.material[i], size.width, size.height)]
    ELSE <<[left |-> Rounded(size.width, 10), top |-> Rounded(size.height, 10),
            right |-> Rounded(9 * size.width, 10), bottom |-> Rounded(9 * size.height, 10)]>>

(* The tests a tile must pass.                                               *)
Clean(look, tile, excluded, structure) ==
    /\ \A i \in DOMAIN excluded : ~Covered(tile, excluded[i])
    /\ look.lab[1] * 100 >= 5 * 255 /\ look.lab[1] * 100 <= 96 * 255
    /\ look.edges <= 48
    /\ look.noise <= (IF structure = "solid" THEN 38 ELSE 58)

TileSide(size) == Clamped(16, 64, Min({size.width, size.height}) \div 6)

(* The tiles of all areas, in order, with half a side between them.          *)
Boxes(areas, side) ==
    LET Add(boxes, area) == boxes \o TilesIn(area, side, Max({8, side \div 2}))
    IN  FoldLeft(Add, <<>>, areas)

Tile(look, box) ==
    [box |-> box, lab |-> look.lab, quality |-> Max({0, 100 - look.edges - look.noise})]

(* _candidate_tiles, before its test that there are three.                   *)
Tiles(picture, located, structure) ==
    LET size == Working(picture)
        excluded == [i \in DOMAIN located.excluded |->
                        Scaled(located.excluded[i], size.width, size.height)]
        boxes == Boxes(Areas(size, located), TileSide(size))
        clean == Selected(boxes, {i \in DOMAIN boxes :
                                     Clean(Look(picture, boxes[i]), boxes[i], excluded, structure)})
    IN  [i \in DOMAIN clean |-> Tile(Look(picture, clean[i]), clean[i])]

-----------------------------------------------------------------------------
(* Clusters.  Colors are compared in doubled numbers, since a median of an      *)
(* even number of tiles lies half way between two.                           *)

Distance(a, b) == IF a < b THEN b - a ELSE a - b

(* The integer square root, digit by digit.                                  *)
Root(n) ==
    LET Digit(root, bit) == IF (root + bit) * (root + bit) <= n THEN root + bit ELSE root
    IN  FoldLeft(Digit, 0, <<16384, 8192, 4096, 2048, 1024, 512, 256, 128, 64, 32, 16, 8, 4, 2, 1>>)

(* math.degrees(math.atan2(b, a)) in hundredths, to a fifth of a degree: from  *)
(* the smaller over the larger of the two, in thousandths, by octants.        *)
Slope(t) == (45 * t) \div 10 + (t * (1000 - t) * (1400 + (38 * t) \div 100)) \div 1000000
Acute(x, y) ==
    IF y <= x THEN Slope((1000 * y) \div x) ELSE 9000 - Slope((1000 * x) \div y)
Turned(negative, whole, angle) == IF negative THEN whole - angle ELSE angle

Hue(a, b) ==
    IF a = 0 /\ b = 0 THEN 0
    ELSE Turned(b < 0, 0, Turned(a < 0, 18000, Acute(Distance(a, 0), Distance(b, 0))))

(* _lab_distance, squared, in 102nds.                                        *)
LabDistance(p, q) ==
    LET l == 20 * (p[1] - q[1])
        a == 51 * (p[2] - q[2])
        b == 51 * (p[3] - q[3])
    IN  l * l + a * a + b * b

Lightness(lab) == (1000 * lab[1]) \div 51
Chroma(lab) == Root(2500 * (lab[2] * lab[2] + lab[3] * lab[3]))

(* Of two materials with the chromas c and d, in hundredths, which are so far   *)
(* apart in lightness and in hue; in ten thousandths.                        *)
MaterialDistance(lightness, c, d, turn) ==
    IF c < 1200 /\ d < 1200 THEN 25 * lightness + 100 * Distance(c, d)
    ELSE IF c < 800 \/ d < 800 THEN 1000000
    ELSE 120 * Min({turn, 36000 - turn}) + 12 * Distance(c, d) + 4 * lightness

(* _solid_material_distance                                                  *)
SolidDistance(p, q) ==
    MaterialDistance(Distance(Lightness(p), Lightness(q)), Chroma(p), Chroma(q),
                     Distance(Hue(p[2], p[3]), Hue(q[2], q[3])))

(* The distance and the threshold that a structure is clustered with.        *)
Apart(p, q, structure) ==
    IF structure = "solid" THEN SolidDistance(p, q) ELSE LabDistance(p, q)
Threshold(structure) == IF structure = "solid" THEN 22 * 10000 ELSE (14 * 102) * (14 * 102)

Twice(lab) == [channel \in 1..3 |-> 2 * lab[channel]]

(* Twice the median of each channel.                                         *)
Center(cluster) ==
    LET Smallest(channel, k) ==
            Min({v \in {cluster[i].lab[channel] : i \in DOMAIN cluster} :
                    Cardinality({i \in DOMAIN cluster : cluster[i].lab[channel] <= v}) >= k})
    IN  [channel \in 1..3 |-> Smallest(channel, (Len(cluster) + 1) \div 2)
                              + Smallest(channel, Len(cluster) \div 2 + 1)]

(* The cluster closest to a tile, if it is close; the first, if several are.   *)
Near(clusters, tile, structure) ==
    LET off == [i \in DOMAIN clusters |->
                   Apart(Twice(tile.lab), Center(clusters[i]), structure)]
    IN  {i \in DOMAIN clusters :
            /\ off[i] <= Threshold(structure)
            /\ \A j \in DOMAIN clusters : off[i] < off[j] \/ (off[i] = off[j] /\ i <= j)}

(* One round of _cluster_tiles: the tile joins the closest cluster, if close. *)
Joined(clusters, tile, near) ==
    IF clusters = <<>> \/ near = {} THEN Append(clusters, <<tile>>)
    ELSE [clusters EXCEPT ![Min(near)] = Append(@, tile)]

(* _cluster_tiles, largest cluster first.                                    *)
Clusters(tiles, structure) ==
    LET Put(clusters, tile) == Joined(clusters, tile, Near(clusters, tile, structure))
        clusters == FoldLeft(Put, <<>>, Ranked(tiles, [i \in DOMAIN tiles |-> tiles[i].quality]))
    IN  Ranked(clusters, [i \in DOMAIN clusters |-> Len(clusters[i])])

(* _cluster_value: the color of a cluster, and the tile closest to it, not by  *)
(* the distance a solid color is clustered with.                             *)
ClusterValue(cluster, weight, size) ==
    LET center == Center(cluster)
        closeness == [i \in DOMAIN cluster |-> -LabDistance(Twice(cluster[i].lab), center)]
    IN  [lab |-> center, weight |-> weight,
         box |-> Normalized(Ranked(cluster, closeness)[1].box, size.width, size.height)]

-----------------------------------------------------------------------------

Uncertain == [known |-> FALSE]

Profile(structure, confidence, palette) ==
    [known |-> TRUE, structure |-> structure,
     confidence |-> Clamped(1, 100, confidence), palette |-> palette]

(* The profile of a solid color: that of the largest cluster, if it is large. *)
Solid(primary, tiles, size) ==
    IF Len(primary) < 3 \/ 5 * Len(primary) < 2 * Len(tiles) THEN Uncertain
    ELSE Profile("solid", Rounded(100 * Len(primary), Len(tiles)),
                 <<ClusterValue(primary, <<1, 1>>, size)>>)

(* The clusters of several colors: those of two tiles and of 8% at least, and  *)
(* of these the first five.                                                  *)
Supported(clusters, tiles) ==
    LET least == Max({2, (8 * Len(tiles) + 99) \div 100})
        large == Selected(clusters, {i \in DOMAIN clusters : Len(clusters[i]) >= least})
    IN  SubSeq(large, 1, Min({5, Len(large)}))

(* Top left first; a weight is a number of tiles of how many.                *)
Palette(kept, total, size) ==
    LET Corner(cluster) ==
            Min({cluster[i].box.left + cluster[i].box.top : i \in DOMAIN cluster})
        palette == Ranked(kept, [i \in DOMAIN kept |-> -Corner(kept[i])])
    IN  [i \in DOMAIN palette |-> ClusterValue(palette[i], <<Len(palette[i]), total>>, size)]

Multicolor(kept, tiles, size) ==
    LET Plus(n, cluster) == n + Len(cluster)
        total == FoldLeft(Plus, 0, kept)
    IN  IF Len(kept) < 2 THEN Uncertain
        ELSE Profile("multicolor", Rounded(100 * total, Len(tiles)), Palette(kept, total, size))

ProfileOfTiles(tiles, structure, size) ==
    CASE Len(tiles) < 3 -> Uncertain
      [] Len(tiles) >= 3 /\ structure = "solid" -> Solid(Clusters(tiles, structure)[1], tiles, size)
      [] Len(tiles) >= 3 /\ structure # "solid" ->
            Multicolor(Supported(Clusters(tiles, structure), tiles), tiles, size)

(* analyze_reference                                                         *)
Analyzed(picture, located, structure) ==
    ProfileOfTiles(Tiles(picture, located, structure), structure, Working(picture))

(* ReferenceProfile.from_dict accepts the profile.                           *)
Readable(profile) ==
    /\ profile.structure \in {"solid", "multicolor"}
    /\ profile.confidence \in 0..100
    /\ Len(profile.palette) \in (IF profile.structure = "solid" THEN {1} ELSE 2..5)
    /\ \A i \in DOMAIN profile.palette :
          LET cluster == profile.palette[i]
          IN  /\ 0 < cluster.weight[1] /\ cluster.weight[1] <= cluster.weight[2]
              /\ BoxValid(cluster.box)

(* build_clean_reference: the part of the stored image that a sample box is.   *)
Crop(picture, cluster) == Scaled(cluster.box, picture.width, picture.height)

(* The crop is the tile: no edge is further off than two pixels of the working *)
(* copy, in which the tile was measured.                                     *)
CutsOut(crop, tile, picture) ==
    LET size == Working(picture)
        Off(stored, working, side, copy) == Distance(stored * copy, working * side) <= 2 * side
    IN  /\ Off(crop.left, tile.left, picture.width, size.width)
        /\ Off(crop.right, tile.right, picture.width, size.width)
        /\ Off(crop.top, tile.top, picture.height, size.height)
        /\ Off(crop.bottom, tile.bottom, picture.height, size.height)

(* What is cut out for a color of the palette (the worker does so for a solid   *)
(* one) is a part of the picture, and a tile that passed the tests.            *)
Samples(picture, cluster, tiles) ==
    LET crop == Crop(picture, cluster)
    IN  /\ 0 <= crop.left /\ crop.left < crop.right /\ crop.right <= picture.width
        /\ 0 <= crop.top /\ crop.top < crop.bottom /\ crop.bottom <= picture.height
        /\ \E i \in DOMAIN tiles : CutsOut(crop, tiles[i].box, picture)
===============================================================================
