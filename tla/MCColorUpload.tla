----------------------------- MODULE MCColorUpload -----------------------------
(* A small instance of ColorUpload for TLC.                                  *)
EXTENDS ColorUpload, TLC

CONSTANTS wide, tall, unscanned, edge, doubtful, unsafe, lost, gloss, matte

TwoFinishes == {gloss, matte}

(* A finish is only carried along; none is told from another.                *)
Finished == Permutations(TwoFinishes)

TwoMessages == {1, 2}
OneRequest == {10}

ThreeFiles == {wide, tall, unscanned}

SentFiles == <<{wide, unscanned}, {tall}>>

(* A scene is horizontal bands, each of one color with some texture, that end  *)
(* so many thousandths of the height from the top.                           *)
Band(to, lightness, a, b) == [to |-> to, lab |-> <<lightness, a, b>>]

(* What ImageStat measures of a box of a scene, and of the filter FIND_EDGES:   *)
(* at a step between two bands, three times the difference, on the lighter row. *)
BandLook(picture, box) ==
    LET height == Working(picture).height
        bands == DOMAIN picture.scene
        side == box.bottom - box.top
        End(i) == IF i = 0 THEN 0 ELSE (picture.scene[i].to * height) \div 1000
        rows == [i \in bands |->
                    Max({0, Min({box.bottom, End(i)}) - Max({box.top, End(i - 1)})})]
        Rows(some) == MapThenSumSet(LAMBDA i : rows[i], some)
        Level(i, c) == picture.scene[i].lab[c]
        Median(c) == Min({v \in {Level(i, c) : i \in bands} :
                             Rows({i \in bands : Level(i, c) <= v}) > side \div 2})
        Mean(c) == MapThenSumSet(LAMBDA i : rows[i] * Level(i, c), bands) \div side
        Square(n) == n * n
        Deviation(c) ==
            Root(MapThenSumSet(LAMBDA i : rows[i] * Square(Level(i, c) - Mean(c)), bands) \div side)
        Step(i) == Min({255, 3 * Distance(Level(i, 1), Level(i + 1, 1))})
        steps == {i \in bands : box.top < End(i) /\ End(i) < box.bottom}
    IN  [lab   |-> <<Median(1), Median(2), Median(3)>>,
         edges |-> 6 + MapThenSumSet(Step, steps) \div side,
         noise |-> 6 + (Deviation(1) + Deviation(2) + Deviation(3)) \div 3]

Image(scan, width, height, scene) ==
    [bytes |-> 100, signature |-> "image/png", declared |-> "image/png", scan |-> scan,
     decoder |-> "image", frames |-> 1, width |-> width, height |-> height, scene |-> scene]

(* Two close colors in every tile, with tiles that end at the right edge; two  *)
(* grays and an orange below an overexposed half, so long that intake and      *)
(* analysis both scale it; one clamd did not judge.                          *)
Contents ==
    (wide :> Image("OK", 256, 20, <<Band(600, 120, 30, 20), Band(1000, 150, 25, 30)>>))
    @@ (tall :> Image("OK", 60, 1280, <<Band(600, 250, 0, 0), Band(730, 60, 2, 2),
                                        Band(830, 150, 2, 2), Band(1000, 200, 20, 40)>>))
    @@ (unscanned :> Image("ERROR", 256, 20, <<Band(1000, 120, 30, 20)>>))

Decision(flags, safety, domain, located) ==
    [kind |-> "decision", safe |-> TRUE, flags |-> flags, wrap |-> TRUE, safety |-> safety,
     domain |-> domain, located |-> located]

Region(x, width) == [x |-> x, y |-> 0, width |-> width, height |-> 1000]

Lower == [x |-> 0, y |-> 590, width |-> 900, height |-> 410]

Located(confidence, material, excluded) ==
    [confidence |-> confidence, material |-> material, excluded |-> excluded]

FourReplies == {edge, doubtful, unsafe, lost}

AnswersGiven ==
    (edge :> Decision({}, 90, 85, Located(50, <<Region(937, 63), Region(0, 150), Lower>>, <<>>)))
    @@ (doubtful :> Decision({}, 95, 84, Located(49, <<Region(937, 63)>>, <<Region(0, 100)>>)))
    @@ (unsafe :> Decision({"violence"}, 95, 95, Located(0, <<>>, <<>>)))
    @@ (lost :> [kind |-> "error"])

Form(length, fields, file, chosen) ==
    [key |-> TRUE, type |-> "multipart/form-data", length |-> length, fields |-> fields,
     files |-> {"image"}, file |-> file, chosen |-> chosen]

FourFields == {"name", "image", "color_structure", "finish"}

TwoForms ==
    {Form(200, {"name", "image"}, wide, Unchosen)}
    \cup {Form(200, {"name", "image", "finish"}, wide, [structure |-> None, finish |-> f]) :
              f \in TwoFinishes}

(* The bot and the Mini App are other processes and share only the table of   *)
(* colors, of which each handler touches its own: one of them at a time.      *)
BotOrApp ==
    \/ /\ \A r \in Requests : upload[r].step = "unsent"
       /\ \A i \in DOMAIN colors : colors[i].by \in Messages
    \/ dialog = None /\ asked = "nothing" /\ \A m \in Messages : upload[m].step = "unsent"
===============================================================================
