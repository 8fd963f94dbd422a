---------------------------- MODULE EncoderLevels ----------------------------
(***************************************************************************)
(* The level an encoder needs (c2_utils/src/mfx_c2_enc_minlevel.cpp) and   *)
(* the levels of the two sides (the tables of mfx_c2_utils.cpp).           *)
(*                                                                         *)
(* A level is its tier and a hundred times its number; 105 is AVC's 1b.    *)
(* Pictures and pixel rates are counted in units of 1024 pixels, AVC's in  *)
(* macroblocks, bitrates in kbit/s; the limits that are no whole number of *)
(* units are rounded down, which no whole number of units can tell.        *)
(***************************************************************************)
EXTENDS Naturals, Sequences

Level(tier, number) == [tier |-> tier, number |-> number]
Main(number) == Level("main", number)
High(number) == Level("high", number)
Unknown == Main(0)

\* C2Config::level_t: all the levels of the high tier come after those of the main tier.
Below(l, m) == \/ l.tier = "main" /\ m.tier = "high"
               \/ l.tier = m.tier /\ l.number < m.number

-----------------------------------------------------------------------------
(* The limits, in the order they are tried *)

Any == 1000000000
Limit(level, rate, size, width, height, kbps) ==
    [level |-> level, rate |-> rate, size |-> size, width |-> width, height |-> height, kbps |-> kbps]

AvcLimits ==
    LET rows == << <<100, 1485, 99, 64>>, <<105, 1485, 99, 128>>, <<110, 3000, 396, 192>>,
                   <<120, 6000, 396, 384>>, <<130, 11880, 396, 768>>, <<200, 11880, 396, 2000>>,
                   <<210, 19800, 792, 4000>>, <<220, 20250, 1620, 4000>>, <<300, 40500, 1620, 10000>>,
                   <<310, 108000, 3600, 14000>>, <<320, 216000, 5120, 20000>>,
                   <<400, 245760, 8192, 20000>>, <<410, 245760, 8192, 50000>>,
                   <<420, 522240, 8704, 50000>>, <<500, 589824, 22080, 135000>>,
                   <<510, 983040, 36864, 240000>>, <<520, 2073600, 36864, 240000>> >>
    IN [k \in DOMAIN rows |-> Limit(Main(rows[k][1]), rows[k][2], rows[k][3], Any, Any, rows[k][4])]

HevcLimits ==
    LET rows == << <<"main", 100, 540, 36, 128>>, <<"main", 200, 3600, 120, 1500>>,
                   <<"main", 210, 7200, 240, 3000>>, <<"main", 300, 16200, 540, 6000>>,
                   <<"main", 310, 32400, 960, 10000>>, <<"main", 400, 65280, 2176, 12000>>,
                   <<"high", 400, 65280, 2176, 30000>>, <<"main", 410, 130560, 2176, 20000>>,
                   <<"high", 410, 130560, 2176, 50000>>, <<"main", 500, 261120, 8704, 25000>>,
                   <<"high", 500, 261120, 8704, 100000>>, <<"main", 510, 522240, 8704, 40000>>,
                   <<"high", 510, 522240, 8704, 160000>>, <<"main", 520, 1044480, 8704, 60000>>,
                   <<"high", 520, 1044480, 8704, 240000>>, <<"main", 600, 1044480, 34816, 60000>>,
                   <<"high", 600, 1044480, 34816, 240000>>, <<"main", 610, 2088960, 34816, 120000>>,
                   <<"high", 610, 2088960, 34816, 480000>>, <<"main", 620, 4177920, 34816, 240000>>,
                   <<"high", 620, 4177920, 34816, 800000>> >>
    IN [k \in DOMAIN rows |->
          Limit(Level(rows[k][1], rows[k][2]), rows[k][3], rows[k][4], Any, Any, rows[k][5])]

Vp9Limits ==
    LET rows == << <<100, 810, 36, 512, 200>>, <<110, 2700, 72, 768, 800>>,
                   <<200, 4500, 120, 960, 1800>>, <<210, 9000, 240, 1344, 3600>>,
                   <<300, 20250, 540, 2048, 7200>>, <<310, 36000, 960, 2752, 12000>>,
                   <<400, 81600, 2176, 4160, 18000>>, <<410, 156672, 2176, 4160, 30000>>,
                   <<500, 304640, 8704, 8384, 60000>>, <<510, 574464, 8704, 8384, 120000>> >>
    IN [k \in DOMAIN rows |->
          Limit(Main(rows[k][1]), rows[k][2], rows[k][3], rows[k][4], rows[k][4], rows[k][5])]

Av1Limits ==
    LET rows == << <<200, 144, 2048, 1152, 4320, 1500>>, <<210, 272, 2816, 1584, 8167, 3000>>,
                   <<300, 650, 4352, 2448, 19507, 6000>>, <<310, 1040, 5504, 3096, 31201, 10000>>,
                   <<400, 2304, 6144, 3456, 69120, 30000>>, <<410, 2304, 6144, 3456, 138240, 50000>>,
                   <<500, 8704, 8192, 4352, 261120, 100000>>, <<510, 8704, 8192, 4352, 522240, 160000>>,
                   <<520, 8704, 8192, 4352, 1044480, 240000>>, <<530, 8704, 8192, 4352, 1044480, 240000>>,
                   <<600, 34816, 16384, 8704, 1044480, 240000>>,
                   <<610, 34816, 16384, 8704, 2088960, 480000>>,
                   <<620, 34816, 16384, 8704, 4177920, 800000>>,
                   <<630, 34816, 16384, 8704, 4177920, 800000>> >>
    IN [k \in DOMAIN rows |->
          Limit(Main(rows[k][1]), rows[k][5], rows[k][2], rows[k][3], rows[k][4], rows[k][6])]

Limits(type) == CASE type = "H264" -> AvcLimits [] type = "H265" -> HevcLimits
                  [] type = "VP9" -> Vp9Limits [] type = "AV1" -> Av1Limits
Highest == [H264 |-> Main(520), H265 |-> High(620), VP9 |-> Main(510), AV1 |-> Main(630)]

-----------------------------------------------------------------------------
DivUp(num, den) == (num + den - 1) \div den

\* What is asked of the level.  VP9's rate is an int: 2^31 pixels are 2097152 units.
Demand(type, size, rate, kbps) ==
    LET units == CASE type = "H264" -> DivUp(size[1], 16) * DivUp(size[2], 16)
                   [] type = "H265" -> (DivUp(size[1], 8) * DivUp(size[2], 8)) \div 16
                   [] OTHER -> (size[1] * size[2]) \div 1024
        longer == IF size[1] > size[2] THEN size[1] ELSE size[2]
        negative == type = "VP9" /\ (units * rate) % 4194304 >= 2097152
    IN [size |-> units, kbps |-> kbps,
        rate |-> CASE negative -> 0
                   [] type = "VP9" /\ ~negative -> (units * rate) % 4194304
                   [] OTHER -> units * rate,
        width |-> IF type = "VP9" THEN longer ELSE size[1],
        height |-> IF type = "VP9" THEN longer ELSE size[2]]

Fits(d, limit) == /\ d.size <= limit.size /\ d.rate <= limit.rate /\ d.kbps <= limit.kbps
                  /\ d.width <= limit.width /\ d.height <= limit.height

\* GetMinLevelAVC, ...HEVC, ...VP9, ...AV1: the first level that fits, else the highest.
GetMinLevel(type, d) ==
    LET limits == Limits(type)
        fitting == { k \in DOMAIN limits : Fits(d, limits[k]) }
    IN IF fitting = {} THEN Highest[type]
       ELSE limits[CHOOSE k \in fitting : \A j \in fitting : k <= j].level

-----------------------------------------------------------------------------
(* The levels the client may choose from; each has its counterpart on the other side, and what
   has none leaves the old value: AvcLevelAndroidToMfx and its kin. *)

Levels(type) ==
    IF type = "AV1" THEN { Main(100 * n + 10 * i) : n \in 2 .. 7, i \in 0 .. 3 }
    ELSE LET limits == Limits(type) IN { limits[k].level : k \in DOMAIN limits }

LevelAndroidToMfx(type, level, old) ==
    IF type # "VP9" /\ level \in Levels(type) THEN level ELSE old
LevelMfxToAndroid(type, level, old) ==
    IF type # "VP9" /\ level \in Levels(type) THEN level ELSE old
=============================================================================
