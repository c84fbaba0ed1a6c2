----------------------------- MODULE MCSampleData -----------------------------
(* Files of two ranges in every pair of layouts, and files of one range      *)
(* whose moov lacks a part.  An AAC frame of 2041 bytes is the first one     *)
(* whose length, with the header, needs the upper bits of the length field.  *)
EXTENDS SampleData

Moof(samples, full, missing) ==
  [type |-> "moof", samples |-> samples, full |-> full, missing |-> missing, duration |-> 10]
Mdat(samples) == [type |-> "mdat", samples |-> samples]
Other == [type |-> "other"]

Layouts(s, other, full) ==
  {<<Other, Moof(s, full, {}), Mdat(s)>>,
   <<Moof(s, full, {"tfhd"}), Other, Mdat(s)>>,
   <<Moof(other, full, {"traf"}), Moof(s, full, {}), Mdat(s)>>,
   <<Moof(s, full, {}), Moof(other, full, {}), Mdat(s)>>}
Odd(s, other, full) ==
  {<<Moof(s, full, {}), Mdat(s), Other>>, <<Other, Mdat(s)>>,
   <<Moof(other, full, {}), Mdat(s)>>,
   <<Moof(s, full, {"senc"}), Mdat(s)>>, <<Moof(s, full, {"trun"}), Mdat(s)>>,
   <<Moof(other, full, {"table"}), Moof(s, full, {}), Mdat(s)>>}

VideoA == <<<<<<5, 1>>>>, <<<<4, 2>>, <<6, 0>>>>>>
VideoB == <<<<<<7, 0>>, <<5, 0>>, <<5, 3>>>>, <<<<5, 2>>>>>>
AudioA == <<<<<<0, 2041>>>>, <<<<0, 3>>>>>>
AudioB == <<<<<<0, 1>>>>, <<<<0, 40>>>>, <<<<0, 2>>>>>>
AudioC == <<<<<<1, 2>>, <<2, 1>>>>, <<<<1, 1>>>>>>

GoodMoov(media) ==
  [format |-> IF media = "video" THEN "avc" ELSE "enca", missing |-> {}, protectedEntry |-> TRUE,
   isProtected |-> TRUE, naluLength |-> 4, info |-> <<18, 16>>]

File(media, moov, ranges) ==
  [media |-> media, moov |-> moov, private |-> <<201, 202, 203>>, ranges |-> ranges]

RangesOf(media) ==
  IF media = "video"
  THEN Layouts(VideoA, VideoB, FALSE) \cup Layouts(VideoB, VideoA, FALSE) \cup Odd(VideoA, VideoB, FALSE)
  ELSE Layouts(AudioA, AudioB, TRUE) \cup Layouts(AudioB, AudioA, TRUE)
         \cup Layouts(AudioC, AudioC, FALSE) \cup Odd(AudioB, AudioA, TRUE)

Moovs(media) ==
  LET good == GoodMoov(media)
  IN {[good EXCEPT !.missing = {part}] :
        part \in TrackParts \cup ProtectionParts \cup {"avcc", "entry", "esds", "mdhd"}}
     \cup {[good EXCEPT !.protectedEntry = FALSE], [good EXCEPT !.isProtected = FALSE],
           [good EXCEPT !.format = "mp4a"], [good EXCEPT !.format = "other"],
           [good EXCEPT !.naluLength = 2], [good EXCEPT !.info = <<18>>]}

OneRange(media) ==
  LET s == IF media = "video" THEN VideoA ELSE AudioB
      full == media = "audio"
  IN {<<<<Moof(s, full, {}), Mdat(s)>>>>, <<<<Moof(s, full, {"senc"}), Mdat(s)>>>>}

MCFiles ==
  UNION {{File(media, GoodMoov(media), <<a, b>>) : a, b \in RangesOf(media)} : media \in {"video", "audio"}}
  \cup UNION {{File(media, moov, ranges) : moov \in Moovs(media), ranges \in OneRange(media)}
                : media \in {"video", "audio"}}
==============================================================================
