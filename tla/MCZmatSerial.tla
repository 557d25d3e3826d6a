---------------------------- MODULE MCZmatSerial ----------------------------
(***************************************************************************)
(* ZmatSerial for TLC: the codecs of MCZmatRun; gzip members with every      *)
(* optional field, alone and together, cut at every length, damaged in every *)
(* part, doubled or with a tail; xz streams of none, one and two blocks, cut *)
(* at every part, doubled and padded, one of them above the cap; base64      *)
(* texts with every end and every mode, cut and damaged at every character,  *)
(* and a document so long that the size of its text wraps.                   *)
(***************************************************************************)
EXTENDS ZmatSerial, Streams

MCCodecs ==
  {"zlib", "gzip", "base64", "lzma", "lzip", "xz", "lz4", "zstd", "blosc2", "none"}

Fields == {"FEXTRA", "FNAME", "FCOMMENT", "FHCRC"}

MCGzipInputs ==
  {GzipInput(flags, 8, 2, 5, FALSE, 0, 100, "none") : flags \in SUBSET Fields}
    \cup {GzipInput(flags, 8, 2, 5, FALSE, 0, cut, "none") : flags \in {{}, Fields}, cut \in 1 .. 49}
    \cup {GzipInput({"FHCRC"}, 8, 2, 5, FALSE, 0, 100, damage) : damage \in Damages}
    \cup {GzipInput({}, 8, 2, size, FALSE, 0, 100, "none") : size \in {0, 19, 20, 22}}
    \cup {GzipInput({}, 8, 2, 5, TRUE, tail, cut, "none") : tail \in {0, 1, 8}, cut \in {30, 36, 100}}

\* Streams of blocks; the outputs pass the 4-byte buffer by a little and by a lot.
MCXzStreams ==
  {<<>>, << <<1>> >>, << <<4>> >>, << <<3, 4>> >>, << <<4>>, <<0, 5>> >>, << <<8, 2>> >>}

XzSize(blocks) == Given(XzStream(blocks))[Len(XzStream(blocks))]

XzWhole(blocks, pad, again) ==
  [parts |-> XzStream(blocks) \o Padding(pad) \o (IF again THEN XzStream(blocks) ELSE <<>>),
   size |-> (IF again THEN 2 ELSE 1) * XzSize(blocks),
   fate |-> IF pad % 4 = 0 THEN "sound" ELSE "damaged"]

XzCut(blocks, n) ==
  [parts |-> SubSeq(XzStream(blocks), 1, n), size |-> XzSize(blocks), fate |-> "cut"]

XzDamaged(blocks, n) ==
  [parts |-> [XzStream(blocks) EXCEPT ![n] = Part("bad")], size |-> XzSize(blocks),
   fate |-> "damaged"]

MCXzInputs ==
  {XzWhole(blocks, pad, again) : blocks \in MCXzStreams, pad \in {0, 2, 4}, again \in BOOLEAN}
    \cup UNION {{XzCut(b, n) : n \in 1 .. Len(XzStream(b)) - 1} : b \in MCXzStreams}
    \cup UNION {{XzDamaged(b, n) : n \in 1 .. Len(XzStream(b))} : b \in MCXzStreams}

MCModes == {-1, 1, 2, 3}
MCDocuments ==
  {[i \in 1 .. n |-> (i * 77) % 256] : n \in (1 .. 14) \cup {17}} \cup {<<0>>, <<255, 255>>, <<255, 0, 255, 129>>}

Base64Whole(d, m) == [doc |-> d, text |-> B64!Encode(d, m), size |-> Len(d), fate |-> "sound"]
Base64Changed(i, at, c) ==
  [i EXCEPT !.text[at] = c, !.size = i.size + 2, !.fate = "damaged"]
Base64Cut(i, n) == [i EXCEPT !.text = SubSeq(i.text, 1, n), !.fate = "cut"]
Base64Spaced(i, at) ==
  [i EXCEPT !.text = SubSeq(i.text, 1, at) \o <<B64!Other>> \o SubSeq(i.text, at + 1, Len(i.text))]

MCBase64Inputs ==
  LET whole == {Base64Whole(d, m) : d \in {e \in MCDocuments : Len(e) \in 3 .. 8}, m \in {1, 3}}
  IN  whole \cup UNION {{Base64Changed(i, n, c) : n \in 1 .. Len(i.text), c \in {0, B64!Equals, B64!Other}}
                          \cup {Base64Cut(i, n) : n \in 1 .. Len(i.text) - 1}
                          \cup {Base64Spaced(i, n) : n \in 0 .. Len(i.text)} : i \in whole}
=============================================================================
