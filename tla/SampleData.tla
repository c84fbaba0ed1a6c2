----------------------------- MODULE SampleData -----------------------------
(***************************************************************************)
(* The way of the bytes of one media file: MP4Stream::Init() reads its     *)
(* moov, ParseMoofMdat() cuts the network stream into samples (mp4_stream  *)
(* .cc), the demux threads turn NAL unit lengths into start codes or put   *)
(* ADTS headers in front of AAC frames (video.cc, audio.cc), the decrypt   *)
(* threads cut input buffers for the CDM out of them (widevineDecryptor.cc,*)
(* video.cc).                                                              *)
(*                                                                         *)
(* A sample belongs to one thread at a time (VideoPipeline, AudioPipeline: *)
(* it travels through queues), so one step after the other will do; what   *)
(* a thread keeps from sample to sample is a variable here.                *)
(*                                                                         *)
(* A file is its moov, the codec private data of the manifest and its      *)
(* ranges, each a sequence of atoms.  A sample is described by its         *)
(* subsamples <<clear, cipher>>.  Bytes are numbers: those of headers are  *)
(* below 256, the payload is numbered, and negative where it is encrypted. *)
(***************************************************************************)
EXTENDS Integers, SequencesExt

CONSTANT Files   \* what the manifest may point to

VARIABLES
  file,       \* the file
  stream,     \* [protected, naluLength, config]: the fields Init() has set
  phase,      \* "init", "parse", "convert", "decrypt" or how it all ended
  reader,     \* [range, atom]: the read position of the BlockingStream
  found,      \* the locals of ParseMoofMdat()
  sample,     \* the DEMUXED_SAMPLE on its way
  decrypt,    \* [pos, offset, decrypted]: the loop over a sample's frames
  subsampleBuffer,  \* the array FillCdmInBuffer() grows and fills again and again
  globalTimestamp,
  inputs,     \* every cdm::InputBuffer handed to the CDM
  output,     \* every DECRYPTED_SAMPLE, the sequence of its bytes
  cdmFailed   \* the CDM has returned an error

vars == <<file, stream, phase, reader, found, sample, decrypt, subsampleBuffer,
          globalTimestamp, inputs, output, cdmFailed>>
decrypter == <<decrypt, subsampleBuffer, globalTimestamp, inputs, output, cdmFailed>>

Video == file.media = "video"
Ranges == file.ranges

Sum(s) == FoldLeft(LAMBDA a, b : a + b, 0, s)
Size(subsamples) == Sum([j \in DOMAIN subsamples |-> subsamples[j][1] + subsamples[j][2]])
TableSize(samples) == Sum([k \in DOMAIN samples |-> Size(samples[k])])

-----------------------------------------------------------------------------
(* What the file holds.                                                    *)

NaluLengthField == 4
LengthField(n) == <<n \div 16777216, (n \div 65536) % 256, (n \div 256) % 256, n % 256>>

\* The payload of subsample u of sample k in range r.
Payload(r, k, u, clear, cipher) ==
  [j \in 1 .. clear + cipher |->
     LET id == 10000000 * r + 1000000 * k + 100000 * u + j
     IN IF j <= clear THEN id ELSE -id]

\* A video subsample is a NAL unit with its length in front, which stays clear.
SubsampleBytes(r, k, u, s, Prefix(_)) ==
  IF Video THEN Prefix(s[1] - NaluLengthField + s[2])
                  \o Payload(r, k, u, s[1] - NaluLengthField, s[2])
           ELSE Payload(r, k, u, s[1], s[2])

SampleBytes(r, k, s, Prefix(_)) ==
  FlattenSeq([u \in DOMAIN s |-> SubsampleBytes(r, k, u, s[u], Prefix)])

MdatBytes(r, samples) ==
  FlattenSeq([k \in DOMAIN samples |-> SampleBytes(r, k, samples[k], LengthField)])

-----------------------------------------------------------------------------
(* MP4VideoStream::Init() and MP4AudioStream::Init()                       *)

NoConfig == [objectType |-> 0, frequencyIndex |-> 0, channelConfig |-> 0]

\* AudioSpecificConfig, the first two bytes of the decoder specific info
DecoderConfig(info) ==
  [objectType |-> info[1] \div 8,
   frequencyIndex |-> (info[1] % 8) * 2 + (info[2] \div 128),
   channelConfig |-> (info[2] \div 8) % 16]

TrackParts == {"moov", "track", "stsd", "sdesc"}
ProtectionParts == {"scheme", "schi", "tenc"}

VideoInitSucceeds(moov) ==
  moov.missing \cap (TrackParts
                     \cup (IF moov.format = "avc" THEN {"avcc"} ELSE {})
                     \cup (IF moov.protectedEntry THEN ProtectionParts ELSE {})) = {}

AudioInitSucceeds(moov) ==
  \/ moov.format = "mp4a" /\ moov.missing \cap (TrackParts \cup {"entry"}) = {}
  \/ /\ moov.format = "enca"
     /\ moov.missing \cap (TrackParts \cup {"entry", "esds"} \cup ProtectionParts) = {}
     /\ Len(moov.info) \in 2 .. 6

\* defaultIsProtected_ and naluLengthSize_ have no initial value: a stream that is not
\* protected, a video that is not AVC, keep what was there.
VideoFields(moov) ==
  [protected : IF moov.protectedEntry THEN {moov.isProtected} ELSE BOOLEAN,
   naluLength : IF moov.format = "avc" THEN {moov.naluLength} ELSE {0, 4},
   config : {NoConfig}]
AudioFields(moov) ==
  [protected : IF moov.format = "enca" THEN {moov.isProtected} ELSE BOOLEAN,
   naluLength : {0},
   config : {IF moov.format = "enca" THEN DecoderConfig(moov.info) ELSE NoConfig}]

NothingFound == [moof |-> FALSE, subs |-> FALSE, sizes |-> <<>>, table |-> <<>>,
                 duration |-> 0, expected |-> 0]
NoSample == [range |-> 0, data |-> <<>>, subs |-> FALSE, sizes |-> <<>>, table |-> <<>>,
             duration |-> 0]

Init == /\ file \in Files
        /\ stream = [protected |-> FALSE, naluLength |-> 0, config |-> NoConfig]
        /\ phase = "init"
        /\ reader = [range |-> 1, atom |-> 1]
        /\ found = NothingFound /\ sample = NoSample
        /\ decrypt = [pos |-> 1, offset |-> 0, decrypted |-> <<>>]
        /\ subsampleBuffer = <<>> /\ globalTimestamp = 0
        /\ inputs = <<>> /\ output = <<>> /\ cdmFailed = FALSE

InitStream ==
  /\ phase = "init"
  /\ IF (IF Video THEN VideoInitSucceeds(file.moov) ELSE AudioInitSucceeds(file.moov))
     THEN /\ stream' \in IF Video THEN VideoFields(file.moov) ELSE AudioFields(file.moov)
          /\ phase' = "parse"
     ELSE phase' = "rejected" /\ UNCHANGED stream
  /\ UNCHANGED <<file, reader, found, sample, decrypter>>

-----------------------------------------------------------------------------
(* MP4Stream::Impl::ParseMoofMdat(), one atom a step.                      *)

Atom == Ranges[reader.range][reader.atom]
LastInRange == reader.atom = Len(Ranges[reader.range])

Parses(type) == phase = "parse" /\ reader.range <= Len(Ranges) /\ Atom.type = type

Advance == reader' = IF LastInRange THEN [range |-> reader.range + 1, atom |-> 1]
                                    ELSE [reader EXCEPT !.atom = @ + 1]

\* What is left behind in the locals when a moof turns out to be unusable stays there.
\* A duration that is missing is assumed, a SENC that is missing ends the atom early.
ReadMoof(a) ==
  LET sizes == [k \in DOMAIN a.samples |-> Size(a.samples[k])]
      timed == [found EXCEPT !.duration = IF "tfhd" \in a.missing THEN 2560 ELSE a.duration]
      typed == [timed EXCEPT !.subs = ~a.full]
      sized == IF a.full THEN [typed EXCEPT !.sizes = sizes, !.expected = @ + Sum(sizes)] ELSE typed
      tabled == [sized EXCEPT !.moof = TRUE, !.table = a.samples,
                              !.expected = IF a.full THEN @ ELSE @ + Sum(sizes)]
  IN IF "traf" \in a.missing THEN found
     ELSE IF "senc" \in a.missing THEN [timed EXCEPT !.moof = TRUE]
     ELSE IF "trun" \in a.missing /\ a.full THEN typed
     ELSE IF "table" \in a.missing THEN sized
     ELSE tabled

ParseMoof ==
  /\ Parses("moof")
  /\ IF found.moof
     THEN UNCHANGED <<found, phase>>
     ELSE /\ found' = ReadMoof(Atom)
          /\ phase' = IF "traf" \notin Atom.missing /\ "senc" \in Atom.missing /\ stream.protected
                      THEN "asserted" ELSE "parse"
  /\ Advance
  /\ UNCHANGED <<file, stream, sample, decrypter>>

\* The comparison of the sizes is compiled at the default log level, Debug.
ParseMdat ==
  /\ Parses("mdat") /\ LastInRange
  /\ LET data == MdatBytes(reader.range, Atom.samples)
     IN IF found.moof /\ (stream.protected => found.expected = Len(data))
        THEN /\ sample' = [range |-> reader.range, data |-> data, subs |-> found.subs,
                           sizes |-> found.sizes, table |-> found.table,
                           duration |-> found.duration]
             /\ phase' = "convert"
        ELSE phase' = "ended" /\ UNCHANGED sample
  /\ found' = NothingFound
  /\ Advance
  /\ UNCHANGED <<file, stream, decrypter>>

\* PopFragment() waits until the fragment has been read to its end: for ever, when the
\* mdat is not the last atom of its range.
MdatWaits ==
  /\ Parses("mdat") /\ ~LastInRange
  /\ phase' = "waiting"
  /\ UNCHANGED <<file, stream, reader, found, sample, decrypter>>

OtherAtomEnds ==   \* mutant: an unknown atom ends the stream
  /\ Parses("other")
  /\ phase' = "ended"
  /\ UNCHANGED <<file, stream, reader, found, sample, decrypter>>

OtherAtom ==
  /\ Parses("other")
  /\ Advance
  /\ UNCHANGED <<file, stream, phase, found, sample, decrypter>>

\* There is no more data: the read waits for Shutdown() and then no atom is found.
StreamEnds ==
  /\ phase = "parse" /\ reader.range > Len(Ranges)
  /\ phase' = "ended"
  /\ UNCHANGED <<file, stream, reader, found, sample, decrypter>>

-----------------------------------------------------------------------------
(* DemuxVideoThread and DemuxAudioThread                                   *)

NalSize(data, p) ==
  data[p] * 16777216 + data[p + 1] * 65536 + data[p + 2] * 256 + data[p + 3]

\* Where NAL units start in the data, the place behind the last one included.
NalStarts(data) ==
  LET from[p \in 1 .. Len(data) + 1] ==
        IF p > Len(data) THEN {p}
        ELSE {p} \cup LET next == p + NaluLengthField + NalSize(data, p)
                      IN IF next \in p + 1 .. Len(data) + 1 THEN from[next] ELSE {}
  IN from[1]

\* ProcessSampleDataInPlace(): every length becomes a start code of as many bytes.
AnnexB(data) ==
  LET starts == NalStarts(data)
  IN [i \in DOMAIN data |->
        IF i - 3 \in starts THEN 1
        ELSE IF {i, i - 1, i - 2} \cap starts # {} THEN 0
        ELSE data[i]]

ConvertVideo ==
  /\ phase = "convert" /\ Video
  /\ IF stream.naluLength = 4 /\ Len(sample.data) + 1 \in NalStarts(sample.data)
     THEN /\ sample' = [sample EXCEPT !.data = AnnexB(@)]
          \* the decrypt thread uses the table of an unprotected stream as well: a nullptr
          /\ phase' = IF sample.table = <<>> THEN "undefined" ELSE "decrypt"
     ELSE phase' = "asserted" /\ UNCHANGED sample
  /\ UNCHANGED <<file, stream, reader, found, decrypter>>

AdtsHeaderSize == 7

AdtsLengthOfPayload(sampleSize) == sampleSize   \* mutant: without the header

\* "the saved size in the header must include the header"
AdtsLength(sampleSize) == sampleSize + AdtsHeaderSize

\* The fields are narrower than what is put into them: & and the uint8_t cast.
BuildAdtsHeader(sampleSize) ==
  LET c == stream.config
      length == AdtsLength(sampleSize)
      numDataBlocks == IF sampleSize >= 1024 THEN (sampleSize \div 1024) - 1 ELSE 0
  IN <<255, 241,
       (((c.objectType - 1) * 64) % 256) + c.frequencyIndex * 4 + (c.channelConfig \div 4),
       (c.channelConfig % 4) * 64 + ((length \div 2048) % 4),
       (length \div 8) % 256,
       (length % 8) * 32 + 31,
       252 + (numDataBlocks % 4)>>

WithAdtsHeaders(data, sizes) ==
  FlattenSeq([k \in DOMAIN sizes |->
    LET start == Sum(SubSeq(sizes, 1, k - 1))
    IN BuildAdtsHeader(sizes[k]) \o SubSeq(data, start + 1, start + sizes[k])])

\* Nobody takes the samples of an unprotected audio stream out of their queue.
ConvertAudio ==
  /\ phase = "convert" /\ ~Video
  /\ sample' = IF stream.protected /\ ~sample.subs
               THEN [sample EXCEPT !.data = WithAdtsHeaders(@, sample.sizes)] ELSE sample
  /\ phase' = IF stream.protected THEN "decrypt" ELSE "parse"
  /\ UNCHANGED <<file, stream, reader, found, decrypter>>

-----------------------------------------------------------------------------
(* DecryptVideoThread and WidevineDecryptorThread: one frame a step.       *)

HasSizes == sample.sizes # <<>>

FrameSizeOfPayload ==   \* mutant: without the header in front
  IF HasSizes THEN sample.sizes[decrypt.pos] ELSE Size(sample.table[decrypt.pos])

\* Size of the frame in the sample's data, in the way of the two threads.
FrameSize ==
  IF ~Video /\ HasSizes THEN AdtsHeaderSize + sample.sizes[decrypt.pos]
                        ELSE Size(sample.table[decrypt.pos])

\* The codec private data, in front of the first frame of every sample.
ExtraData == IF Video /\ decrypt.pos = 1 THEN file.private ELSE <<>>

FrameData == ExtraData \o SubSeq(sample.data, decrypt.offset + 1, decrypt.offset + FrameSize)

Entries == IF HasSizes
           THEN <<<<IF Video THEN 0 ELSE AdtsHeaderSize, sample.sizes[decrypt.pos]>>>>
           ELSE sample.table[decrypt.pos]

FillCdmInBufferOnly ==   \* mutant: the clear bytes are not updated
  Entries \o SubSeq(subsampleBuffer, Len(Entries) + 1, Len(subsampleBuffer))

\* FillCdmInBuffer() and the update for extra data behind it.  The array keeps its
\* length and what it holds behind the new entries.
FillCdmInBuffer ==
  [Entries EXCEPT ![1] = <<@[1] + Len(ExtraData), @[2]>>]
    \o SubSeq(subsampleBuffer, Len(Entries) + 1, Len(subsampleBuffer))

DecryptFrame ==
  /\ phase = "decrypt"
  /\ subsampleBuffer' = FillCdmInBuffer
  /\ inputs' = Append(inputs, [data |-> FrameData, timestamp |-> globalTimestamp,
                               subsamples |-> SubSeq(subsampleBuffer', 1, Len(Entries))])
  /\ globalTimestamp' = globalTimestamp + sample.duration
  /\ UNCHANGED <<file, stream, reader, found, sample>>

\* kNeedMoreData leaves the frame out, kSuccess copies it behind the others.
CdmTakes ==
  /\ DecryptFrame
  /\ \E status \in {"kSuccess", "kNeedMoreData"} :
       LET decrypted == decrypt.decrypted
                          \o IF ~Video /\ status = "kSuccess" THEN FrameData ELSE <<>>
       IN IF decrypt.pos < Len(sample.table)
          THEN /\ decrypt' = [pos |-> decrypt.pos + 1, offset |-> decrypt.offset + FrameSize, decrypted |-> decrypted]
               /\ UNCHANGED <<phase, output>>
          ELSE /\ decrypt' = [pos |-> 1, offset |-> 0, decrypted |-> <<>>]
               /\ output' = IF Video THEN output ELSE Append(output, decrypted)
               /\ phase' = "parse"
  /\ UNCHANGED cdmFailed

\* Any other status: the video thread returns, the audio thread asserts.
CdmFails ==
  /\ DecryptFrame
  /\ phase' = IF Video THEN "ended" ELSE "asserted"
  /\ cdmFailed' = TRUE
  /\ UNCHANGED <<decrypt, output>>

Next == \/ InitStream
        \/ ParseMoof \/ ParseMdat \/ MdatWaits \/ OtherAtom \/ StreamEnds
        \/ ConvertVideo \/ ConvertAudio
        \/ CdmTakes \/ CdmFails

Spec == Init /\ [][Next]_vars /\ WF_vars(Next)

-----------------------------------------------------------------------------
(* What the manifest may point to: tables that Bento4 has parsed, and      *)
(* ranges that the sidx cuts behind an mdat.  Nothing but the sum of the   *)
(* sizes tells ParseMoofMdat() that a moof is not that of the mdat behind  *)
(* it, and it looks only where decryption is on.                           *)

Usable(a) ==
  a.type = "moof" /\ a.missing \subseteq {"tfhd"} \cup (IF a.full THEN {} ELSE {"trun"})
HasMoof(range) == \E i \in DOMAIN range : Usable(range[i])

\* The moofs that ParseMoofMdat() takes something from.
IsRead(range, i) ==
  /\ range[i].type = "moof" /\ "traf" \notin range[i].missing
  /\ \A j \in 1 .. i - 1 : ~Usable(range[j])

Tables == Seq(Seq(Nat \X Nat))
Atoms == [type : {"other"}] \cup [type : {"mdat"}, samples : Tables]
           \cup [type : {"moof"}, samples : Tables, full : BOOLEAN, duration : Nat,
                 missing : SUBSET {"traf", "tfhd", "senc", "trun", "table"}]

\* A NAL unit has a length in front; a sample that is encrypted as a whole is an AAC frame,
\* and an ADTS header can tell the length of every AAC frame.
IsTable(media, samples) ==
  /\ samples # <<>>
  /\ \A k \in DOMAIN samples :
       /\ samples[k] # <<>>
       /\ media = "video" => \A u \in DOMAIN samples[k] : samples[k][u][1] >= NaluLengthField
IsWhole(s) == Len(s) = 1 /\ s[1][1] = 0 /\ s[1][2] \in 1 .. 8191 - AdtsHeaderSize

SizesAreChecked(f) ==
  f.moov.isProtected /\ IF f.media = "video" THEN f.moov.protectedEntry ELSE f.moov.format = "enca"

IsFile(f) ==
  /\ f.media \in {"video", "audio"}
  /\ f.moov \in [format : STRING, missing : SUBSET STRING, protectedEntry : BOOLEAN,
                 isProtected : BOOLEAN, naluLength : Nat, info : Seq(Nat)]
  /\ f.private \in Seq(Nat)
  /\ f.ranges \in Seq(Seq(Atoms))
  /\ \A r \in DOMAIN f.ranges :
       /\ \E i \in DOMAIN f.ranges[r] : f.ranges[r][i].type = "mdat"
       /\ \A i \in DOMAIN f.ranges[r] :
            LET a == f.ranges[r][i]
            IN /\ a.type # "other" => IsTable(f.media, a.samples)
               /\ a.type = "moof" /\ a.full =>
                    f.media = "audio" /\ \A k \in DOMAIN a.samples : IsWhole(a.samples[k])
               /\ a.type = "mdat" => \A j \in 1 .. i - 1 : IsRead(f.ranges[r], j) =>
                    \/ f.ranges[r][j].samples = a.samples
                    \/ SizesAreChecked(f) /\ TableSize(f.ranges[r][j].samples) > TableSize(a.samples)

ASSUME FilesAssumption == \A f \in Files : IsFile(f)

-----------------------------------------------------------------------------
(* What the CDM should see of the file: its frames, with start codes for   *)
(* lengths; the first "skip" bytes of an input buffer are a header.  The   *)
(* properties look at what came last, in every state.                      *)

MoofOf(range) == range[CHOOSE i \in DOMAIN range :
                         Usable(range[i]) /\ \A j \in 1 .. i - 1 : ~Usable(range[j])]
DurationOf(range) == LET m == MoofOf(range) IN IF "tfhd" \in m.missing THEN 2560 ELSE m.duration

StartCode(n) == <<0, 0, 0, 1>>
Frames(r) ==
  LET moof == MoofOf(Ranges[r])
  IN [k \in DOMAIN moof.samples |->
        [data |-> (IF Video /\ k = 1 THEN file.private ELSE <<>>)
                    \o SampleBytes(r, k, moof.samples[k], StartCode),
         skip |-> IF ~Video /\ moof.full THEN 7 ELSE 0,
         duration |-> DurationOf(Ranges[r])]]

\* The ranges of which something has been handed to the CDM: those before the reader.
Expected == FlattenSeq([r \in 1 .. sample.range |-> IF HasMoof(Ranges[r]) THEN Frames(r) ELSE <<>>])

Drop(s, n) == SubSeq(s, n + 1, Len(s))

(* The input buffers are the frames of the file, in order, none missing or *)
(* cut at the wrong place, each at the time that the durations of the      *)
(* frames before it add up to: whatever atoms lie between, however the     *)
(* bytes grew on their way, and although a frame's place in its sample is  *)
(* only what the sizes of the frames before it sum up to.                  *)
InputIsTheFile ==
  inputs # <<>> =>
    LET n == Len(inputs)
        expected == Expected
    IN /\ n <= Len(expected)
       /\ Drop(inputs[n].data, expected[n].skip) = expected[n].data
       /\ inputs[n].timestamp = Sum([j \in 1 .. n - 1 |-> expected[j].duration])

(* The subsamples of an input buffer tell where it is encrypted: they add  *)
(* up to its size and their cipher bytes are those that are encrypted in   *)
(* the file, with the private data and the headers counted as clear, and   *)
(* although the array they are kept in was longer for an earlier frame.    *)
CipherAt(subsamples, i) ==
  \E j \in DOMAIN subsamples :
    LET before == Size(SubSeq(subsamples, 1, j - 1))
    IN before + subsamples[j][1] < i /\ i <= before + Size(<<subsamples[j]>>)

SubsamplesMatchTheData ==
  inputs # <<>> =>
    LET data == Last(inputs).data
        subsamples == Last(inputs).subsamples
    IN /\ Size(subsamples) = Len(data)
       /\ \A i \in DOMAIN data : data[i] < 0 <=> CipherAt(subsamples, i)

(* A decoder that finds its way through a decrypted audio sample by the    *)
(* lengths in the ADTS headers comes out at its end: the 13 bits of three  *)
(* bytes hold them for every AAC frame, and a frame the CDM has left out   *)
(* leaves no half of itself behind.                                        *)
FrameLength(data, p) == (data[p + 3] % 4) * 2048 + data[p + 4] * 8 + (data[p + 5] \div 32)
IsHeader(data, p) == p + 6 <= Len(data) /\ data[p] = 255 /\ data[p + 1] = 241

AdtsFramesAreWhole ==
  phase = "parse" /\ output # <<>> /\ ~sample.subs =>
    LET data == Last(output)
        walk[p \in 1 .. Len(data) + 1] ==
          \/ p = Len(data) + 1
          \/ /\ IsHeader(data, p)
             /\ LET next == p + FrameLength(data, p)
                IN next \in p + 1 .. Len(data) + 1 /\ walk[next]
    IN walk[1]

(* Everything a well-formed file holds reaches the CDM.                    *)
WellFormed(range) ==
  /\ \E i \in DOMAIN range : Usable(range[i])
  /\ \A i \in DOMAIN range :
       range[i].type = "mdat" <=> i = Len(range)
  /\ range[Len(range)].samples = MoofOf(range).samples
  /\ \A i \in DOMAIN range :
       range[i].type = "moof" /\ ~Usable(range[i]) => "traf" \in range[i].missing

GoodFile ==
  /\ file.moov.missing \subseteq {"mdhd", "mvhd"} /\ file.moov.protectedEntry /\ file.moov.isProtected
  /\ file.moov.format \in {"avc", "enca"}
  /\ Video => file.moov.naluLength = 4
  /\ ~Video => Len(file.moov.info) \in 2 .. 6
  /\ \A r \in DOMAIN Ranges : WellFormed(Ranges[r])

FragmentsReachTheCdm ==
  phase = "init" /\ GoodFile ~>
    cdmFailed \/ (GoodFile /\ Len(inputs) = Sum([r \in DOMAIN Ranges |-> Len(Frames(r))]))
==============================================================================
