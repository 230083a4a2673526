---------------------------- MODULE ColorConvert ----------------------------
(***************************************************************************)
(* ColorConvertCalculator (calculators/image/color_convert_calculator.cc): *)
(* GetContract, the dispatch of Process over the four supported            *)
(* conversions, ConvertAndOutput and SetColorChannel.  A frame is kept the *)
(* way cv::Mat holds it: height rows, each a flat sequence of width *      *)
(* channels bytes, channels interleaved.  cv::cvtColor (OpenCV, outside    *)
(* this repository) is modelled per pixel by what it computes for 8-bit    *)
(* data.  The reference the output is checked against works on pixels,    *)
(* not on the flat rows, and takes the output format from the stream      *)
(* tags the calculator's header comment documents.                        *)
(***************************************************************************)
EXTENDS Naturals, Sequences, FiniteSets, TLC

CONSTANTS
  InTags,     \* input stream tags a node configuration may name
  OutTags,    \* output stream tags a node configuration may name
  Values,     \* byte values a channel of an input frame may hold
  Shapes,     \* <<width, height>> of the input frames
  MaxInputs   \* number of input frames the node is given

ASSUME Values \subseteq 0..255 /\ MaxInputs \in Nat

Channels == [SRGB |-> 3, SRGBA |-> 4, GRAY8 |-> 1]
Formats == DOMAIN Channels

\* The format of the frames each tag carries, from the header comment.
TagFormat == [RGBA_IN |-> "SRGBA", RGB_IN |-> "SRGB", GRAY_IN |-> "GRAY8",
              RGBA_OUT |-> "SRGBA", RGB_OUT |-> "SRGB", GRAY_OUT |-> "GRAY8"]

\* Every frame of format f and a shape of Shapes, with bytes from vals.
FramesOf(f, vals) ==
  UNION {[format : {f}, width : {s[1]}, height : {s[2]},
          data : [1..s[2] -> [1..s[1] * Channels[f] -> vals]]] : s \in Shapes}

\* f is a frame of a format of Formats and a shape of Shapes.
IsFrame(f) ==
  /\ f.format \in Formats
  /\ <<f.width, f.height>> \in Shapes
  /\ f.data \in [1..f.height -> [1..f.width * Channels[f.format] -> 0..255]]

NoFrame == [format |-> "none"]

NodeConfigs == [in : SUBSET InTags, out : SUBSET OutTags]

VARIABLES
  cfg,      \* the node's configuration
  node,     \* "Unresolved", "Rejected", "Ready", "ProcessFailed", "Aborted"
  ts,       \* number of input frames consumed
  lastIn,   \* the last input frame
  lastOut   \* the frame ConvertAndOutput added for it, or NoFrame

vars == <<cfg, node, ts, lastIn, lastOut>>

\* The one tag of a set of one tag.
TheTag(S) == CHOOSE t \in S : TRUE

(***************************************************************************)
(* GetContract: RET_CHECK_EQ one input and one output stream, and a packet *)
(* type for each of the six known tags; the graph's validation rejects a   *)
(* stream left untyped (spec.md 4.7).                                      *)
(***************************************************************************)
ContractOK(c) ==
  /\ Cardinality(c.in) = 1
  /\ Cardinality(c.out) = 1
  /\ c.in \cup c.out \subseteq DOMAIN TagFormat

GetContract ==
  /\ node = "Unresolved"
  /\ node' = IF ContractOK(cfg) THEN "Ready" ELSE "Rejected"
  /\ UNCHANGED <<cfg, ts, lastIn, lastOut>>

(***************************************************************************)
(* cv::cvtColor on one pixel of 8-bit data.  RGB2GRAY is OpenCV's          *)
(* fixed-point luma: weights 4899, 9617, 1868 over 2^14, rounded.  What    *)
(* RGB2RGBA writes into alpha is outside this repository: the comment in   *)
(* ConvertAndOutput says 0, OpenCV documents the maximum value; the model  *)
(* takes either, so that SetColorChannel's write is what fixes it.         *)
(***************************************************************************)
CvtAlphas == {0, 255}

Luma(p) == (p[1] * 4899 + p[2] * 9617 + p[3] * 1868 + 8192) \div 16384

CvtPixel(code, p, alpha) ==
  CASE code = "RGBA2RGB" -> <<p[1], p[2], p[3]>>
    [] code = "GRAY2RGB" -> <<p[1], p[1], p[1]>>
    [] code = "RGB2GRAY" -> <<Luma(p)>>
    [] code = "RGB2RGBA" -> <<p[1], p[2], p[3], alpha>>

\* The j-th pixel of a flat row of ch channels.
Pixel(row, j, ch) == SubSeq(row, (j - 1) * ch + 1, j * ch)

CvtColor(code, alpha, in, out) ==
  LET ic == Channels[in.format]
      oc == Channels[out.format]
  IN [out EXCEPT !.data =
        [r \in 1..in.height |->
           [i \in 1..out.width * oc |->
              CvtPixel(code, Pixel(in.data[r], (i - 1) \div oc + 1, ic), alpha)
                [((i - 1) % oc) + 1]]]]

(***************************************************************************)
(* SetColorChannel: for every row, for offset from channel while offset <  *)
(* cols * step, offset += step: row_ptr[offset] = value (offsets from 0).  *)
(* The CHECKs on depth and channel abort the process; the caller checks    *)
(* channel < channels before.  A write at an offset past the row would     *)
(* extend it, so that the frame is no longer a frame of its shape.        *)
(***************************************************************************)
RECURSIVE SetFrom(_, _, _, _, _)
SetFrom(row, offset, limit, step, value) ==
  IF offset >= limit THEN row
  ELSE SetFrom((offset + 1 :> value) @@ row,
               offset + step, limit, step, value)

SetColorChannelOffByOne(channel, value, frame) ==
  LET step == Channels[frame.format]
  IN [frame EXCEPT !.data =
        [r \in DOMAIN frame.data |->
           SetFrom(frame.data[r], channel - 1, frame.width * step, step,
                   value)]]

SetColorChannel(channel, value, frame) ==
  LET step == Channels[frame.format]
  IN [frame EXCEPT !.data =
        [r \in DOMAIN frame.data |->
           SetFrom(frame.data[r], channel, frame.width * step, step, value)]]

(***************************************************************************)
(* ConvertAndOutput: an ImageFrame of output_format with the input's cols  *)
(* as width and rows as height (its bytes are all written by cvtColor, so  *)
(* their initial value is never read), cvtColor into it, and after         *)
(* RGB2RGBA SetColorChannel(3, 255).  The frame is added to the output at  *)
(* the input timestamp.                                                    *)
(***************************************************************************)
NewFrame(format, width, height) ==
  [format |-> format, width |-> width, height |-> height,
   data |-> [r \in 1..height |-> [i \in 1..width * Channels[format] |-> 0]]]

ConvertAndOutput(conv, alpha, in) ==
  LET out == CvtColor(conv.code, alpha, in, NewFrame(conv.format, in.width, in.height))
  IN IF conv.code = "RGB2RGBA" THEN SetColorChannel(3, 255, out) ELSE out

\* SetColorChannel's CHECK(channel < mat->channels()) on the output frame.
ChannelCheckFails(conv) ==
  conv.code = "RGB2RGBA" /\ ~(3 < Channels[conv.format])

(***************************************************************************)
(* Process: the four (input tag, output tag) pairs it tests, in its order, *)
(* with the output format and conversion code each passes; no pair gives   *)
(* InvalidArgument "Unsupported image format conversion".                  *)
(***************************************************************************)
Conversions ==
  << [in |-> "RGBA_IN", out |-> "RGB_OUT",  format |-> "SRGB",  code |-> "RGBA2RGB"],
     [in |-> "GRAY_IN", out |-> "RGB_OUT",  format |-> "SRGB",  code |-> "GRAY2RGB"],
     [in |-> "RGB_IN",  out |-> "GRAY_OUT", format |-> "GRAY8", code |-> "RGB2GRAY"],
     [in |-> "RGB_IN",  out |-> "RGBA_OUT", format |-> "SRGBA", code |-> "RGB2RGBA"] >>

Matching(c) ==
  {i \in 1..Len(Conversions) :
     Conversions[i].in \in c.in /\ Conversions[i].out \in c.out}

FirstMatch(c) == CHOOSE i \in Matching(c) : \A j \in Matching(c) : i <= j

Process ==
  /\ node = "Ready"
  /\ ts < MaxInputs
  /\ ts' = ts + 1
  /\ \E in \in FramesOf(TagFormat[TheTag(cfg.in)], Values), alpha \in CvtAlphas :
       IF Matching(cfg) = {}
         THEN /\ node' = "ProcessFailed"
              /\ UNCHANGED <<lastIn, lastOut>>
         ELSE LET conv == Conversions[FirstMatch(cfg)]
              IN /\ lastIn' = in
                 /\ IF ChannelCheckFails(conv)
                      THEN /\ node' = "Aborted"
                           /\ lastOut' = NoFrame
                      ELSE /\ lastOut' = ConvertAndOutput(conv, alpha, in)
                           /\ UNCHANGED node
  /\ UNCHANGED cfg

Init ==
  /\ cfg \in NodeConfigs
  /\ node = "Unresolved"
  /\ ts = 0
  /\ lastIn = NoFrame
  /\ lastOut = NoFrame

Next == GetContract \/ Process

Spec == Init /\ [][Next]_vars

-----------------------------------------------------------------------------

(***************************************************************************)
(* The conversion the header comment documents, pixel by pixel: RGBA to    *)
(* RGB drops alpha, GRAY to RGB repeats the gray value, RGB to GRAY is the *)
(* luma, RGB to RGBA adds an opaque alpha.                                 *)
(***************************************************************************)
RefPixel(from, to, p) ==
  CASE from = "SRGBA" /\ to = "SRGB"  -> SubSeq(p, 1, 3)
    [] from = "GRAY8" /\ to = "SRGB"  -> <<p[1], p[1], p[1]>>
    [] from = "SRGB"  /\ to = "GRAY8" -> <<Luma(p)>>
    [] from = "SRGB"  /\ to = "SRGBA" -> p \o <<255>>

PixelsOf(f) ==
  [rc \in (1..f.height) \X (1..f.width) |->
     Pixel(f.data[rc[1]], rc[2], Channels[f.format])]

(* Every frame ConvertAndOutput adds has the format of the node's output   *)
(* tag, the input's width and height, and at every pixel the documented    *)
(* conversion of the input pixel: the dispatch, the ImageFrame shape, the  *)
(* interleaved cvtColor and SetColorChannel's stride loop together.        *)
OutputMatchesReference ==
  lastOut # NoFrame =>
    LET to == TagFormat[TheTag(cfg.out)]
    IN /\ IsFrame(lastOut)
       /\ lastOut.format = to
       /\ lastOut.width = lastIn.width
       /\ lastOut.height = lastIn.height
       /\ PixelsOf(lastOut) =
            [rc \in DOMAIN PixelsOf(lastIn) |->
               RefPixel(lastIn.format, to, PixelsOf(lastIn)[rc])]

====
