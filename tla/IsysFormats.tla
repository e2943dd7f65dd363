---------------------------- MODULE IsysFormats -----------------------------
(***************************************************************************)
(* The active formats on the way of a stream: the pads of its CSI-2        *)
(* receiver, of the back end behind it and the format of its video node,   *)
(* what is compared when it starts, and what the firmware is told          *)
(* (ipu6-isys/ipu-isys-subdev.c, ipu-isys-csi2.c, ipu-isys-csi2-be.c,      *)
(* ipu-isys-csi2-be-soc.c, ipu-isys-video.c).                              *)
(*                                                                         *)
(* A media bus code is << 0, 0 >> .. << 1, 1 >> for the four Bayer orders, *)
(* whose first changes with an odd line at the top and second with an odd  *)
(* column at the left, or Yuv for one without an order.                    *)
(* Every call on a pad runs under the mutex of its sub-device.             *)
(***************************************************************************)
EXTENDS Csi2

CONSTANTS
  PadFormats,   \* what users set on pads and nodes: [w, h, code]
  Crops         \* and as crop: [left, top, w, h]

Bayer == {0, 1} \X {0, 1}
Yuv == << 2, 2 >>
Code == Bayer \union {Yuv}
MaxSize == 3    \* IPU_ISYS_MAX_WIDTH and _HEIGHT, in the units of the model
Size == 1 .. MaxSize

PadFormat == [w : Size, h : Size, code : Code]
Rect == [left : 0 .. 1, top : 0 .. 1, w : Size, h : Size]

ASSUME FormatsAssumption == PadFormats \subseteq PadFormat /\ Crops \subseteq Rect

VARIABLES
  pads,      \* [sensor -> [rxIn, rxOut, in, out: formats, crop]]: the pads of the
             \*   receiver, of the back end, and the crop of its source
  node,      \* av->mpix and av->pfmt
  told,      \* the format the firmware was told to write, or NotTold
  touched    \* what was set late: "pads" since they were compared, or the "node"
             \*   after the firmware was told and before STREAMON returned

formats == << pads, node, told, touched >>

NotTold == [w |-> 0, h |-> 0, code |-> Yuv]

Full(f) == [left |-> 0, top |-> 0, w |-> f.w, h |-> f.h]

End(s) == board[s].end

\* Driver defaults: every pad 4096x3072 and the first code it supports, Y8 or Y10
\* but for the raw back end; the node as small as can be.
Default(code) == [w |-> 2, h |-> 2, code |-> code]
Smallest == [w |-> 1, h |-> 1, code |-> << 0, 0 >>]

FormatsInit ==
  /\ pads = [s \in Sensor |->
              LET rec == Default(Yuv)
                  be == Default(IF s \in DOMAIN board /\ End(s) = "be" THEN << 0, 0 >> ELSE Yuv) IN
              [rxIn |-> rec, rxOut |-> rec, in |-> be, out |-> be, crop |-> Full(be)]]
  /\ node = [s \in Sensor |-> Smallest]
  /\ told = [s \in Sensor |-> NotTold]
  /\ touched = [s \in Sensor |-> {}]

(***************************************************************************)
(* The pads.  A new format of a sink makes the crops full and propagates   *)
(* to the sources; one of a source keeps of the request what is its own.   *)
(***************************************************************************)

\* A code that a pad does not support becomes the first one it does; the raw
\* back end supports Bayer codes alone.
Supported(s, f) ==
  IF End(s) = "be" /\ f.code \notin Bayer THEN [f EXCEPT !.code = << 0, 0 >>] ELSE f

\* The order of the code at an odd corner of the picture.
Shifted(c, r) == << (c[1] + r.top) % 2, (c[2] + r.left) % 2 >>

\* Source of a back end: as large as its crop.  csi2_be_set_ffmt() takes the
\* order from sink and crop; csi2_be_soc_set_ffmt() computes it and then takes
\* the code asked for.
Source(s, p, code) ==
  [w |-> p.crop.w, h |-> p.crop.h,
   code |-> IF End(s) = "be" THEN Shifted(p.in.code, p.crop) ELSE code]

SetPads(s, p) ==
  /\ pads' = [pads EXCEPT ![s] = p]
  /\ touched' = [touched EXCEPT ![s] = @ \union {"pads"}]
  /\ UNCHANGED << node, told >>

\* csi2_set_ffmt(): the source is not held to the sink.
SetReceiverIn(s, f) == SetPads(s, [pads[s] EXCEPT !.rxIn = f, !.rxOut = f])
SetReceiverOut(s, f) == SetPads(s, [pads[s] EXCEPT !.rxOut = f])

\* Mutant: a new format at the sink leaves the crop of the source.
KeepCrop(s, f) ==
  LET g == Supported(s, f)
      p == [pads[s] EXCEPT !.in = g] IN
  SetPads(s, [p EXCEPT !.out = Source(s, p, g.code)])

SetBackEndIn(s, f) ==
  LET g == Supported(s, f)
      p == [pads[s] EXCEPT !.in = g, !.crop = Full(g)] IN
  SetPads(s, [p EXCEPT !.out = Source(s, p, g.code)])

SetBackEndOut(s, f) ==
  SetPads(s, [pads[s] EXCEPT !.out = Source(s, pads[s], Supported(s, f).code)])

\* ipu_isys_csi2_be_set_sel(): as wide as wanted, as high as the sink;
\* ipu_isys_csi2_be_soc_set_sel(): any size, but no odd corner without an order.
Cropped(s, r) ==
  IF End(s) = "be" THEN [r EXCEPT !.h = IF @ > pads[s].in.h THEN pads[s].in.h ELSE @]
  ELSE IF pads[s].out.code \in Bayer THEN r
  ELSE [r EXCEPT !.left = 0, !.top = 0]

SetCrop(s, r) ==
  LET p == [pads[s] EXCEPT !.crop = Cropped(s, r)] IN
  SetPads(s, [p EXCEPT !.out = Source(s, p, @.code)])

\* ipu_isys_video_try_fmt_vid_mplane(), strides and compression aside: a pixel
\* format that the node does not have becomes its first, which has the same order
\* for both back ends.
NodeFormat(s, f) == Supported(s, f)

\* S_FMT of the node.
SetNode(s, f, late) ==
  /\ node' = [node EXCEPT ![s] = NodeFormat(s, f)]
  /\ touched' = [touched EXCEPT ![s] = IF late THEN @ \union {"node"} ELSE @]
  /\ UNCHANGED << pads, told >>

FormatCall(s) ==
  \/ \E f \in PadFormats :
       SetReceiverIn(s, f) \/ SetReceiverOut(s, f) \/ SetBackEndIn(s, f) \/ SetBackEndOut(s, f)
  \/ \E r \in Crops : SetCrop(s, r)

(***************************************************************************)
(* Start of a stream.                                                      *)
(***************************************************************************)

\* media_pipeline_walk_by_vc() compares the ends of a link if its sink has a
\* link_validate: the raw back end has, the other has not, and the receiver's
\* accepts every sensor.  Nothing compares the node with the back end: nobody
\* calls aq->link_fmt_validate.
Valid(s) == End(s) = "be" => pads[s].rxOut = pads[s].in

Compare(s) == Valid(s) /\ touched' = [touched EXCEPT ![s] = {}]

\* ipu_isys_prepare_fw_cfg_default(): what the node has is what is written.
Tell(s) == told' = [told EXCEPT ![s] = node[s]]
Untell(s) == told' = [told EXCEPT ![s] = NotTold]

(***************************************************************************)
(* Safety.                                                                 *)
(***************************************************************************)

\* In whatever order pads and crops are set, the source of the raw back end
\* follows its sink: it is as large as its crop, no taller than what comes in,
\* and has the order of the colours at the corner of the crop.  Not that the crop
\* lies in what comes in: nothing bounds its top, its left and its width by that.
\* (csi2_be_set_ffmt, ipu_isys_csi2_be_set_sel)
BackEndFollowsItsInput ==
  \A s \in DOMAIN board : End(s) = "be" =>
    LET p == pads[s] IN
    /\ p.in.code \in Bayer
    /\ << p.out.w, p.out.h >> = << p.crop.w, p.crop.h >>
    /\ p.crop.h <= p.in.h
    /\ p.out.code = Shifted(p.in.code, p.crop)

\* As long as the firmware writes pictures they are as the node describes them
\* to its user; and those of the raw back end are no taller than the pictures that
\* the receiver lets through, and have their order of colours.
\* Excepted are the two settings that the driver does not refuse: pads after they
\* were compared; and, in the pipeline of another node only, the node's format
\* between the firmware's being told and the return of the node's STREAMON.
\* (vidioc_s_fmt_vid_cap_mplane, ipu_isys_subdev_link_validate)
FirmwareToldTheNode ==
  \A s \in DOMAIN board : told[s] # NotTold =>
    LET p == pads[s] IN
    /\ told[s] = node[s] \/ ("node" \in touched[s] /\ ~board[s].own)
    /\ End(s) = "be" /\ "pads" \notin touched[s] =>
         p.crop.h <= p.rxOut.h /\ p.out.code = Shifted(p.rxOut.code, p.crop)
=============================================================================
