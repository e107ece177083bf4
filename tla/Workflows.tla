----------------------------- MODULE Workflows ------------------------------
(***************************************************************************)
(* The functions and workflows of src/benchmark, as the engine sees them:  *)
(* what each block fetches and posts, where its outputs go, and on which   *)
(* worker the gateway places it when there are two.  XxxPosts is the set   *)
(* of sequences of outputs that a block's main.py may post; outputs that   *)
(* nothing consumes are left out.  What is computed in between is not      *)
(* modelled: a switch is a choice among its branches.                      *)
(***************************************************************************)
EXTENDS Naturals, Sequences, TLC

To(b, i) == [block |-> b, input |-> i]

(***************************************************************************)
(* wordcount: start posts some items and, by block.py, their number; count *)
(* maps an item and merge joins them.  svd has the same shape.             *)
(***************************************************************************)
StartPosts(ns) == {Append([i \in 1..n |-> "start.file"], "start.CNT") : n \in ns}
CountPosts == {<<"count.res">>}
MergePosts == {<<"merge.res">>}
SplitPrograms(ns) == [start |-> StartPosts(ns), count |-> CountPosts, merge |-> MergePosts]
SplitFetches == [start |-> <<>>, count |-> <<"file">>, merge |-> <<"counts">>]
SplitInputs ==
  [start |-> [start |-> "NORMAL"],
   count |-> [file |-> "NORMAL"],
   merge |-> [CNT |-> "NORMAL", counts |-> "LIST"]]
SplitOutType == ("user.start" :> "NORMAL" @@ "start.file" :> "FOREACH" @@ "start.CNT" :> "NORMAL"
                 @@ "count.res" :> "MERGE" @@ "merge.res" :> "NORMAL")
SplitDest == ("user.start" :> <<To("start", "start")>>
              @@ "start.file" :> <<To("count", "file")>>
              @@ "start.CNT" :> <<To("merge", "CNT")>>
              @@ "count.res" :> <<To("merge", "counts")>>
              @@ "merge.res" :> <<To("USER", "res")>>)
SplitBig == {"start.file", "count.res"}
WordcountHome == [start |-> "h1", count |-> "h2", merge |-> "h2"]
SvdHome       == [start |-> "h1", count |-> "h2", merge |-> "h1"]

(***************************************************************************)
(* recognizer: three switches decide where the next start comes from.  The *)
(* committed code overrides the answers of adult and violence with False   *)
(* and that of censor with True; the first two keep both branches of the   *)
(* workflow file here, so that both sides of its joins are reached.        *)
(***************************************************************************)
UploadPosts    == {<<"upload.img">>}
AdultPosts     == {<<"adult.illegal">>, <<"adult.default">>}
ViolencePosts  == {<<"violence.illegal">>, <<"violence.default">>}
MosaicPosts    == {<<"mosaic.content">>}
ExtractPosts   == {<<"extract.text">>}
TranslatePosts == {<<"translate.text">>}
CensorPosts    == {<<"censor.illegal">>}
RecPrograms ==
  [upload |-> UploadPosts, adult |-> AdultPosts, violence |-> ViolencePosts,
   mosaic |-> MosaicPosts, extract |-> ExtractPosts,
   translate |-> TranslatePosts, censor |-> CensorPosts]
RecFetches ==
  [upload |-> <<>>, adult |-> <<"img">>, violence |-> <<"img">>, mosaic |-> <<"img">>,
   extract |-> <<"img">>, translate |-> <<"text">>, censor |-> <<"text">>]
RecInputs ==
  [upload |-> [start |-> "NORMAL"], adult |-> [img |-> "NORMAL"], violence |-> [img |-> "NORMAL"],
   mosaic |-> [img |-> "NORMAL", start |-> "NORMAL"],
   extract |-> [img |-> "NORMAL", start_0 |-> "NORMAL", start_1 |-> "NORMAL"],
   translate |-> [text |-> "NORMAL"], censor |-> [text |-> "NORMAL"]]
RecDest == ("user.start" :> <<To("upload", "start")>>
            @@ "upload.img" :> <<To("adult", "img"), To("violence", "img"),
                                 To("mosaic", "img"), To("extract", "img")>>
            @@ "adult.illegal" :> <<To("mosaic", "start")>>
            @@ "adult.default" :> <<To("extract", "start_0")>>
            @@ "violence.illegal" :> <<To("mosaic", "start")>>
            @@ "violence.default" :> <<To("extract", "start_1")>>
            @@ "mosaic.content" :> <<To("USER", "content")>>
            @@ "extract.text" :> <<To("translate", "text")>>
            @@ "translate.text" :> <<To("censor", "text")>>
            @@ "censor.illegal" :> <<To("mosaic", "start")>>)
RecOutType == [o \in DOMAIN RecDest |-> "NORMAL"]
RecBig == {"upload.img"}
RecHome == [b \in DOMAIN RecInputs |-> IF b = "upload" THEN "h1" ELSE "h2"]

(***************************************************************************)
(* video, on its branch split == True, with the inputs that matter:        *)
(* transcode joins an item with target_type, which upload posts on a way   *)
(* of its own.  The metadata that only split and merge read is left out.   *)
(***************************************************************************)
VideoUploadPosts    == {<<"upload.video", "upload.target_type">>}
VideoSplitPosts     == {<<"split.video", "split.video", "split.CNT">>}
VideoTranscodePosts == {<<"transcode.video">>}
VideoMergePosts     == {<<"merge.video">>}
VideoPrograms ==
  [upload |-> VideoUploadPosts, split |-> VideoSplitPosts,
   transcode |-> VideoTranscodePosts, merge |-> VideoMergePosts]
VideoFetches == [upload |-> <<>>, split |-> <<"video">>,
                 transcode |-> <<"target_type", "video">>, merge |-> <<"video", "target_type">>]
VideoInputs ==
  [upload |-> [start |-> "NORMAL"], split |-> [video |-> "NORMAL"],
   transcode |-> [video |-> "NORMAL", target_type |-> "NORMAL"],
   merge |-> [CNT |-> "NORMAL", video |-> "LIST", target_type |-> "NORMAL"]]
VideoDest == ("user.start" :> <<To("upload", "start")>>
              @@ "upload.video" :> <<To("split", "video")>>
              @@ "upload.target_type" :> <<To("transcode", "target_type"), To("merge", "target_type")>>
              @@ "split.video" :> <<To("transcode", "video")>>
              @@ "split.CNT" :> <<To("merge", "CNT")>>
              @@ "transcode.video" :> <<To("merge", "video")>>
              @@ "merge.video" :> <<To("USER", "video")>>)
VideoOutType == [o \in DOMAIN VideoDest |->
                   CASE o = "split.video" -> "FOREACH" [] o = "transcode.video" -> "MERGE"
                     [] OTHER -> "NORMAL"]
VideoBig == {"upload.video", "split.video", "transcode.video"}
VideoHome == [upload |-> "h1", split |-> "h1", transcode |-> "h2", merge |-> "h2"]

(* Every workflow starts with what the user posts. *)
UserInputs == <<"user.start">>
=============================================================================
