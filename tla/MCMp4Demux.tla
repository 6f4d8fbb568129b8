----------------------------- MODULE MCMp4Demux -----------------------------
(* Bounds for model checking the MP4 demuxer.                             *)
EXTENDS Mp4Demux

(* A box of one unit, the moov box of two: a packet may end inside moov. *)
Box(t, z) == [type |-> t, size0 |-> z, units |-> IF t = "moov" THEN 2 ELSE 1]

(* One video and one audio track of up to two samples.                    *)
MCTrackKinds == <<"vide", "soun">>
MCMaxSamples == 2
(* One sample per track: enough for a sample-size read past a table.     *)
MCMaxSamplesOne == 1

MCDeltas == {1, 2}
MCCttsOffsets == {0, 1}
MCTimescales == {1000}
MCSizes == {8}

(* moov before or after mdat, with a free box in between.                 *)
MCLayouts == {<<Box("ftyp", FALSE), Box("moov", FALSE), Box("mdat", FALSE)>>,
              <<Box("ftyp", FALSE), Box("free", FALSE), Box("mdat", FALSE),
                Box("moov", FALSE)>>}

(* Section 4.C: a last mdat box whose size field is 0 runs to the end of  *)
(* the file.                                                              *)
MCLayoutsMdatToEof == {<<Box("ftyp", FALSE), Box("moov", FALSE), Box("mdat", TRUE)>>}

(* Packets of two units for the buffered SourceData: with either layout  *)
(* one packet ends inside moov and the loop breaks there.                *)
MCChunkUnits == {2}
=============================================================================
