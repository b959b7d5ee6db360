--------------------------- MODULE MCDMGPartition ---------------------------
(* Model checking of DMGPartitionRuns: ways to cut four sectors into three  *)
(* runs, each raw, filled or compressed, with a comment and a terminator.   *)
EXTENDS DMGPartitionRuns

Run(type, start, n) == [type |-> type, start |-> start, count |-> n]

\* A partition of SectorCount sectors cut at a and b, the runs of types ts.
Table(a, b, ts) ==
  << Run(ts[1], 0, a), Run("Comment", a, 0), Run(ts[2], a, b - a),
     Run(ts[3], b, SectorCount - b), Run("Terminator", SectorCount, 0) >>

Types == {"Raw", "ZeroFill", "Zlib"}

\* A run whose stream is too short.
Broken == Run("LZFSE", 0, 1)

\* Runs of one and two sectors in any order of types, and some of up to three
\* for each codec.  And three tables that are not sound: one with a run of
\* an unknown type, one without a run for its first sector, one with a hole
\* behind a compressed run, which is broken.
MCTables ==
  { Table(a, b, ts) : <<a, b>> \in {<<1, 2>>, <<2, 3>>}, ts \in [1 .. 3 -> Types] }
  \cup { Table(1, 1, <<"Raw", "Comment", codec>>) : codec \in {"Bzip2", "LZFSE", "ADC"} }
  \cup { Table(2, 3, <<codec, "Raw", "Zlib">>) : codec \in {"Bzip2", "LZFSE"} }
  \cup { Table(1, 2, <<"Raw", "Unheard", "Zlib">>),
         Table(1, 2, <<"Comment", "Unknown", "ADC">>),
         << Broken, Run("Raw", 2, SectorCount - 2) >> }

\* A run is whole, or ends one byte early; bzip2 runs are whole.
MCStreamsOf(run) ==
  IF run.type \notin Codecs THEN {}
  ELSE { [kind |-> run.type, len |-> run.count * SectorSize - less] :
           less \in IF run = Broken THEN {1} ELSE IF run.type = "Bzip2" THEN {0} ELSE {0, 1} }
=============================================================================
