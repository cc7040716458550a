-------------------------- MODULE MCVersionedDataset --------------------------
(* Instances of VersionedDataset for TLC: the dataset_*.cfg files. *)
EXTENDS VersionedDataset, TLC

CONSTANTS s, p, q

\* Two files of one source, asked for one by one or together.
MCFiles == {<<s, p>>, <<s, q>>}
MCSpecs == {{<<s, p>>}, MCFiles}
=============================================================================
