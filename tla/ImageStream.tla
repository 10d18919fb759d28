------------------------------ MODULE ImageStream ------------------------------
(***************************************************************************)
(* The image stream: what travels from the capture process to the extract  *)
(* process.  An image is a set of files.  Files are cut into chunks, each  *)
(* a marker optionally followed by a payload, and the chunks of a class    *)
(* ("small" files, or "main" for the large ones) carry consecutive         *)
(* sequence numbers.  The operators below are the effect of one chunk on   *)
(* the image being rebuilt; they are shared by the streaming reader        *)
(* (ImageDeserializer) and by the sequential reader it must implement      *)
(* (SequentialReplay).                                                     *)
(***************************************************************************)
EXTENDS Integers, Sequences

CONSTANTS File,          \* names of the files of an image
          LargeFile,     \* those is_small_file() classifies as large
          MetadataFile,  \* METADATA_FILE, the name of the list of files
          Data,          \* units of payload: a slice of a file, or a listed name
          None           \* the Option::None of the code

ASSUME ImageAssumption ==
  /\ LargeFile \subseteq File
  /\ MetadataFile \notin File
  /\ None \notin File \cup {MetadataFile}
  /\ None \notin Seq(Data)

Class == {"small", "main"}

\* is_small_file(): the class whose shards carry the file.
ClassOf(f) == IF f \in LargeFile THEN "main" ELSE "small"

FileName == File \cup {MetadataFile}

Body == {"Filename", "FileData", "FileEof", "ImageEof"}

\* A marker, and what a shard pipe holds: markers, and payloads behind the
\* FileData markers they belong to.  Only Filename markers name a file.
Marker  == [kind : {"marker"}, seq : Nat, body : Body, file : FileName \cup {None}]
Payload == [kind : {"payload"}, data : Seq(Data)]
Slot    == Marker \cup Payload

Chunk == [marker : Marker, data : Seq(Data)]

MakeMarker(n, body, f) == [kind |-> "marker", seq |-> n, body |-> body, file |-> f]
MakePayload(data)      == [kind |-> "payload", data |-> data]

HasPayload(marker) == marker.body = "FileData"

\* The slots a chunk occupies in the pipe it is written to.
SlotsOf(chunk) ==
  IF HasPayload(chunk.marker)
  THEN <<chunk.marker, MakePayload(chunk.data)>>
  ELSE <<chunk.marker>>

-----------------------------------------------------------------------------
\* The image being rebuilt.  img_files holds the files begun and set aside,
\* current_img_file the one that receives data, content what each file was
\* given since it was created, inserted what the image store was handed as
\* finished, metadata the list of files once read from the small file shard.
Image == [current_img_file : FileName \cup {None},
          img_files : SUBSET FileName,
          content : [FileName -> Seq(Data)],
          inserted : SUBSET FileName,
          metadata : Seq(Data) \cup {None},
          image_eof : BOOLEAN]

EmptyImage == [current_img_file |-> None,
               img_files |-> {},
               content |-> [f \in FileName |-> << >>],
               inserted |-> {},
               metadata |-> None,
               image_eof |-> FALSE]

ASSUME NoneAssumption == None \notin Marker /\ None \notin Image

\* Mutant: the current file is set aside even when there is none.
SelectImgFile_NoTake(img, f) ==
  LET begun == img.img_files \cup {img.current_img_file}
  IN  [img EXCEPT !.current_img_file = f,
                  !.img_files = begun \ {f},
                  !.content[f] = IF f \in begun THEN @ ELSE << >>]

\* A file that is neither current nor set aside is created anew, empty.
SelectImgFile(img, f) ==
  LET begun == img.img_files \cup ({img.current_img_file} \ {None})
  IN  [img EXCEPT !.current_img_file = f,
                  !.img_files = begun \ {f},
                  !.content[f] = IF f \in begun THEN @ ELSE << >>]

\* The conditions under which a marker of a class is processed without error.
CanApply(class, img, marker) ==
  \/ marker.body = "Filename"
  \/ marker.body \in {"FileData", "FileEof"} /\ img.current_img_file # None
  \/ marker.body = "ImageEof" /\ class = "main" /\ img.img_files = {}

\* process_small_file_marker() keeps the metadata file to itself.
IsMetadata(class, img) == class = "small" /\ img.current_img_file = MetadataFile

ApplyData(class, img, data) ==
  IF IsMetadata(class, img)
  THEN [img EXCEPT !.metadata = data]
  ELSE [img EXCEPT !.content[img.current_img_file] = @ \o data]

ApplyFileEof(class, img) ==
  [img EXCEPT !.current_img_file = None,
              !.inserted = IF IsMetadata(class, img) THEN @
                           ELSE @ \cup {img.current_img_file}]

\* The effect of a whole chunk (data is ignored unless the marker has a payload).
Apply(class, img, marker, data) ==
  CASE marker.body = "Filename" -> SelectImgFile(img, marker.file)
    [] marker.body = "FileData" -> ApplyData(class, img, data)
    [] marker.body = "FileEof"  -> ApplyFileEof(class, img)
    [] marker.body = "ImageEof" -> [img EXCEPT !.image_eof = TRUE]
=============================================================================
