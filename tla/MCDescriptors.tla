--------------------------- MODULE MCDescriptors ---------------------------
(***************************************************************************)
(* A small instance of Descriptors: an archive "ar" with an object file of *)
(* odd length and, behind it, an archive "lib" with an object file of its  *)
(* own.  "ar" ends without the padding byte of its last member, and        *)
(* elf_rand can find a header in it whose member is cut off.               *)
(***************************************************************************)
EXTENDS Descriptors, TLC

MCImage == {"obj", "lib", "ar"}
MCFile  == {"obj", "ar"}
MCOneFile == {"ar"}

MCKind == [i \in MCImage |-> IF i = "obj" THEN "ELF_K_ELF" ELSE "ELF_K_AR"]

ObjSize == 17
LibSize == SARMAG + HDRSZ + ObjSize
LibOff  == LibSize + 1
ArSize  == LibOff + HDRSZ + LibSize
CutOff  == ArSize - HDRSZ - 1

MCSize == [i \in MCImage |-> CASE i = "obj" -> ObjSize
                               [] i = "lib" -> LibSize
                               [] i = "ar"  -> ArSize]

MCHeader == [i \in MCImage |->
                CASE i = "obj" -> << >>
                  [] i = "lib" -> (SARMAG :> "obj")
                  [] i = "ar"  -> (SARMAG :> "obj") @@ (LibOff :> "lib")
                                    @@ (CutOff :> "obj")]

MCOffset == {0, SARMAG, CutOff}

MCLiveOffset == {SARMAG}

Addresses == Permutations(Desc)
=============================================================================
