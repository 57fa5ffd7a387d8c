--------------------------- MODULE MCConfiguration ---------------------------
EXTENDS Configuration, TLC

CONSTANTS db_path, pid_file, port

Interchangeable == Permutations(Strings)
==============================================================================
