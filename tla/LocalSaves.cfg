\* Two workers that save one key, and one reader.
SPECIFICATION LocalSpec
CONSTANTS
    Saves = {s1, s2}
    LocalReaders = {reader}
    Nothing = Nothing
INVARIANT NeverHalfWritten
CHECK_DEADLOCK FALSE
