\* Three frames stand for the beep's fifteen and four polls for the guard's 2^16.
CONSTANTS
    Tunes <- MCTunes
    Losses <- MCLosses
    Music <- MCMusic
    BEEP_FRAMES = 3
    GuardSize = 4
SPECIFICATION SoundSpec
INVARIANTS NoteIsWhole HeldIsSilent SpeakerIsOwned
PROPERTIES CallsReturn
