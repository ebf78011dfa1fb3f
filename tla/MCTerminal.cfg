SPECIFICATION AllSpec
INVARIANTS
    FlushShowsText SequencesEdit CancelRecovers DecodesUtf8 ScreenFits
